--------------------------- MODULE FastPathProofs ---------------------------
(***************************************************************************)
(* Proofs about FastPath, for any set of five-tuples closed under Reverse, *)
(* any packets, any rule sets and a table of any size.                     *)
(***************************************************************************)
EXTENDS FastPath, FiniteSetTheorems, TLAPS

(* No set of records is without a least recently seen one.  This is what   *)
(* induction over the finite table would give; stated of every subset, it  *)
(* is inductive over the steps instead, and eviction finds its victim.     *)
WellOrdered ==
  \A S \in SUBSET Tracked :
    S # {} => \E k \in S : \A j \in S : <<j, k>> \notin older

TrackerInv ==
  /\ TrackerTypeOK /\ SeenInTotalOrder /\ WellOrdered
  /\ OneRecordPerConversation

(* A blocked record got its block from a packet of its own.                *)
BlockedMatched == \A k \in Tracked : connections[k].state = "BLOCKED" => k \in matched

(* The flow of the last packet is in the table, as the most recent one.    *)
HandledIsNewest ==
  Handled => /\ Key(handled.packet.tuple) \in Tracked
             /\ \A j \in Tracked : <<Key(handled.packet.tuple), j>> \notin older

(* The inductive invariant.                                                *)
IInv ==
  /\ TypeOK /\ TrackerInv
  /\ ForwardObeysRules /\ DropHasCause
  /\ BlockedMatched /\ HandledIsNewest
-----------------------------------------------------------------------------
(* Types of the steps a packet's record goes through.                      *)
LEMMA TupleFacts ==
  ASSUME NEW t \in Tuples
  PROVE  /\ Reverse(t) \in Tuples
         /\ Reverse(Reverse(t)) = t
         /\ Key(t) \in Tuples
         /\ Key(t) \in {t, Reverse(t)}
         /\ t \in {Key(t), Reverse(Key(t))}
<1>1. Reverse(t) \in Tuples /\ Reverse(Reverse(t)) = t
  BY TrackerAssumption
<1>2. QED BY <1>1 DEF Key

LEMMA FoundType ==
  ASSUME TrackerTypeOK, NEW t \in Tuples
  PROVE  Found(t) \in Connection
<1>1. Fresh \in Connection
  BY TrackerAssumption DEF Fresh, Connection, State
<1>2. QED BY <1>1 DEF Found, TrackerTypeOK

LEMMA TcpType ==
  ASSUME NEW p \in Packets, NEW c \in Connection
  PROVE  /\ TcpAdvanced(c, p) \in Connection
         /\ TcpAdvanced(c, p).app_type = c.app_type
         /\ TcpAdvanced(c, p).sni = c.sni
BY ZenonT(60) DEF TcpAdvanced, UpdateTcpState, Connection, State

LEMMA ClassifyType ==
  ASSUME NEW c \in Connection, NEW a \in Apps, NEW n \in Names
  PROVE  Classify(c, a, n) \in Connection
BY DEF Classify, Connection, State

LEMMA InspectedType ==
  ASSUME NEW p \in Packets, NEW c \in Connection
  PROVE  Inspected(c, p) \in Connection
<1>1. p.name \in Names /\ AppOf[p.name] \in Apps
  BY FastPathAssumption
<1>2. {"DNS", "HTTP", "HTTPS"} \subseteq Apps /\ NoName \in Names
  BY FastPathAssumption, TrackerAssumption
<1>3. QED BY <1>1, <1>2, ClassifyType DEF Inspected

LEMMA ExaminedType ==
  ASSUME TrackerTypeOK, NEW p \in Packets
  PROVE  Examined(p) \in Connection
<1>1. p.tuple \in Tuples BY FastPathAssumption
<1>2. QED BY <1>1, FoundType, TcpType, InspectedType DEF Examined

(* Nothing but a record that was BLOCKED before comes out BLOCKED.         *)
LEMMA ExaminedBlocked ==
  ASSUME TrackerTypeOK, NEW p \in Packets, Examined(p).state = "BLOCKED"
  PROVE  /\ Key(p.tuple) \in Tracked
         /\ connections[Key(p.tuple)].state = "BLOCKED"
         /\ Victims(p.tuple) = {}
<1> DEFINE found == Found(p.tuple)  conn == TcpAdvanced(found, p)
<1>1. found \in Connection /\ conn \in Connection
  BY FastPathAssumption, FoundType, TcpType
<1>2. conn.state = "BLOCKED"
  <2>1. \A a, n : Classify(conn, a, n).state = "BLOCKED" => conn.state = "BLOCKED"
    BY <1>1 DEF Classify, Connection
  <2>2. Inspected(conn, p).state = "BLOCKED" => conn.state = "BLOCKED"
    BY <2>1 DEF Inspected
  <2>3. QED BY <2>2 DEF Examined
<1>3. found.state = "BLOCKED"
  BY <1>1, <1>2 DEF TcpAdvanced, UpdateTcpState, Connection
<1>4. QED BY <1>3 DEF Found, Fresh, Victims

LEMMA BlockType ==
  ASSUME NEW c \in Connection
  PROVE  Block(c) \in Connection /\ Block(c).state = "BLOCKED"
BY DEF Block, Connection, State
-----------------------------------------------------------------------------
(* The victim of an eviction: none, or exactly one from a full table.      *)
LEMMA VictimFacts ==
  ASSUME TrackerInv, NEW t \in Tuples
  PROVE  \/ Key(t) \in Tracked /\ Victims(t) = {}
         \/ /\ Key(t) \notin Tracked /\ Victims(t) = {}
            /\ Cardinality(Tracked) < MaxConnections
         \/ /\ Key(t) \notin Tracked /\ Cardinality(Tracked) = MaxConnections
            /\ \E v \in Tracked : Victims(t) = {v} /\ IsOldest(v)
<1>1. IsFiniteSet(Tracked) /\ Cardinality(Tracked) \in Nat
  BY FS_Subset, FS_CardinalityType, TrackerAssumption DEF TrackerInv, TrackerTypeOK
<1>2. CASE Key(t) \in Tracked \/ Cardinality(Tracked) < MaxConnections
  BY <1>2 DEF Victims
<1>3. CASE ~(Key(t) \in Tracked \/ Cardinality(Tracked) < MaxConnections)
  <2>1. Cardinality(Tracked) = MaxConnections
    BY <1>1, <1>3, TrackerAssumption DEF TrackerInv, TrackerTypeOK
  <2>2. Tracked # {}
    BY <2>1, FS_EmptySet, TrackerAssumption
  <2>3. PICK v \in Tracked : \A j \in Tracked : <<j, v>> \notin older
    BY <2>2 DEF TrackerInv, WellOrdered
  <2>4. \A k \in Tracked : IsOldest(k) => k = v
    BY <2>3 DEF IsOldest, TrackerInv, SeenInTotalOrder
  <2>5. Victims(t) = {v} /\ IsOldest(v)
    BY <1>3, <2>3, <2>4 DEF Victims, IsOldest
  <2>6. QED BY <1>3, <2>1, <2>5
<1>4. QED BY <1>2, <1>3

LEMMA StoreDomain ==
  ASSUME NEW t, NEW c, Store(t, c)
  PROVE  /\ Tracked' = (Tracked \ Victims(t)) \cup {Key(t)}
         /\ connections'[Key(t)] = c
         /\ \A j \in Tracked' : j # Key(t) => j \in Tracked /\ connections'[j] = connections[j]
BY DEF Store, Tracked

(* The packet's flow is found again under the key it was filed under.      *)
LEMMA KeyStable ==
  ASSUME TrackerInv, NEW t \in Tuples, NEW c, Store(t, c)
  PROVE  Key(t)' = Key(t)
<1>1. Key(t)' = IF t \notin Tracked' /\ Reverse(t) \in Tracked' THEN Reverse(t) ELSE t
  BY DEF Key
<1>2. CASE Key(t) = t
  BY <1>1, <1>2, StoreDomain
<1>3. CASE Key(t) # t
  <2>1. t \notin Tracked /\ Reverse(t) \in Tracked /\ Key(t) = Reverse(t)
    BY <1>3 DEF Key
  <2>2. Tracked' = Tracked
    BY <2>1, StoreDomain, VictimFacts
  <2>3. QED BY <1>1, <2>1, <2>2
<1>4. QED BY <1>2, <1>3

LEMMA StoreInv ==
  ASSUME TrackerInv, NEW t \in Tuples, NEW c \in Connection, Store(t, c)
  PROVE  /\ TrackerInv'
         /\ \A j \in Tracked' : <<Key(t), j>> \notin older'
<1> DEFINE k == Key(t)  V == Victims(t)
<1>1. Tracked' = (Tracked \ V) \cup {k} /\ k \in Tuples /\ k \in {t, Reverse(t)}
  BY StoreDomain, TupleFacts
<1>2. older' = {r \in older : r[1] \notin V \cup {k} /\ r[2] \notin V \cup {k}}
                 \cup {<<j, k>> : j \in Tracked \ (V \cup {k})}
  BY DEF Store, Seen
<1>3. TrackerTypeOK'
  <2>1. Tracked' \subseteq Tuples
    BY <1>1 DEF TrackerInv, TrackerTypeOK
  <2>2. connections' \in [Tracked' -> Connection]
    BY DEF Store, Tracked, TrackerInv, TrackerTypeOK
  <2>3. Cardinality(Tracked') <= MaxConnections
    <3>1. IsFiniteSet(Tracked) /\ Cardinality(Tracked) \in Nat /\ MaxConnections \in Nat
      BY FS_Subset, FS_CardinalityType, TrackerAssumption DEF TrackerInv, TrackerTypeOK
    <3>2. CASE k \in Tracked /\ V = {}
      <4>1. Tracked' = Tracked BY <3>2, <1>1
      <4>2. QED BY <4>1 DEF TrackerInv, TrackerTypeOK
    <3>3. CASE k \notin Tracked /\ V = {} /\ Cardinality(Tracked) < MaxConnections
      <4>1. Tracked' = Tracked \cup {k} BY <3>3, <1>1
      <4>2. Cardinality(Tracked \cup {k}) = Cardinality(Tracked) + 1
        BY <3>1, <3>3, FS_AddElement
      <4>3. QED BY <3>1, <3>3, <4>1, <4>2
    <3>4. CASE /\ k \notin Tracked /\ Cardinality(Tracked) = MaxConnections
               /\ \E v \in Tracked : V = {v} /\ IsOldest(v)
      <4>1. PICK v \in Tracked : V = {v} BY <3>4
      <4>2. Tracked' = (Tracked \ {v}) \cup {k} BY <4>1, <1>1
      <4>3. /\ IsFiniteSet(Tracked \ {v})
            /\ Cardinality(Tracked \ {v}) = Cardinality(Tracked) - 1
        BY <3>1, <4>1, FS_RemoveElement
      <4>4. Cardinality((Tracked \ {v}) \cup {k}) = Cardinality(Tracked \ {v}) + 1
        BY <3>4, <4>3, FS_AddElement
      <4>5. QED BY <3>1, <3>4, <4>2, <4>3, <4>4
    <3>5. QED BY <3>2, <3>3, <3>4, VictimFacts
  <2>4. older' \subseteq Tracked' \X Tracked'
    BY <1>1, <1>2 DEF TrackerInv, TrackerTypeOK
  <2>5. QED BY <2>1, <2>2, <2>3, <2>4 DEF TrackerTypeOK
<1>4. SeenInTotalOrder'
  <2>1. \A i, j \in Tracked' : <<i, j>> \in older' <=>
          i # k /\ (j = k \/ <<i, j>> \in older)
    BY <1>1, <1>2 DEF TrackerInv, TrackerTypeOK
  <2>2. \A i \in Tracked' : i # k => i \in Tracked
    BY <1>1
  <2>3. \A i \in Tracked' : <<i, i>> \notin older'
    BY <2>1, <2>2 DEF TrackerInv, SeenInTotalOrder
  <2>4. \A i, j \in Tracked' : i # j => (<<i, j>> \in older' <=> <<j, i>> \notin older')
    <3>1. SUFFICES ASSUME NEW i \in Tracked', NEW j \in Tracked', i # j
                   PROVE  <<i, j>> \in older' <=> <<j, i>> \notin older'
      OBVIOUS
    <3>2. CASE i = k \/ j = k
      BY <2>1, <3>1, <3>2
    <3>3. CASE i # k /\ j # k
      <4>1. <<i, j>> \in older <=> <<j, i>> \notin older
        BY <2>2, <3>1, <3>3 DEF TrackerInv, SeenInTotalOrder
      <4>2. QED BY <2>1, <3>1, <3>3, <4>1
    <3>4. QED BY <3>2, <3>3
  <2>5. \A i, j, l \in Tracked' :
          <<i, j>> \in older' /\ <<j, l>> \in older' => <<i, l>> \in older'
    BY <2>1, <2>2 DEF TrackerInv, SeenInTotalOrder
  <2>6. QED BY <2>3, <2>4, <2>5 DEF SeenInTotalOrder
<1>5. WellOrdered'
  <2>1. SUFFICES ASSUME NEW S \in SUBSET Tracked', S # {}
                 PROVE  \E m \in S : \A j \in S : <<j, m>> \notin older'
    BY DEF WellOrdered
  <2>2. CASE S \subseteq {k}
    BY <1>2, <2>1, <2>2
  <2>3. CASE ~(S \subseteq {k})
    <3>1. S \ {k} \in SUBSET Tracked /\ S \ {k} # {}
      BY <1>1, <2>3
    <3>2. PICK m \in S \ {k} : \A j \in S \ {k} : <<j, m>> \notin older
      BY <3>1 DEF TrackerInv, WellOrdered
    <3>3. \A j \in S : <<j, m>> \notin older'
      BY <1>2, <3>2
    <3>4. QED BY <3>2, <3>3
  <2>4. QED BY <2>2, <2>3
<1>6. OneRecordPerConversation'
  <2>1. SUFFICES ASSUME NEW j \in Tracked', Reverse(j) \in Tracked'
                 PROVE  Reverse(j) = j
    BY DEF OneRecordPerConversation, Reverse
  <2>2. \A i \in Tracked' : i # k => i \in Tracked
    BY <1>1
  <2>3. k \in Tracked \/ (k = t /\ Reverse(t) \notin Tracked)
    BY DEF Key
  <2>4. Reverse(Reverse(t)) = t /\ Reverse(Reverse(j)) = j
    BY <1>1, TrackerAssumption DEF TrackerInv, TrackerTypeOK
  <2>5. QED BY <2>1, <2>2, <2>3, <2>4 DEF TrackerInv, OneRecordPerConversation
<1>7. TrackerInv'
  BY <1>3, <1>4, <1>5, <1>6 DEF TrackerInv
<1>8. \A j \in Tracked' : <<k, j>> \notin older'
  BY <1>2
<1>9. QED BY <1>7, <1>8

LEMMA CleanupInv ==
  ASSUME TrackerInv, NEW idle \in IdleSets, CleanupStale(idle)
  PROVE  /\ TrackerInv'
         /\ Tracked' \subseteq Tracked
         /\ \A k \in Tracked' : connections'[k] = connections[k]
<1> DEFINE gone == idle \cup {k \in Tracked : connections[k].state = "CLOSED"}
<1>1. /\ connections' = [k \in Tracked \ gone |-> connections[k]]
      /\ older' = {r \in older : r[1] \notin gone /\ r[2] \notin gone}
  BY DEF CleanupStale
<1> HIDE DEF gone
<1>2. Tracked' = Tracked \ gone /\ \A k \in Tracked' : connections'[k] = connections[k]
  BY <1>1 DEF Tracked
<1>3. TrackerTypeOK'
  <2>1. IsFiniteSet(Tracked) /\ Cardinality(Tracked) \in Nat /\ MaxConnections \in Nat
    BY FS_Subset, FS_CardinalityType, TrackerAssumption DEF TrackerInv, TrackerTypeOK
  <2>2. Cardinality(Tracked') <= Cardinality(Tracked) /\ Cardinality(Tracked') \in Nat
    BY <1>2, <2>1, FS_Subset, FS_CardinalityType
  <2>3. Cardinality(Tracked') <= MaxConnections
    BY <2>1, <2>2 DEF TrackerInv, TrackerTypeOK
  <2>4. connections' \in [Tracked' -> Connection]
    BY <1>1, <1>2 DEF TrackerInv, TrackerTypeOK
  <2>5. QED BY <1>1, <1>2, <2>3, <2>4 DEF TrackerInv, TrackerTypeOK
<1>4. \A i, j \in Tracked' : <<i, j>> \in older' <=> <<i, j>> \in older
  BY <1>1, <1>2
<1>5. SeenInTotalOrder'
  <2>1. \A i \in Tracked' : <<i, i>> \notin older'
    BY <1>2, <1>4 DEF TrackerInv, SeenInTotalOrder
  <2>2. \A i, j \in Tracked' : i # j => (<<i, j>> \in older' <=> <<j, i>> \notin older')
    BY <1>2, <1>4 DEF TrackerInv, SeenInTotalOrder
  <2>3. \A i, j, l \in Tracked' :
          <<i, j>> \in older' /\ <<j, l>> \in older' => <<i, l>> \in older'
    BY <1>2, <1>4 DEF TrackerInv, SeenInTotalOrder
  <2>4. QED BY <2>1, <2>2, <2>3 DEF SeenInTotalOrder
<1>6. WellOrdered'
  BY <1>1, <1>2 DEF TrackerInv, WellOrdered
<1>7. OneRecordPerConversation'
  BY <1>2 DEF TrackerInv, OneRecordPerConversation, Reverse
<1>8. QED BY <1>2, <1>3, <1>5, <1>6, <1>7 DEF TrackerInv
-----------------------------------------------------------------------------
(* The inductive invariant holds initially.                                *)
THEOREM IInvInit == Init => IInv
<1> SUFFICES ASSUME Init PROVE IInv
  OBVIOUS
<1>1. Tracked = {} /\ connections = << >> /\ older = {} /\ handled = NoPacket
  BY DEF Init, TrackerInit, Tracked
<1>2. TrackerTypeOK
  BY <1>1, FS_EmptySet, TrackerAssumption DEF TrackerTypeOK
<1>3. SeenInTotalOrder /\ WellOrdered /\ OneRecordPerConversation
  BY <1>1 DEF SeenInTotalOrder, WellOrdered, OneRecordPerConversation
<1>4. TypeOK
  BY <1>1, <1>2, <1>3 DEF Init, TypeOK
<1>5. QED
  BY <1>1, <1>2, <1>3, <1>4 DEF IInv, TrackerInv, ForwardObeysRules, DropHasCause,
     BlockedMatched, HandledIsNewest, Handled

(* One packet: what it leaves behind.                                      *)
LEMMA ProcessInv ==
  ASSUME IInv, NEW p \in Packets, Process(p)
  PROVE  IInv'
<1> DEFINE t == p.tuple
           k == Key(t)
           conn == Examined(p)
           hit == conn.state # "BLOCKED" /\ ShouldBlock(t, conn)
           stored == IF hit THEN Block(conn) ELSE conn
<1>1. t \in Tuples /\ TrackerInv
  BY FastPathAssumption DEF IInv
<1>2. conn \in Connection /\ stored \in Connection
  BY <1>1, ExaminedType, BlockType DEF TrackerInv
<1>3. /\ Store(t, stored)
      /\ handled' = [packet |-> p, verdict |-> Verdict(p)]
      /\ matched' = (matched \ Victims(t)) \cup {j \in {k} : hit}
      /\ rules' = rules
  BY DEF Process
<1>4. /\ TrackerInv'
      /\ \A j \in Tracked' : <<k, j>> \notin older'
  BY <1>1, <1>2, <1>3, StoreInv
<1>5. /\ Tracked' = (Tracked \ Victims(t)) \cup {k}
      /\ connections'[k] = stored
      /\ \A j \in Tracked' : j # k => j \in Tracked /\ connections'[j] = connections[j]
  BY <1>3, StoreDomain
<1>6. Key(t)' = k
  BY <1>1, <1>3, KeyStable
<1>7. /\ handled'.packet = p
      /\ handled'.verdict = IF conn.state = "BLOCKED" \/ ShouldBlock(t, conn)
                            THEN "DROP" ELSE "FORWARD"
  BY <1>3 DEF Verdict
<1>8. Key(handled.packet.tuple)' = k
  BY <1>6, <1>7
<1> HIDE DEF k, conn
<1>9. TypeOK'
  <2>1. handled' \in [packet : Packets, verdict : {"FORWARD", "DROP"}]
    BY <1>3 DEF Verdict
  <2>2. matched' \subseteq Tracked'
    BY <1>3, <1>5 DEF IInv, TypeOK
  <2>3. rules' \in RuleSets
    BY <1>3 DEF IInv, TypeOK
  <2>4. QED BY <1>4, <2>1, <2>2, <2>3 DEF TypeOK, TrackerInv
<1>10. ForwardObeysRules'
  <2>1. SUFFICES ASSUME handled'.verdict = "FORWARD"
                 PROVE  ~ShouldBlock(handled.packet.tuple, Flow)'
    BY DEF ForwardObeysRules
  <2>2. ~ShouldBlock(t, conn) /\ stored = conn
    BY <1>7, <2>1
  <2>3. Flow' = conn
    BY <1>5, <1>8, <2>2 DEF Flow
  <2>4. QED BY <1>3, <1>7, <2>2, <2>3 DEF ShouldBlock
<1>11. BlockedMatched'
  <2>1. stored.state = "BLOCKED" => k \in matched'
    <3>1. CASE hit
      BY <1>3, <3>1
    <3>2. CASE ~hit /\ conn.state = "BLOCKED"
      <4>1. k \in Tracked /\ connections[k].state = "BLOCKED" /\ Victims(t) = {}
        BY <1>1, <3>2, ExaminedBlocked DEF TrackerInv, k, conn
      <4>2. QED BY <1>3, <4>1 DEF IInv, BlockedMatched
    <3>3. QED BY <3>1, <3>2
  <2>2. \A j \in Tracked' : j # k /\ connections'[j].state = "BLOCKED" => j \in matched'
    BY <1>3, <1>5 DEF IInv, BlockedMatched
  <2>3. QED BY <1>5, <2>1, <2>2 DEF BlockedMatched
<1>12. DropHasCause'
  <2>1. SUFFICES ASSUME handled'.verdict = "DROP" PROVE k \in matched'
    BY <1>8 DEF DropHasCause
  <2>2. stored.state = "BLOCKED"
    BY <1>2, <1>7, <2>1, BlockType
  <2>3. QED BY <1>5, <1>11, <2>2 DEF BlockedMatched
<1>13. HandledIsNewest'
  BY <1>4, <1>5, <1>7, <1>8 DEF HandledIsNewest
<1>14. QED
  BY <1>4, <1>9, <1>10, <1>11, <1>12, <1>13 DEF IInv

LEMMA SweepInv ==
  ASSUME IInv, NEW idle \in IdleSets, Sweep(idle)
  PROVE  IInv'
<1>1. /\ TrackerInv'
      /\ Tracked' \subseteq Tracked
      /\ \A k \in Tracked' : connections'[k] = connections[k]
  BY CleanupInv DEF IInv, Sweep
<1>2. handled' = NoPacket /\ rules' = rules /\ matched' = matched \cap Tracked'
  BY DEF Sweep, Tracked
<1>3. TypeOK'
  BY <1>1, <1>2 DEF IInv, TypeOK, TrackerInv
<1>4. BlockedMatched'
  BY <1>1, <1>2 DEF IInv, BlockedMatched
<1>5. ForwardObeysRules' /\ DropHasCause' /\ HandledIsNewest'
  BY <1>2 DEF ForwardObeysRules, DropHasCause, HandledIsNewest, Handled
<1>6. QED BY <1>1, <1>3, <1>4, <1>5 DEF IInv

(* Whoever leaves the table alone and reports no packet keeps the rest.    *)
LEMMA IdleStepInv ==
  ASSUME IInv, UNCHANGED <<connections, older, matched>>, rules' \in RuleSets,
         handled' = NoPacket \/ UNCHANGED <<handled, rules>>
  PROVE  IInv'
<1>1. Tracked' = Tracked /\ TrackerInv'
  BY DEF IInv, TrackerInv, TrackerTypeOK, Tracked, SeenInTotalOrder, WellOrdered,
     OneRecordPerConversation, Reverse
<1>2. TypeOK' /\ BlockedMatched'
  BY <1>1 DEF IInv, TypeOK, TrackerInv, BlockedMatched
<1>3. CASE handled' = NoPacket
  BY <1>1, <1>2, <1>3 DEF IInv, ForwardObeysRules, DropHasCause, HandledIsNewest, Handled
<1>4. CASE UNCHANGED <<handled, rules>>
  <2>1. ForwardObeysRules' /\ DropHasCause' /\ HandledIsNewest'
    BY <1>1, <1>4 DEF IInv, ForwardObeysRules, DropHasCause, HandledIsNewest, Handled,
       Flow, Key, Reverse, ShouldBlock
  <2>2. QED BY <1>1, <1>2, <2>1 DEF IInv
<1>5. QED BY <1>3, <1>4

(* Every step keeps the inductive invariant.                               *)
THEOREM IInvStep == IInv /\ [Next]_vars => IInv'
<1> SUFFICES ASSUME IInv, [Next]_vars PROVE IInv'
  OBVIOUS
<1>1. CASE \E p \in Packets : Process(p)
  BY <1>1, ProcessInv
<1>2. CASE \E idle \in IdleSets : Sweep(idle)
  BY <1>2, SweepInv
<1>3. CASE \E r \in RuleSets : EditRules(r)
  BY <1>3, IdleStepInv DEF EditRules
<1>4. CASE UNCHANGED vars
  BY <1>4, IdleStepInv DEF vars, IInv, TypeOK
<1>5. QED BY <1>1, <1>2, <1>3, <1>4 DEF Next

(* The inductive invariant holds in every reachable state.                 *)
THEOREM IInvInvariant == Spec => []IInv
BY IInvInit, IInvStep, PTL DEF Spec
-----------------------------------------------------------------------------
(* The variables keep their types, the table never exceeds max_connections *)
(* and its records are always totally ordered by last_seen, so that the    *)
(* eviction of a full table finds exactly one victim.                      *)
THEOREM TypeCorrect == Spec => []TypeOK
<1>1. IInv => TypeOK BY DEF IInv
<1>2. QED BY <1>1, IInvInvariant, PTL

(* get_or_create_connection never files the two directions of a            *)
(* conversation under two records.                                         *)
THEOREM DirectionsShareARecord == Spec => []OneRecordPerConversation
<1>1. IInv => OneRecordPerConversation BY DEF IInv, TrackerInv
<1>2. QED BY <1>1, IInvInvariant, PTL

(* _check_rules lets no packet through that a rule matches.                *)
THEOREM NoForwardAgainstRules == Spec => []ForwardObeysRules
<1>1. IInv => ForwardObeysRules BY DEF IInv
<1>2. QED BY <1>1, IInvInvariant, PTL

(* _process_packet drops no packet of a flow that never matched a rule.    *)
THEOREM NoDropWithoutCause == Spec => []DropHasCause
<1>1. IInv => DropHasCause BY DEF IInv
<1>2. QED BY <1>1, IInvInvariant, PTL
-----------------------------------------------------------------------------
(* What a packet does to the record of its flow, and that it does nothing  *)
(* to any other record that stays.  That the packet concerns no other      *)
(* record needs OneRecordPerConversation.                                  *)
LEMMA OwnRecordOnly ==
  ASSUME IInv, NEW p \in Packets, Process(p), NEW k \in Tracked, k \in Tracked'
  PROVE  \/ ~Concerns(p, k) /\ connections'[k] = connections[k]
         \/ /\ Key(p.tuple) = k /\ Found(p.tuple) = connections[k]
            /\ Concerns(p, k) /\ connections[k] \in Connection
            /\ connections'[k] =
                 IF Examined(p).state # "BLOCKED" /\ ShouldBlock(p.tuple, Examined(p))
                 THEN Block(Examined(p)) ELSE Examined(p)
<1>1. p.tuple \in Tuples /\ k \in Tuples
  BY FastPathAssumption DEF IInv, TypeOK, TrackerTypeOK
<1>2. Reverse(Reverse(k)) = k
  BY <1>1, TrackerAssumption
<1>3. Store(p.tuple, IF Examined(p).state # "BLOCKED" /\ ShouldBlock(p.tuple, Examined(p))
                     THEN Block(Examined(p)) ELSE Examined(p))
  BY DEF Process
<1>4. CASE Key(p.tuple) = k
  <2>1. Concerns(p, k)
    BY <1>1, <1>4, TupleFacts DEF Concerns
  <2>2. Found(p.tuple) = connections[k] /\ connections[k] \in Connection
    BY <1>4 DEF Found, IInv, TypeOK, TrackerTypeOK
  <2>3. QED BY <1>3, <1>4, <2>1, <2>2, StoreDomain
<1>5. CASE Key(p.tuple) # k
  <2>1. p.tuple # k
    BY <1>5 DEF Key
  <2>2. p.tuple # Reverse(k)
    <3>1. SUFFICES ASSUME p.tuple = Reverse(k) PROVE FALSE
      OBVIOUS
    <3>2. p.tuple \in Tracked
      BY <1>2, <1>5, <3>1 DEF Key
    <3>3. Reverse(k) = k
      BY <3>1, <3>2 DEF IInv, TrackerInv, OneRecordPerConversation
    <3>4. QED BY <2>1, <3>1, <3>3
  <2>3. QED BY <1>3, <1>5, <2>1, <2>2, StoreDomain DEF Concerns
<1>6. QED BY <1>4, <1>5

(* Short of a packet that closes it, TCP does not move a flow that is      *)
(* classified or blocked.                                                  *)
LEMMA TcpKeepsState ==
  ASSUME NEW p \in Packets, NEW k \in Tracked, connections[k] \in Connection,
         Concerns(p, k), ~Closes(p, k), connections[k].state \in {"CLASSIFIED", "BLOCKED"}
  PROVE  TcpAdvanced(connections[k], p).state = connections[k].state
BY DEF Closes, TcpAdvanced, UpdateTcpState, Connection

LEMMA BlockHoldsStep ==
  ASSUME IInv, Next, NEW k \in Tracked \cap Tracked'
  PROVE  BlockHolds(k)
<1> SUFFICES ASSUME connections[k].state = "BLOCKED",
                    ~(Handled' /\ Closes(handled'.packet, k))
             PROVE  /\ connections'[k].state = "BLOCKED"
                    /\ Handled' /\ Concerns(handled'.packet, k)
                         => handled'.verdict = "DROP"
  BY DEF BlockHolds
<1>1. CASE \E p \in Packets : Process(p)
  <2>1. PICK p \in Packets : Process(p) BY <1>1
  <2>2. handled' = [packet |-> p, verdict |-> Verdict(p)] /\ Handled'
    BY <2>1, FastPathAssumption DEF Process, Handled, Verdict
  <2>3. CASE ~Concerns(p, k) /\ connections'[k] = connections[k]
    BY <2>2, <2>3
  <2>4. CASE /\ Key(p.tuple) = k /\ Found(p.tuple) = connections[k]
             /\ Concerns(p, k) /\ connections[k] \in Connection
             /\ connections'[k] =
                  IF Examined(p).state # "BLOCKED" /\ ShouldBlock(p.tuple, Examined(p))
                  THEN Block(Examined(p)) ELSE Examined(p)
    <3>1. Examined(p).state = "BLOCKED"
      BY <2>2, <2>4, TcpKeepsState DEF Examined
    <3>2. QED BY <2>2, <2>4, <3>1 DEF Verdict
  <2>5. QED BY <2>1, <2>3, <2>4, OwnRecordOnly
<1>2. CASE \E idle \in IdleSets : Sweep(idle)
  BY <1>2, CleanupInv DEF Sweep, IInv, Handled
<1>3. CASE \E r \in RuleSets : EditRules(r)
  BY <1>3 DEF EditRules, Handled
<1>4. QED BY <1>1, <1>2, <1>3 DEF Next

LEMMA ClassificationHoldsStep ==
  ASSUME IInv, Next, NEW k \in Tracked \cap Tracked'
  PROVE  ClassificationHolds(k)
<1> SUFFICES ASSUME connections[k].state = "CLASSIFIED",
                    ~(Handled' /\ Closes(handled'.packet, k))
             PROVE  /\ connections'[k].state \in {"CLASSIFIED", "BLOCKED"}
                    /\ connections'[k].app_type = connections[k].app_type
                    /\ connections'[k].sni = connections[k].sni
  BY DEF ClassificationHolds
<1>1. CASE \E p \in Packets : Process(p)
  <2>1. PICK p \in Packets : Process(p) BY <1>1
  <2>2. handled' = [packet |-> p, verdict |-> Verdict(p)] /\ Handled'
    BY <2>1, FastPathAssumption DEF Process, Handled, Verdict
  <2>3. CASE ~Concerns(p, k) /\ connections'[k] = connections[k]
    BY <2>3
  <2>4. CASE /\ Key(p.tuple) = k /\ Found(p.tuple) = connections[k]
             /\ Concerns(p, k) /\ connections[k] \in Connection
             /\ connections'[k] =
                  IF Examined(p).state # "BLOCKED" /\ ShouldBlock(p.tuple, Examined(p))
                  THEN Block(Examined(p)) ELSE Examined(p)
    <3>1. /\ TcpAdvanced(connections[k], p).state = "CLASSIFIED"
          /\ Examined(p) = TcpAdvanced(connections[k], p)
      BY <2>2, <2>4, TcpKeepsState DEF Examined
    <3>2. /\ Examined(p) \in Connection /\ Examined(p).state = "CLASSIFIED"
          /\ Examined(p).app_type = connections[k].app_type
          /\ Examined(p).sni = connections[k].sni
      BY <2>4, <3>1, TcpType
    <3>3. QED BY <2>4, <3>2 DEF Block, Connection
  <2>5. QED BY <2>1, <2>3, <2>4, OwnRecordOnly
<1>2. CASE \E idle \in IdleSets : Sweep(idle)
  BY <1>2, CleanupInv DEF Sweep, IInv
<1>3. CASE \E r \in RuleSets : EditRules(r)
  BY <1>3 DEF EditRules
<1>4. QED BY <1>1, <1>2, <1>3 DEF Next

LEMMA RecentStaysStep ==
  ASSUME IInv, Next
  PROVE  RecentStays
<1> SUFFICES ASSUME MaxConnections > 1, Handled, Handled'
             PROVE  Key(handled.packet.tuple) \in Tracked'
  BY DEF RecentStays
<1> DEFINE k == Key(handled.packet.tuple)
<1>1. k \in Tracked /\ \A j \in Tracked : <<k, j>> \notin older
  BY DEF IInv, HandledIsNewest
<1>2. PICK p \in Packets : Process(p)
  BY DEF Next, Sweep, EditRules, Handled
<1>3. p.tuple \in Tuples /\ TrackerInv
  BY FastPathAssumption DEF IInv
<1>4. Tracked' = (Tracked \ Victims(p.tuple)) \cup {Key(p.tuple)}
  BY <1>2, StoreDomain DEF Process
<1>5. k \notin Victims(p.tuple)
  <2>1. SUFFICES ASSUME k \in Victims(p.tuple) PROVE FALSE
    OBVIOUS
  <2>2. Cardinality(Tracked) = MaxConnections /\ IsOldest(k)
    BY <1>3, <2>1, VictimFacts
  <2>3. \A j \in Tracked : j = k
    BY <1>1, <1>3, <2>2 DEF IsOldest, TrackerInv, SeenInTotalOrder
  <2>4. Tracked = {k}
    BY <1>1, <2>3
  <2>5. Cardinality(Tracked) = 1
    BY <2>4, FS_Singleton
  <2>6. QED BY <2>2, <2>5, TrackerAssumption
<1>6. QED BY <1>1, <1>4, <1>5

(* A blocked flow drops every packet of both directions until TCP closes   *)
(* it or its record leaves the table.                                      *)
THEOREM BlocksHold == Spec => BlockHoldsUntilClosed
<1>1. IInv /\ [Next]_vars => [\A k \in Tracked \cap Tracked' : BlockHolds(k)]_vars
  BY BlockHoldsStep
<1>2. QED BY <1>1, IInvInvariant, PTL DEF Spec, BlockHoldsUntilClosed

(* classify_connection is sticky until TCP closes the flow.                *)
THEOREM ClassificationsHold == Spec => ClassificationHoldsUntilClosed
<1>1. IInv /\ [Next]_vars => [\A k \in Tracked \cap Tracked' : ClassificationHolds(k)]_vars
  BY ClassificationHoldsStep
<1>2. QED BY <1>1, IInvInvariant, PTL DEF Spec, ClassificationHoldsUntilClosed

(* _evict_oldest never takes the flow of the packet before.                *)
THEOREM RecentFlowsStay == Spec => EvictionSparesRecent
<1>1. IInv /\ [Next]_vars => [RecentStays]_vars
  BY RecentStaysStep
<1>2. QED BY <1>1, IInvInvariant, PTL DEF Spec, EvictionSparesRecent
=============================================================================

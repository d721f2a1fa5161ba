------------------------- MODULE ConnectionTracker -------------------------
(***************************************************************************)
(* dpi/connection_tracker.py: the flow table of one fast path.  Both       *)
(* directions of a conversation share one record, kept under whichever     *)
(* five-tuple was seen first; a full table gives up its least recently     *)
(* seen record; a sweep removes closed and idle records.                   *)
(*                                                                         *)
(* Clock readings matter only by their order, so last_seen is kept as the  *)
(* relation "was seen before".  Packet and byte counters are left out.     *)
(***************************************************************************)
EXTENDS Naturals, FiniteSets

CONSTANTS Tuples,          \* five-tuples that occur on the wire
          Apps,            \* AppType
          Names,           \* host names, NoName among them
          NoName,          \* the empty host name
          MaxConnections   \* max_connections of the table

Reverse(t) == [src_ip |-> t.dst_ip, dst_ip |-> t.src_ip,
               src_port |-> t.dst_port, dst_port |-> t.src_port,
               protocol |-> t.protocol]

ASSUME TrackerAssumption ==
  /\ IsFiniteSet(Tuples)
  /\ \A t \in Tuples : /\ DOMAIN t = {"src_ip", "dst_ip", "src_port",
                                      "dst_port", "protocol"}
                       /\ Reverse(t) \in Tuples
                       /\ Reverse(Reverse(t)) = t
  /\ "UNKNOWN" \in Apps
  /\ NoName \in Names
  /\ MaxConnections \in Nat \ {0}

VARIABLES connections, \* the table: five-tuple -> Connection
          older        \* <<a, b>>: a's last_seen is before b's

trackerVars == <<connections, older>>

State == {"NEW", "ESTABLISHED", "CLASSIFIED", "BLOCKED", "CLOSED"}

Connection == [state : State, app_type : Apps, sni : Names,
               syn_seen : BOOLEAN, syn_ack_seen : BOOLEAN, fin_seen : BOOLEAN,
               action : {"FORWARD", "DROP"}]

Fresh == [state |-> "NEW", app_type |-> "UNKNOWN", sni |-> NoName,
          syn_seen |-> FALSE, syn_ack_seen |-> FALSE, fin_seen |-> FALSE,
          action |-> "FORWARD"]

Tracked == DOMAIN connections
-----------------------------------------------------------------------------
(* The key get_or_create_connection finds or files the packet's flow under *)
KeyExactOnly(t) == t                                            \* mutant

Key(t) == IF t \notin Tracked /\ Reverse(t) \in Tracked THEN Reverse(t) ELSE t

IsOldest(k) == k \in Tracked /\ ~ \E j \in Tracked : <<j, k>> \in older

(* What get_or_create_connection may evict before it adds t: the least     *)
(* recently seen record, and only if t is new and the table full.          *)
Victims(t) ==
  IF Key(t) \in Tracked \/ Cardinality(Tracked) < MaxConnections
  THEN {} ELSE {k \in Tracked : IsOldest(k)}

(* The record a packet works on: the one tracked, or a fresh one.          *)
FoundRecycled(t) ==                                             \* mutant
  IF Key(t) \in Tracked THEN connections[Key(t)]
  ELSE IF Victims(t) = {} THEN Fresh ELSE connections[CHOOSE k \in Victims(t) : TRUE]

Found(t) == IF Key(t) \in Tracked THEN connections[Key(t)] ELSE Fresh

(* last_seen of record k becomes the latest of all, k's when it is new.    *)
SeenFirstStays(k, gone) ==                                      \* mutant
  IF k \in Tracked THEN older
  ELSE {r \in older : r[1] \notin gone} \cup {<<j, k>> : j \in Tracked \ gone}

Seen(k, gone) ==
  {r \in older : r[1] \notin gone \cup {k} /\ r[2] \notin gone \cup {k}}
    \cup {<<j, k>> : j \in Tracked \ (gone \cup {k})}

(* The packet leaves the record conn in the table, as the most recent one. *)
Store(t, conn) ==
  LET k == Key(t)
  IN /\ connections' = [j \in (Tracked \ Victims(t)) \cup {k} |->
                          IF j = k THEN conn ELSE connections[j]]
     /\ older' = Seen(k, Victims(t))

Classify(conn, app, sni) ==
  IF conn.state = "CLASSIFIED" THEN conn
  ELSE [conn EXCEPT !.app_type = app, !.sni = sni, !.state = "CLASSIFIED"]

Block(conn) == [conn EXCEPT !.state = "BLOCKED", !.action = "DROP"]

(* cleanup_stale: the records in idle are past the timeout (with a record  *)
(* every one seen before it is), those that are CLOSED go whatever their   *)
(* age.                                                                    *)
SweepIdleOnly(idle) ==                                          \* mutant
  /\ connections' = [k \in Tracked \ idle |-> connections[k]]
  /\ older' = {r \in older : r[1] \notin idle /\ r[2] \notin idle}

CleanupStale(idle) ==
  LET gone == idle \cup {k \in Tracked : connections[k].state = "CLOSED"}
  IN /\ connections' = [k \in Tracked \ gone |-> connections[k]]
     /\ older' = {r \in older : r[1] \notin gone /\ r[2] \notin gone}

IdleSets == {S \in SUBSET Tracked :
               \A r \in older : r[2] \in S => r[1] \in S}
-----------------------------------------------------------------------------
TrackerInit == connections = << >> /\ older = {}

TrackerTypeOK ==
  /\ Tracked \subseteq Tuples
  /\ connections \in [Tracked -> Connection]
  /\ Cardinality(Tracked) <= MaxConnections
  /\ older \subseteq Tracked \X Tracked

(* The two directions of a conversation never have a record each.          *)
OneRecordPerConversation ==
  \A t \in Tracked : Reverse(t) \in Tracked => Reverse(t) = t

(* Any two records are ordered by the packets that last touched them: the  *)
(* scan for the least recently seen one has exactly one answer.            *)
SeenInTotalOrder ==
  /\ \A k \in Tracked : <<k, k>> \notin older
  /\ \A j, k \in Tracked : j # k => (<<j, k>> \in older <=> <<k, j>> \notin older)
  /\ \A i, j, k \in Tracked :
       <<i, j>> \in older /\ <<j, k>> \in older => <<i, k>> \in older
=============================================================================

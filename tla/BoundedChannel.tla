--------------------------- MODULE BoundedChannel ---------------------------
(***************************************************************************)
(* What a ThreadSafeQueue promises its users, without locks, condition     *)
(* variables or waiting threads: a log of the items it accepted, read in   *)
(* order by the consumers together, at most Capacity items ahead of them,  *)
(* and closed for good by shutdown while the backlog stays readable.       *)
(***************************************************************************)
EXTENDS Naturals, Sequences

CONSTANTS Item,      \* what can be sent
          Capacity   \* how far the log may run ahead of its readers

VARIABLES accepted,  \* every item taken in, in order
          delivered, \* every item handed out, in order
          closed     \* no item is accepted any more

chanVars == <<accepted, delivered, closed>>

Init ==
  /\ accepted = << >>
  /\ delivered = << >>
  /\ closed = FALSE

Send(item) ==
  /\ ~closed
  /\ Len(accepted) - Len(delivered) < Capacity
  /\ accepted' = Append(accepted, item)
  /\ UNCHANGED <<delivered, closed>>

\* The next undelivered item, whether or not the channel is closed.
Receive ==
  /\ Len(delivered) < Len(accepted)
  /\ delivered' = Append(delivered, accepted[Len(delivered) + 1])
  /\ UNCHANGED <<accepted, closed>>

Close ==
  /\ closed' = TRUE
  /\ UNCHANGED <<accepted, delivered>>

Next == (\E item \in Item : Send(item)) \/ Receive \/ Close

Spec == Init /\ [][Next]_chanVars
=============================================================================

------------------------------- MODULE Lines -------------------------------
(***************************************************************************)
(* A pipeline seen as a line of places: the first is where packets end, the*)
(* last where they enter, and each place holds a sequence of packets, the  *)
(* oldest first.                                                           *)
(***************************************************************************)
EXTENDS Naturals, Sequences

\* What a thread holds, as a place: 0 stands for nothing.
Holding(i) == IF i = 0 THEN << >> ELSE <<i>>

Ahead(p, j, q, k) == p < q \/ (p = q /\ j < k)

(* Along the line, the packets of a set lie in ascending order.            *)
InOrder(line, S) ==
  \A p, q \in DOMAIN line :
    \A j \in 1..Len(line[p]), k \in 1..Len(line[q]) :
      /\ Ahead(p, j, q, k)
      /\ line[p][j] \in S /\ line[q][k] \in S
      => line[p][j] < line[q][k]
=============================================================================

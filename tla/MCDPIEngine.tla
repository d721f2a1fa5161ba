---------------------------- MODULE MCDPIEngine ----------------------------
(***************************************************************************)
(* Small engines: two conversations interleaved in the capture, with a     *)
(* packet in between that is neither TCP nor UDP.                          *)
(***************************************************************************)
EXTENDS DPIEngine

CONSTANTS a, b

MCFlowOf == [i \in Packets |-> IF i = 2 THEN NoFlow ELSE IF i % 2 = 1 THEN a ELSE b]
MCRoute == [f \in Flows |-> IF f = a THEN NumLBs + 1 ELSE NumLBs + NumFPs]
=============================================================================

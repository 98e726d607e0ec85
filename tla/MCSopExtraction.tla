-------------------------- MODULE MCSopExtraction --------------------------
(* A finite instance of SopExtraction for TLC: three turns of one session,   *)
(* of which the second has no tool call id and the others show different     *)
(* procedures.                                                               *)
EXTENDS SopExtraction

CONSTANTS a, k1, k2

Sessions == [t \in Turn |-> a]
Calls == [t \in Turn |-> IF t = 1 THEN 2 ELSE 1]
Kinds == [t \in Turn |-> IF t = 3 THEN k2 ELSE k1]
=============================================================================

------------------------- MODULE MCDistributedMutex -------------------------
(* Finite instances of DistributedMutex for TLC: the last client is late. *)
EXTENDS DistributedMutex

CONSTANTS c1, c2, c3

Delays == [c \in Client |-> IF c = c3 THEN 3 ELSE 1]
=============================================================================

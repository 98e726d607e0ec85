--------------------------- MODULE MCCuratorCycle ---------------------------
(* A finite instance of CuratorCycle for TLC: two SOPs of one name in one    *)
(* database, and a database without any.                                     *)
EXTENDS CuratorCycle

CONSTANT n1

Homes == [r \in Sop |-> 1]
Titles == [r \in Sop |-> n1]
=============================================================================

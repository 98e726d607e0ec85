------------------------------ MODULE MCGateway ------------------------------
(***************************************************************************)
(* Small instances of Gateway, all of one session.  With one message the   *)
(* deliveries are copies of it; with two, d3 carries the second.           *)
(***************************************************************************)
EXTENDS Gateway, TLC

CONSTANTS s1, m1, m2, d3

MCSessionOf == [m \in Message |-> s1]
MCMessageOf == [d \in Delivery |-> IF d = d3 /\ m2 \in Message THEN m2 ELSE m1]

\* Workers are alike, and so are the copies of one message.
CopySymmetry == Permutations(Worker) \cup Permutations(Delivery)
=============================================================================

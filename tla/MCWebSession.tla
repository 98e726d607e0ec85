---------------------------- MODULE MCWebSession ----------------------------
(* A finite instance of WebSession for TLC: two messages and two steers, of  *)
(* which the long one drives the short one out of the buffer, with all that  *)
(* the client and the clock may do.                                          *)
EXTENDS WebSession

CONSTANTS m1, m2, s1, s2

Sizes == [s \in Steer |-> IF s = s2 THEN 3 ELSE 1]
=============================================================================

-------------------------- MODULE MCSessionHistory --------------------------
(* Finite instances of SessionHistory for TLC. *)
EXTENDS SessionHistory
=============================================================================

----------------------------- MODULE MessageOnce -----------------------------
(***************************************************************************)
(* What the gateway promises of each message, whatever the workers, the    *)
(* copies and the forwarding: it is taken up at most once, and once it is  *)
(* over it stays over.  A run ends by finishing or because its process     *)
(* ended.  How many workers there are, who owns which session and how      *)
(* often the message was delivered cannot be seen here.                    *)
(***************************************************************************)
CONSTANT Message

VARIABLE phase   \* [Message -> how far its handling has come]

Init == phase = [m \in Message |-> "waiting"]

Take(m) ==
    /\ phase[m] = "waiting"
    /\ phase' = [phase EXCEPT ![m] = "taken"]

Finish(m) ==
    /\ phase[m] = "taken"
    /\ phase' = [phase EXCEPT ![m] = "done"]

\* A process may end in the middle of several runs.
Abort(ms) ==
    /\ \A m \in ms : phase[m] = "taken"
    /\ phase' = [m \in Message |-> IF m \in ms THEN "aborted" ELSE phase[m]]

Next ==
    \/ \E m \in Message : Take(m) \/ Finish(m)
    \/ \E ms \in SUBSET Message : Abort(ms)

Spec == Init /\ [][Next]_phase
=============================================================================

-------------------------- MODULE CriticalSection --------------------------
(***************************************************************************)
(* What a mutex promises its clients: at most one of them is inside, and   *)
(* whoever is inside may leave, or be put out, at any time.                *)
(***************************************************************************)
CONSTANT Client

VARIABLE inside  \* the clients that may work

Init == inside = {}

Enter(c) ==
    /\ inside = {}
    /\ inside' = {c}

Leave(c) ==
    /\ c \in inside
    /\ inside' = inside \ {c}

Next == \E c \in Client : Enter(c) \/ Leave(c)

Spec == Init /\ [][Next]_inside
=============================================================================

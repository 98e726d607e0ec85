-------------------------- MODULE RotatingSessions --------------------------
(***************************************************************************)
(* What a session key promises its user: at any time one session of it is  *)
(* current, and sessions that were left never come back.  The messages a   *)
(* session has accepted are handled one at a time, in order and at most    *)
(* once; only a session that was left may drop what waits in it.           *)
(***************************************************************************)
EXTENDS Sequences

CONSTANTS Message, Session, NoSession

VARIABLES
    current,  \* the current session
    opened,   \* sessions there have been
    waiting,  \* [Session -> accepted messages not yet over, in order]
    over      \* messages whose handling has ended

vars == <<current, opened, waiting, over>>

Pending(s) == {waiting[s][i] : i \in DOMAIN waiting[s]}

Init ==
    /\ current = NoSession
    /\ opened = {}
    /\ waiting = [s \in Session |-> <<>>]
    /\ over = {}

Open(s) ==
    /\ s \notin opened
    /\ opened' = opened \cup {s}
    /\ current' = s
    /\ UNCHANGED <<waiting, over>>

Accept(s, m) ==
    /\ s \in opened
    /\ m \notin over
    /\ \A t \in Session : m \notin Pending(t)
    /\ waiting' = [waiting EXCEPT ![s] = Append(@, m)]
    /\ UNCHANGED <<current, opened, over>>

Conclude(s) ==
    /\ waiting[s] # <<>>
    /\ over' = over \cup {Head(waiting[s])}
    /\ waiting' = [waiting EXCEPT ![s] = Tail(@)]
    /\ UNCHANGED <<current, opened>>

Drop(s) ==
    /\ s # current
    /\ over' = over \cup Pending(s)
    /\ waiting' = [waiting EXCEPT ![s] = <<>>]
    /\ UNCHANGED <<current, opened>>

Next ==
    \E s \in Session :
        Open(s) \/ Conclude(s) \/ Drop(s) \/ \E m \in Message : Accept(s, m)

Spec == Init /\ [][Next]_vars
=============================================================================

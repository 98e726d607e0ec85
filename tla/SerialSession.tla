--------------------------- MODULE SerialSession ---------------------------
(***************************************************************************)
(* What a conversation promises the channel that feeds it: messages are    *)
(* accepted one by one, handled one at a time in the order in which they   *)
(* were accepted, and each is handled at most once.                        *)
(***************************************************************************)
EXTENDS Sequences

CONSTANT Message

VARIABLES
    waiting,  \* accepted messages not yet over; the first is being handled
    over      \* messages whose handling has ended

vars == <<waiting, over>>

Init == waiting = <<>> /\ over = {}

Pending == {waiting[i] : i \in DOMAIN waiting}

Accept(m) ==
    /\ m \notin Pending \cup over
    /\ waiting' = Append(waiting, m)
    /\ UNCHANGED over

Conclude ==
    /\ waiting # <<>>
    /\ over' = over \cup {Head(waiting)}
    /\ waiting' = Tail(waiting)

Next == Conclude \/ \E m \in Message : Accept(m)

Spec == Init /\ [][Next]_vars
=============================================================================

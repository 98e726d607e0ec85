----------------------------- MODULE WebSockets -----------------------------
(***************************************************************************)
(* The websockets of one user in one worker (channels/web/websocket.py):   *)
(* hello, identify, the limit of connections, the registry, heartbeat and  *)
(* dispatch.  Several sockets connect, fall silent and close at the same   *)
(* time; what their messages do is in WebSession and ToolTurn.             *)
(*                                                                         *)
(* A socket is counted from connect() on, but the block that takes it out  *)
(* of the registry again only begins after two more awaits and a spawn: a  *)
(* client that leaves in between is counted for ever (`Leaked').           *)
(***************************************************************************)
EXTENDS Naturals, FiniteSets

CONSTANTS Sockets, MaxConnections

SocketAssumption == IsFiniteSet(Sockets) /\ MaxConnections \in Nat \ {0}

VARIABLES
    place,      \* where the endpoint is with the socket
    client,     \* "open", "silent" (no frame, no close), "closed"
    fresh,      \* the last pong is recent
    beating,    \* sockets with a heartbeat task
    registry    \* ConnectionRegistry of the user

vars == <<place, client, fresh, beating, registry>>

Places == {"none", "hello", "ready", "serving", "leaving", "ended"}

Init ==
    /\ place = [s \in Sockets |-> "none"] /\ client = [s \in Sockets |-> "open"]
    /\ fresh = [s \in Sockets |-> TRUE]
    /\ beating = {} /\ registry = {}

Go(s, p) == place' = [place EXCEPT ![s] = p]

\* Frames and hello; a new ConnectionState counts as just answered.
Accept(s) ==
    /\ place[s] = "none"
    /\ Go(s, "hello")
    /\ UNCHANGED <<client, fresh, beating, registry>>

\* The first message is not identify, is late, or its token is invalid.
Reject(s) ==
    /\ place[s] = "hello"
    /\ Go(s, "ended") /\ client' = [client EXCEPT ![s] = "closed"]
    /\ UNCHANGED <<fresh, beating, registry>>

\* Mutant: the limit is off by one.
IdentifyOneMore(s) ==
    /\ place[s] = "hello" /\ client[s] = "open"
    /\ IF Cardinality(registry) > MaxConnections
       THEN Go(s, "ended") /\ client' = [client EXCEPT ![s] = "closed"] /\ registry' = registry
       ELSE Go(s, "ready") /\ registry' = registry \cup {s} /\ client' = client
    /\ UNCHANGED <<fresh, beating>>

\* identify with a valid token: counted and registered without an await.
Identify(s) ==
    /\ place[s] = "hello" /\ client[s] = "open"
    /\ IF Cardinality(registry) >= MaxConnections
       THEN Go(s, "ended") /\ client' = [client EXCEPT ![s] = "closed"] /\ registry' = registry
       ELSE Go(s, "ready") /\ registry' = registry \cup {s} /\ client' = client
    /\ UNCHANGED <<fresh, beating>>

\* ready is sent and the affinity claimed, which may fail; then the heartbeat
\* is spawned and the dispatch loop begins.
Serve(s) ==
    /\ place[s] = "ready" /\ client[s] # "closed"
    /\ Go(s, "serving") /\ beating' = beating \cup {s}
    /\ UNCHANGED <<client, fresh, registry>>

\* ready cannot be sent: the endpoint raises before its try block.
ServeFails(s) ==
    /\ place[s] = "ready" /\ client[s] = "closed"
    /\ Go(s, "ended")
    /\ UNCHANGED <<client, fresh, beating, registry>>

\* The client: it leaves, or it is only cut off; a client that is there
\* answers pings.
Leave(s) ==
    /\ client[s] # "closed" /\ place[s] \notin {"none", "ended"}
    /\ client' = [client EXCEPT ![s] = "closed"]
    /\ UNCHANGED <<place, fresh, beating, registry>>

FallSilent(s) ==
    /\ client[s] = "open" /\ place[s] \notin {"none", "ended"}
    /\ client' = [client EXCEPT ![s] = "silent"]
    /\ UNCHANGED <<place, fresh, beating, registry>>

Pong(s) ==
    /\ client[s] = "open" /\ place[s] = "serving" /\ ~fresh[s]
    /\ fresh' = [fresh EXCEPT ![s] = TRUE]
    /\ UNCHANGED <<place, client, beating, registry>>

\* pong_timeout + heartbeat_interval pass since the last pong.
PongDue(s) ==
    /\ place[s] \in {"ready", "serving"} /\ fresh[s]
    /\ fresh' = [fresh EXCEPT ![s] = FALSE]
    /\ UNCHANGED <<place, client, beating, registry>>

\* Mutant: the heartbeat gives up without closing the socket.
BeatQuiet(s) ==
    /\ s \in beating /\ (client[s] = "closed" \/ ~fresh[s])
    /\ beating' = beating \ {s}
    /\ client' = client
    /\ UNCHANGED <<place, fresh, registry>>

\* The heartbeat ends when its ping cannot be sent, or closes the socket when
\* the pong is overdue.
Beat(s) ==
    /\ s \in beating /\ (client[s] = "closed" \/ ~fresh[s])
    /\ beating' = beating \ {s}
    /\ client' = [client EXCEPT ![s] = "closed"]
    /\ UNCHANGED <<place, fresh, registry>>

\* The dispatch loop ends with the socket; its heartbeat is cancelled first.
Depart(s) ==
    /\ place[s] = "serving" /\ client[s] = "closed"
    /\ Go(s, "leaving") /\ beating' = beating \ {s}
    /\ UNCHANGED <<client, fresh, registry>>

Disconnect(s) ==
    /\ place[s] = "leaving"
    /\ Go(s, "ended") /\ registry' = registry \ {s}
    /\ UNCHANGED <<client, fresh, beating>>

\* What the server and its clock do with a socket.
Endpoint(s) ==
    \/ Serve(s) \/ ServeFails(s) \/ PongDue(s) \/ Beat(s) \/ Depart(s) \/ Disconnect(s)

Next == \E s \in Sockets :
    \/ Accept(s) \/ Reject(s) \/ Identify(s) \/ Endpoint(s)
    \/ Leave(s) \/ FallSilent(s) \/ Pong(s)

Spec == Init /\ [][Next]_vars

\* The server goes on and its clock too; nothing is assumed of clients.
FairSpec ==
    /\ Spec
    /\ \A s \in Sockets : WF_vars(Endpoint(s))

-----------------------------------------------------------------------------
(***************************************************************************)
(* Properties                                                              *)
(***************************************************************************)
TypeOK ==
    /\ place \in [Sockets -> Places] /\ client \in [Sockets -> {"open", "silent", "closed"}]
    /\ fresh \in [Sockets -> BOOLEAN]
    /\ beating \subseteq Sockets /\ registry \subseteq Sockets

\* Sockets that no one takes out of the registry any more.
Leaked == {s \in registry : place[s] = "ended"}

\* Never more sockets than max_connections_per_user are served at once, and
\* the registry that the limit counts holds exactly them
\* and the leaked ones (websocket_endpoint).
WithinLimit ==
    LET served == {s \in Sockets : place[s] \in {"ready", "serving", "leaving"}}
    IN  served = registry \ Leaked /\ Cardinality(registry) <= MaxConnections

\* Sockets in the registry whose client, once served, is gone.
Deserted == {s \in registry : place[s] \in {"serving", "leaving"} /\ client[s] # "open"}

\* The place of a client that was served and is gone, with or without a close
\* frame, comes free (_heartbeat_loop and the finally of the endpoint).
PlaceComesFree == Deserted # {} ~> Deserted = {}

\* The limit on the sockets of a user counts what is served
\* (websocket_endpoint, ConnectionRegistry).
SocketsAreCounted ==
    /\ TypeOK /\ WithinLimit
=============================================================================

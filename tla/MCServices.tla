----------------------------- MODULE MCServices -----------------------------
(***************************************************************************)
(* Small machines in one run of TLC: a web session (without /stop and the  *)
(* idle exit) and four others.  They share no state: `part' says which of  *)
(* them a behaviour is about, and the others stay in their initial states, *)
(* so the run explores the sum of their state spaces.                      *)
(***************************************************************************)
EXTENDS WebSession, TLC

CONSTANTS
    \* ModelCall: p1 declares a model that takes images and one that does not,
    \* p2 takes models by its prefix, nobody claims the stray model.
    p1, p2, listed, blind, prefixed, stray,
    Model, Provider, Nobody, UnknownPrefix, DefaultProvider, Client, Timers,
    MaxTurns, RetryLimit, MaxSent, MaxFaults,
    \* WorkerLife, WebSockets
    Tasks, Events, Sockets, MaxConnections,
    \* McpServers: two servers that may list a tool of the same name.
    first, second, read, find, Server, Tool, Task, None, MaxSessions, MaxDeaths, MaxCommands,
    \* WebSession
    m1, m2, m3

InOrder == <<p1, p2>>
Declared == [p \in Provider |-> IF p = p1 THEN {listed, blind} ELSE {}]
Seeing == [p \in Provider |-> IF p = p1 THEN {listed} ELSE {}]
ByPrefix == [p \in Provider |-> IF p = p2 THEN {prefixed, blind} ELSE {}]
BySegment == [m \in Model |-> IF m = prefixed THEN p2 ELSE Nobody]
Sizes == [s \in Steer |-> 1]
Lists == [s \in Server |-> IF s = first THEN {read, find} ELSE {read}]

VARIABLES
    part,
    request, pc, turns, retries, upstream, task, idle, late, aborted, text, calls, sent,
    shown, kept, told, faults,
    phase, tasks, closed, found, report, grace, listing, feishu, stores, events,
    place, peer, fresh, beating, registry,
    status, adapters, registered, attached, owner, sessions, dead, lock, restart, target,
    calling, ready, torn, reported, commands

modelVars ==
    <<request, pc, turns, retries, upstream, task, idle, late, aborted, text, calls, sent,
      shown, kept, told, faults>>
lifeVars == <<phase, tasks, closed, found, report, grace, listing, feishu, stores, events>>
socketVars == <<place, peer, fresh, beating, registry>>
mcpVars ==
    <<status, adapters, registered, attached, owner, sessions, dead, lock, restart, target,
      calling, ready, torn, reported, commands>>
allVars == <<part, modelVars, lifeVars, socketVars, mcpVars, vars>>

M == INSTANCE ModelCall
       WITH Providers <- InOrder, Declares <- Declared, Sees <- Seeing, Prefixed <- ByPrefix,
            FirstSegment <- BySegment, MaxIterations <- MaxTurns,
            iteration <- turns
L == INSTANCE WorkerLife WITH listed <- listing, drained <- found
S == INSTANCE WebSockets WITH client <- peer
T == INSTANCE McpServers WITH Offers <- Lists, stage <- restart

ASSUME ServicesAssumption ==
    /\ M!CallAssumption /\ L!LifeAssumption /\ S!SocketAssumption /\ T!McpAssumption

ServicesInit ==
    /\ part \in {"session", "model", "life", "sockets", "mcp"}
    /\ M!Init /\ L!Init /\ S!Init /\ T!Init /\ Init
    /\ part # "model" => request = [model |-> listed, attached |-> FALSE, images |-> FALSE]

\* Only the machine of this part moves.
Session_ == part = "session" /\ UNCHANGED <<part, modelVars, lifeVars, socketVars, mcpVars>>
Model_ == part = "model" /\ UNCHANGED <<part, vars, lifeVars, socketVars, mcpVars>>
Life_ == part = "life" /\ UNCHANGED <<part, vars, modelVars, socketVars, mcpVars>>
Sockets_ == part = "sockets" /\ UNCHANGED <<part, vars, modelVars, lifeVars, mcpVars>>
Mcp_ == part = "mcp" /\ UNCHANGED <<part, vars, modelVars, lifeVars, socketVars>>

ServicesNext ==
    \/ Session_ /\ Next
    \/ Model_ /\ M!Next
    \/ Life_ /\ L!Next
    \/ Sockets_ /\ S!Next
    \/ Mcp_ /\ T!Next

\* The fairness of each machine while it is the one that moves.
ServicesSpec ==
    /\ ServicesInit /\ [][ServicesNext]_allVars
    /\ WF_vars(Session_ /\ Consumer) /\ WF_vars(Session_ /\ Handler)
    /\ WF_modelVars(Model_ /\ M!Run) /\ WF_modelVars(Model_ /\ M!StreamResumes)
    /\ WF_modelVars(Model_ /\ M!DeadlinePasses)
    /\ WF_lifeVars(Life_ /\ L!ShutdownStep) /\ WF_lifeVars(Life_ /\ L!GracePasses)
    /\ \A s \in Sockets : WF_socketVars(Sockets_ /\ S!Endpoint(s))
    /\ \A s \in Server : WF_mcpVars(Mcp_ /\ T!Step(s))
    /\ \A p \in Task : WF_mcpVars(Mcp_ /\ T!TaskStep(p))

-----------------------------------------------------------------------------
\* What a run shows, keeps and tells of its end agree (run_agent_stream).
RunsTellTheTruth == part = "model" => M!RunsTellTheTruth
\* A silent provider cannot hold a run (iterate_with_deadline).
RunEnds == part = "model" => M!RunEnds
\* The shutdown closes the stores under no task (TaskManager.shutdown).
ShutdownIsClean == part = "life" => L!ShutdownIsClean
\* The shutdown ends although tasks ignore it (TaskManager.shutdown).
ShutdownEnds == part = "life" => L!ShutdownEnds
\* The limit on a user's sockets counts what is served (websocket_endpoint).
SocketsAreCounted == part = "sockets" => S!SocketsAreCounted
\* The place of a client that is gone comes free (_heartbeat_loop).
PlaceComesFree == part = "sockets" => S!PlaceComesFree
\* Statuses, adapters, registry and sessions fit together (MCPClientManager).
ToolsFitServers == part = "mcp" => T!ToolsFitServers
\* A dead server loses its tools (_handle_server_death).
DeadToolsLeave == part = "mcp" => T!DeadToolsLeave
=============================================================================

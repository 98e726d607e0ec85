----------------------------- MODULE McpServers -----------------------------
(***************************************************************************)
(* The MCP servers of one process: the supervisor connects them at start,  *)
(* administrators restart them, tool calls of the runs find them dead.     *)
(* Each server has a lock, but a restart holds it twice: once to remove    *)
(* the old tools, once to connect.  All sessions live in one group of the  *)
(* SDK, in which a tool's remote name may occur once; the manager never    *)
(* takes a session out of the group.                                       *)
(***************************************************************************)
EXTENDS Naturals, FiniteSets

CONSTANTS
    Server,       \* configured servers that are enabled
    Tool,         \* remote names of tools
    Offers,       \* [Server -> tools that it may list, now or after an update]
    Task,         \* concurrent commands and tool calls
    None,         \* no server, no session, no task
    MaxSessions,  \* bound on the connections made to one server
    MaxDeaths,    \* bound on servers' processes that die
    MaxCommands   \* bound on restarts and calls

Session == 1..MaxSessions
Adapter == Server \X Tool \X Session

McpAssumption ==
    /\ Offers \in [Server -> SUBSET Tool]
    /\ None \notin Server \cup Task \cup (Server \X Session)
    /\ Server \cap Task = {}
    /\ MaxSessions \in Nat /\ MaxDeaths \in Nat /\ MaxCommands \in Nat

VARIABLES
    status,      \* [Server -> ServerStatus.status]
    adapters,    \* [Server -> adapters built for it]
    registered,  \* adapters in the agent's tool registry
    attached,    \* the agent factory has handed over its registry
    owner,       \* [Tool -> the session the group dispatches it to]
    sessions,    \* [Server -> number of connections made so far]
    dead,        \* sessions whose process is gone
    lock,        \* [Server -> the task that holds its asyncio.Lock]
    stage,       \* [task -> where it is]; the supervisor's task for a server
                 \* bears the server's name
    target,      \* [task -> its server]
    calling,     \* [task -> the adapter whose call it awaits]
    ready,       \* the ready event
    torn,        \* history: servers connected while they had adapters, or
                 \* whose connection ended with an unexpected exception
    reported,    \* history: sessions that a call found dead
    commands

history == <<torn, reported>>
world == <<owner, sessions, dead>>
tasks == <<stage, target, calling, commands>>
vars  == <<status, adapters, registered, attached, world, lock, tasks, ready, history>>

All == Server \cup Task
Stages == {"idle", "strip", "enter", "connect", "call", "report"}

Init ==
    /\ status = [s \in Server |-> "pending"]
    /\ adapters = [s \in Server |-> {}]
    /\ registered = {}
    /\ attached = FALSE
    /\ owner = [t \in Tool |-> None]
    /\ sessions = [s \in Server |-> 0]
    /\ dead = {}
    /\ lock = [s \in Server |-> None]
    /\ stage = [p \in All |-> IF p \in Server THEN "enter" ELSE "idle"]
    /\ target = [p \in All |-> IF p \in Server THEN p ELSE None]
    /\ calling = [p \in Task |-> None]
    /\ ready = FALSE
    /\ torn = {} /\ reported = {}
    /\ commands = 0

-----------------------------------------------------------------------------

GoTo(p, s) == stage' = [stage EXCEPT ![p] = s] /\ UNCHANGED <<target, calling, commands>>

End(p) ==
    /\ stage' = [stage EXCEPT ![p] = "idle"]
    /\ target' = [target EXCEPT ![p] = None]
    /\ UNCHANGED <<calling, commands>>

Set(s, new) == status' = [status EXCEPT ![s] = new]

\* Mutant: the manager keeps its list of adapters.
StripRegistryOnly(s) ==
    /\ registered' = registered \ adapters[s]
    /\ UNCHANGED adapters

\* The adapters of s leave the registry and the manager.
Strip(s) ==
    /\ registered' = registered \ adapters[s]
    /\ adapters' = [adapters EXCEPT ![s] = {}]

-----------------------------------------------------------------------------
(* _connect_one, called by the supervisor and by restart_server.           *)

Enter(p) ==
    LET s == target[p] IN
    /\ stage[p] = "enter"
    /\ lock[s] = None
    /\ lock' = [lock EXCEPT ![s] = p]
    /\ torn' = IF adapters[s] = {} THEN torn ELSE torn \cup {s}
    /\ GoTo(p, "connect")
    /\ UNCHANGED <<status, adapters, registered, attached, world, ready, reported>>

Leave(p) ==
    /\ lock' = [lock EXCEPT ![target[p]] = None]
    /\ End(p)

\* The group takes a session in unless one of its tools is known already.
Admits(tools) == \A t \in tools : owner[t] = None

Admit(s, tools) ==
    /\ sessions' = [sessions EXCEPT ![s] = @ + 1]
    /\ owner' = [t \in Tool |-> IF t \in tools THEN <<s, sessions[s] + 1>> ELSE owner[t]]

\* The adapters of the tools that the group dispatches to this session.
Build(s) == {<<s, t, sessions'[s]>> : t \in {u \in Tool : owner'[u] = <<s, sessions'[s]>>}}

Connected(p) ==
    LET s == target[p] IN
    /\ stage[p] = "connect"
    /\ sessions[s] < MaxSessions
    /\ \E tools \in SUBSET Offers[s] : Admits(tools) /\ Admit(s, tools)
    /\ adapters' = [adapters EXCEPT ![s] = Build(s)]
    /\ registered' = IF attached THEN registered \cup Build(s) ELSE registered
    /\ Set(s, "connected")
    /\ Leave(p)
    /\ UNCHANGED <<attached, dead, ready, history>>

\* The process starts and lists a tool that the group has already.
Collides(p) ==
    LET s == target[p] IN
    /\ stage[p] = "connect"
    /\ \E tools \in SUBSET Offers[s] : ~Admits(tools)
    /\ Set(s, "failed")
    /\ Leave(p)
    /\ UNCHANGED <<adapters, registered, attached, world, ready, history>>

\* A missing variable, no sandbox, a timeout, a process that does not start.
NotConnected(p) ==
    /\ stage[p] = "connect"
    /\ Set(target[p], "failed")
    /\ Leave(p)
    /\ UNCHANGED <<adapters, registered, attached, world, ready, history>>

\* Any other exception, or the cancellation at shutdown, leaves the status.
Raises(p) ==
    /\ stage[p] = "connect"
    /\ torn' = torn \cup {target[p]}
    /\ Leave(p)
    /\ UNCHANGED <<status, adapters, registered, attached, world, ready, reported>>

\* The supervisor's gather has returned.
Ready ==
    /\ ~ready
    /\ \A s \in Server : stage[s] = "idle"
    /\ ready' = TRUE
    /\ UNCHANGED <<status, adapters, registered, attached, world, lock, tasks, history>>

-----------------------------------------------------------------------------
\* The agent factory binds its registry.
Attach ==
    /\ ~attached
    /\ attached' = TRUE
    /\ registered' = UNION {adapters[s] : s \in Server}
    /\ UNCHANGED <<status, adapters, world, lock, tasks, ready, history>>

Command(p, s, what) ==
    /\ stage[p] = "idle"
    /\ commands < MaxCommands
    /\ commands' = commands + 1
    /\ stage' = [stage EXCEPT ![p] = what]
    /\ target' = [target EXCEPT ![p] = s]

\* /mcp restart.
Restart(p, s) ==
    /\ Command(p, s, "strip")
    /\ UNCHANGED <<status, adapters, registered, attached, world, lock, calling, ready, history>>

\* Nothing is awaited under the lock here.
StripOld(p) ==
    LET s == target[p] IN
    /\ stage[p] = "strip"
    /\ lock[s] = None
    /\ Strip(s)
    /\ GoTo(p, "enter")
    /\ UNCHANGED <<status, attached, world, lock, ready, history>>

-----------------------------------------------------------------------------
(* Tool calls and the death of a server.                                   *)

Call(p, a) ==
    /\ a \in registered
    /\ Command(p, a[1], "call")
    /\ calling' = [calling EXCEPT ![p] = a]
    /\ UNCHANGED <<status, adapters, registered, attached, world, lock, ready, history>>

Gone(p) == owner[calling[p][2]] \in dead

\* The call's result, its timeout or its abort.
Returns(p) ==
    /\ stage[p] = "call"
    /\ ~Gone(p)
    /\ stage' = [stage EXCEPT ![p] = "idle"]
    /\ target' = [target EXCEPT ![p] = None]
    /\ calling' = [calling EXCEPT ![p] = None]
    /\ UNCHANGED <<status, adapters, registered, attached, world, lock, commands, ready, history>>

\* The tool's error is MCPServerDeadError: a task is spawned that knows the
\* server's name, not its session.
Report(p) ==
    /\ stage[p] = "call"
    /\ Gone(p)
    /\ stage' = [stage EXCEPT ![p] = "report"]
    /\ reported' = reported \cup {<<target[p], calling[p][3]>>}
    /\ UNCHANGED <<status, adapters, registered, attached, world, lock, target, calling,
                   commands, ready, torn>>

\* Mutant: the early return has the wrong status.
HandleDeathInverted(p) ==
    LET s == target[p] IN
    /\ stage[p] = "report"
    /\ lock[s] = None
    /\ IF status[s] = "connected"
       THEN UNCHANGED <<status, adapters, registered>>
       ELSE Strip(s) /\ Set(s, "failed")
    /\ stage' = [stage EXCEPT ![p] = "idle"]
    /\ target' = [target EXCEPT ![p] = None]
    /\ calling' = [calling EXCEPT ![p] = None]
    /\ UNCHANGED <<attached, world, lock, commands, ready, history>>

HandleDeath(p) ==
    LET s == target[p] IN
    /\ stage[p] = "report"
    /\ lock[s] = None
    /\ IF status[s] = "failed"
       THEN UNCHANGED <<status, adapters, registered>>
       ELSE Strip(s) /\ Set(s, "failed")
    /\ stage' = [stage EXCEPT ![p] = "idle"]
    /\ target' = [target EXCEPT ![p] = None]
    /\ calling' = [calling EXCEPT ![p] = None]
    /\ UNCHANGED <<attached, world, lock, commands, ready, history>>

\* A server's process dies.
Dies(s) ==
    /\ Cardinality(dead) < MaxDeaths
    /\ \E n \in 1..sessions[s] :
          /\ <<s, n>> \notin dead
          /\ dead' = dead \cup {<<s, n>>}
    /\ UNCHANGED <<status, adapters, registered, attached, owner, sessions, lock, tasks, ready,
                   history>>

-----------------------------------------------------------------------------
Step(p) ==
    \/ Enter(p) \/ Connected(p) \/ Collides(p) \/ NotConnected(p) \/ Raises(p)

TaskStep(p) ==
    \/ Step(p) \/ StripOld(p) \/ Returns(p) \/ Report(p) \/ HandleDeath(p)

Next ==
    \/ \E s \in Server : Step(s)
    \/ Ready
    \/ Attach
    \/ \E p \in Task : TaskStep(p)
    \/ \E p \in Task, s \in Server : Restart(p, s)
    \/ \E p \in Task, a \in Adapter : Call(p, a)
    \/ \E s \in Server : Dies(s)

Spec == Init /\ [][Next]_vars

\* A connection attempt ends by its timeout, a call by its own, and a lock is
\* granted in turn.
FairSpec ==
    /\ Spec
    /\ \A s \in Server : WF_vars(Step(s))
    /\ \A p \in Task : WF_vars(TaskStep(p))

-----------------------------------------------------------------------------
(* Properties.                                                             *)

TypeOK ==
    /\ status \in [Server -> {"pending", "connected", "failed"}]
    /\ adapters \in [Server -> SUBSET Adapter]
    /\ registered \subseteq Adapter
    /\ attached \in BOOLEAN
    /\ owner \in [Tool -> {None} \cup (Server \X Session)]
    /\ sessions \in [Server -> 0..MaxSessions]
    /\ dead \subseteq Server \X Session
    /\ lock \in [Server -> {None} \cup All]
    /\ stage \in [All -> Stages]
    /\ target \in [All -> {None} \cup Server]
    /\ calling \in [Task -> {None} \cup Adapter]
    /\ ready \in BOOLEAN
    /\ torn \subseteq Server /\ reported \subseteq dead
    /\ commands \in 0..MaxCommands

\* A registered tool is dispatched to the very session its adapter was built
\* for, however servers were restarted and whatever names they share
\* (_build_adapters_for_session, MCPToolAdapter.execute).
CallsReachTheirServer ==
    \A a \in registered : owner[a[2]] = <<a[1], a[3]>>

\* What the agent is offered is what the status says: a failed server has no
\* tools, and all tools of a connected one are registered.  It may fail for a
\* server that was connected while it had adapters, as two restarts at a time
\* do, or whose connection ended with an exception nobody catches.
StatusTellsTheTools ==
    \A s \in Server \ torn :
        /\ adapters[s] # {} => status[s] = "connected"
        /\ attached => {a \in registered : a[1] = s} = adapters[s]

\* Tools of sessions that a call found dead.
DeadTools == {a \in registered : <<a[1], a[3]>> \in reported /\ a[1] \notin torn}
\* A server found dead by a call loses its tools (_handle_server_death).
DeadToolsLeave == DeadTools # {} ~> DeadTools = {}

\* Statuses, adapters, registry and sessions fit together (MCPClientManager).
ToolsFitServers ==
    /\ TypeOK /\ CallsReachTheirServer /\ StatusTellsTheTools
=============================================================================

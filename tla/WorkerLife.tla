----------------------------- MODULE WorkerLife -----------------------------
(***************************************************************************)
(* The life of one worker: the start and the shutdown of the application   *)
(* (app.py) around the registry of its background tasks                    *)
(* (infra/task_manager.py) and its place in the list of workers            *)
(* (gateway/worker_registry.py).                                           *)
(*                                                                         *)
(* The start is a fixed sequence that spawns the standing tasks on its     *)
(* way; an exception anywhere in it ends the process without the           *)
(* shutdown.  The shutdown stops the sources of work, then closes the task *)
(* manager, cancels every running task, waits at most for the grace        *)
(* period, and closes the stores.  A cancelled task may still finish,      *)
(* fail, or ignore the cancellation.                                       *)
(*                                                                         *)
(* Feishu events are handled by coroutines that the task manager does not  *)
(* know: they come from the thread of the Feishu client, or in the task of *)
(* the forward consumer, and spawn a task for the answer.                  *)
(***************************************************************************)
EXTENDS Naturals, Sequences, FiniteSets

CONSTANTS
    Tasks,       \* handles of tasks; that of a forgotten task is used again
    Events       \* Feishu events that arrive

LifeAssumption == IsFiniteSet(Tasks) /\ IsFiniteSet(Events)

VARIABLES
    phase,      \* the step of the start or of the shutdown that comes next
    tasks,      \* the handles: [id -> [kind, state]]
    closed,     \* TaskManager._closed
    drained,    \* the tasks that shutdown has found running
    report,     \* what shutdown reports of them
    grace,      \* the grace period is over
    listed,     \* the worker is a member of pyclaw:workers
    feishu,     \* the Feishu client delivers events
    stores,     \* the stores that are open
    events      \* [Events -> what has become of the event]

vars == <<phase, tasks, closed, drained, report, grace, listed, feishu, stores, events>>

Startup == <<"register", "mcp", "consumer", "feishu start", "serve">>
Shutdown == <<"deregister", "feishu stop", "mcp stop", "close", "wait", "close memory",
              "close redis", "down">>
Standing == [register |-> "heartbeat", mcp |-> "mcp", consumer |-> "consumer"]
Kinds == {"heartbeat", "mcp", "consumer", "work"}
Ended == {"done", "cancelled", "failed"}
Handle == [kind : Kinds, state : {"running", "cancelling"} \cup Ended]
Results == {"completed", "cancelled", "failed", "timed out"}

Position(steps, p) == CHOOSE i \in DOMAIN steps : steps[i] = p
In(steps, p) == \E i \in DOMAIN steps : steps[i] = p
After(steps, p) == steps[Position(steps, p) + 1]

Live(t) == t \in DOMAIN tasks /\ tasks[t].state \notin Ended
Runs(kind) == \E t \in DOMAIN tasks : tasks[t].kind = kind /\ tasks[t].state = "running"

Init ==
    /\ phase = "register" /\ tasks = <<>> /\ closed = FALSE /\ drained = {}
    /\ report = [r \in Results |-> 0] /\ grace = FALSE
    /\ listed = FALSE /\ feishu = FALSE /\ stores = {"memory", "redis"}
    /\ events = [e \in Events |-> "none"]

(***************************************************************************)
(* The task manager                                                        *)
(***************************************************************************)
\* spawn: a new handle, and the bookkeeping of some that have ended is gone.
Spawn(kind) ==
    /\ ~closed
    /\ \E old \in {{}, {t \in DOMAIN tasks : ~Live(t)}} :
         LET kept == DOMAIN tasks \ old
             free == Tasks \ kept
             t == CHOOSE x \in free : TRUE
         IN  /\ free # {}
             /\ tasks' = [x \in kept \cup {t} |->
                            IF x = t THEN [kind |-> kind, state |-> "running"] ELSE tasks[x]]

Become(t, state) == tasks' = [tasks EXCEPT ![t].state = state]

\* cancel, by a command or by its owner: asks the task to end and waits a few
\* seconds for it; a task that has ended or is forgotten is left alone.
Cancel(t) ==
    /\ Live(t) /\ tasks[t].state = "running" /\ tasks[t].kind = "work"
    /\ Become(t, "cancelling")
    /\ UNCHANGED <<phase, closed, drained, report, grace, listed, feishu, stores, events>>

\* _wrap: the coroutine returns, raises or, when it is cancelled, ends so; the
\* standing loops only end when they are cancelled.
TaskEnds(t) ==
    /\ Live(t)
    /\ \/ tasks[t].kind = "work" /\ \E s \in {"done", "failed"} : Become(t, s)
       \/ tasks[t].state = "cancelling" /\ \E s \in Ended : Become(t, s)
    /\ UNCHANGED <<phase, closed, drained, report, grace, listed, feishu, stores, events>>

\* A task spawns another one (an extraction, an archive).
TaskSpawns(t) ==
    /\ Live(t) /\ tasks[t].kind = "work"
    /\ Spawn("work")
    /\ UNCHANGED <<phase, closed, drained, report, grace, listed, feishu, stores, events>>

\* Mutant: tasks can be spawned until the shutdown is over.
CloseLater ==
    /\ phase = "close"
    /\ closed' = closed
    /\ drained' = {t \in DOMAIN tasks : Live(t)}
    /\ tasks' = [t \in DOMAIN tasks |->
                   IF Live(t) THEN [tasks[t] EXCEPT !.state = "cancelling"] ELSE tasks[t]]
    /\ phase' = "wait"
    /\ UNCHANGED <<report, grace, listed, feishu, stores, events>>

\* shutdown, up to its wait: closed first, then whatever runs is cancelled.
Close ==
    /\ phase = "close"
    /\ closed' = TRUE
    /\ drained' = {t \in DOMAIN tasks : Live(t)}
    /\ tasks' = [t \in DOMAIN tasks |->
                   IF Live(t) THEN [tasks[t] EXCEPT !.state = "cancelling"] ELSE tasks[t]]
    /\ phase' = "wait"
    /\ UNCHANGED <<report, grace, listed, feishu, stores, events>>

GracePasses ==
    /\ phase = "wait" /\ ~grace
    /\ grace' = TRUE
    /\ UNCHANGED <<phase, tasks, closed, drained, report, listed, feishu, stores, events>>

Result(t) == CASE tasks[t].state = "done" -> "completed"
               [] tasks[t].state = "cancelled" -> "cancelled"
               [] tasks[t].state = "failed" -> "failed"
               [] OTHER -> "timed out"

\* Mutant: the wait has no limit.
DrainedWithoutLimit ==
    /\ phase = "wait"
    /\ \A t \in drained : ~Live(t)
    /\ report' = [r \in Results |-> Cardinality({t \in drained : Result(t) = r})]
    /\ phase' = "close memory"
    /\ UNCHANGED <<tasks, closed, drained, grace, listed, feishu, stores, events>>

\* The wait is over, and the tasks that shutdown has found are counted.
Drained ==
    /\ phase = "wait"
    /\ grace \/ \A t \in drained : ~Live(t)
    /\ report' = [r \in Results |-> Cardinality({t \in drained : Result(t) = r})]
    /\ phase' = "close memory"
    /\ UNCHANGED <<tasks, closed, drained, grace, listed, feishu, stores, events>>

(***************************************************************************)
(* Start and shutdown of the application                                   *)
(***************************************************************************)
\* One step of the start.
StartStep ==
    /\ In(Startup, phase) /\ phase # "serve"
    /\ IF phase \in DOMAIN Standing THEN Spawn(Standing[phase]) ELSE tasks' = tasks
    /\ listed' = (listed \/ phase = "register")
    /\ feishu' = (feishu \/ phase = "feishu start")
    /\ phase' = After(Startup, phase)
    /\ UNCHANGED <<closed, drained, report, grace, stores, events>>

\* A step of the start raises: nothing of the shutdown is run, the process
\* ends.
StartFails ==
    /\ In(Startup, phase) /\ phase # "serve"
    /\ phase' = "down" /\ tasks' = <<>> /\ feishu' = FALSE
    /\ UNCHANGED <<closed, drained, report, grace, listed, stores, events>>

Stop ==
    /\ phase = "serve"
    /\ phase' = "deregister"
    /\ UNCHANGED <<tasks, closed, drained, report, grace, listed, feishu, stores, events>>

Deregister ==
    /\ phase = "deregister"
    /\ listed' = FALSE
    /\ phase' = After(Shutdown, phase)
    /\ UNCHANGED <<tasks, closed, drained, report, grace, feishu, stores, events>>

FeishuStop ==
    /\ phase = "feishu stop"
    /\ feishu' = FALSE
    /\ phase' = After(Shutdown, phase)
    /\ UNCHANGED <<tasks, closed, drained, report, grace, listed, stores, events>>

\* The supervisor is cancelled before the sessions are closed.
McpStop ==
    /\ phase = "mcp stop"
    /\ tasks' = [t \in DOMAIN tasks |->
                   IF tasks[t].kind = "mcp" /\ Live(t)
                   THEN [tasks[t] EXCEPT !.state = "cancelling"] ELSE tasks[t]]
    /\ phase' = After(Shutdown, phase)
    /\ UNCHANGED <<closed, drained, report, grace, listed, feishu, stores, events>>

CloseStore(store) ==
    /\ phase = (IF store = "memory" THEN "close memory" ELSE "close redis")
    /\ stores' = stores \ {store}
    /\ phase' = After(Shutdown, phase)
    /\ UNCHANGED <<tasks, closed, drained, report, grace, listed, feishu, events>>

\* heartbeat is register: it lists a worker that is not listed (again).
Beat ==
    /\ Runs("heartbeat") /\ phase # "down" /\ ~listed
    /\ listed' = TRUE
    /\ UNCHANGED <<phase, tasks, closed, drained, report, grace, feishu, stores, events>>

(***************************************************************************)
(* Feishu events                                                           *)
(***************************************************************************)
\* An event comes from Feishu, or from another worker over the consumer; the
\* dedup key is taken before anything else.
Arrive(e) ==
    /\ events[e] = "none" /\ phase # "down"
    /\ feishu \/ (Runs("consumer") /\ phase \notin {"register", "mcp", "consumer", "feishu start"})
    /\ events' = [events EXCEPT ![e] = "taken"]
    /\ UNCHANGED <<phase, tasks, closed, drained, report, grace, listed, feishu, stores>>

\* The handler has come to the spawn of the task that answers.
Hand(e) ==
    /\ events[e] = "taken" /\ phase # "down"
    /\ IF closed THEN events' = [events EXCEPT ![e] = "lost"] /\ tasks' = tasks
       ELSE events' = [events EXCEPT ![e] = "handed"] /\ Spawn("work")
    /\ UNCHANGED <<phase, closed, drained, report, grace, listed, feishu, stores>>

\* The steps of the shutdown, one coroutine.
ShutdownStep ==
    \/ Deregister \/ FeishuStop \/ McpStop \/ Close \/ Drained
    \/ \E store \in {"memory", "redis"} : CloseStore(store)

Next ==
    \/ StartStep \/ StartFails \/ Stop \/ ShutdownStep \/ GracePasses \/ Beat
    \/ \E t \in Tasks : Cancel(t) \/ TaskEnds(t) \/ TaskSpawns(t)
    \/ \E e \in Events : Arrive(e) \/ Hand(e)

Spec == Init /\ [][Next]_vars

\* The shutdown is never blocked for ever, and its clock goes on; tasks may be
\* blocked.
FairSpec == Spec /\ WF_vars(ShutdownStep) /\ WF_vars(GracePasses)

-----------------------------------------------------------------------------
(***************************************************************************)
(* Properties                                                              *)
(***************************************************************************)
TypeOK ==
    /\ In(Startup, phase) \/ In(Shutdown, phase)
    /\ DOMAIN tasks \subseteq Tasks /\ \A t \in DOMAIN tasks : tasks[t] \in Handle
    /\ {closed, grace, listed, feishu} \subseteq BOOLEAN /\ drained \subseteq Tasks
    /\ report \in [Results -> 0 .. Cardinality(Tasks)]
    /\ stores \subseteq {"memory", "redis"}
    /\ events \in [Events -> {"none", "taken", "handed", "lost"}]

\* No task of the manager works on a closed store unless shutdown has
\* cancelled it and reported it as timed out: none can be spawned between the
\* list of running tasks and the end (TaskManager.shutdown, Phases 2 to 4).
ClosedStoresAreUnused ==
    stores # {"memory", "redis"} =>
        /\ \A t \in DOMAIN tasks : Live(t) => t \in drained /\ grace
        /\ Cardinality({t \in DOMAIN tasks : Live(t)}) <= report["timed out"]

\* The shutdown comes to its end although tasks ignore their cancellation
\* (the grace period).
ShutdownEnds == phase = "deregister" ~> phase = "down"

\* The shutdown closes the stores under no task of the manager
\* (TaskManager.shutdown, lifespan).
ShutdownIsClean ==
    /\ TypeOK /\ ClosedStoresAreUnused
=============================================================================

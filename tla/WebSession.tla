----------------------------- MODULE WebSession -----------------------------
(***************************************************************************)
(* One conversation of the web channel: the queue of its messages, the     *)
(* consumer task that handles them one by one, the agent run of the        *)
(* message in hand, and what the client may do meanwhile: /stop,           *)
(* chat.abort, /steer, and closing the socket.                             *)
(*                                                                         *)
(* The worker is one asyncio process.  A step is the code between two      *)
(* awaits at which another task, or the client, can step in; stage names   *)
(* the await at which the handler of the message in hand is suspended.     *)
(***************************************************************************)
EXTENDS Integers, Sequences, FiniteSets, Functions

CONSTANTS
    Message,        \* messages of the conversation (chat.send)
    Steer,          \* /steer and /btw commands
    NoMessage,      \* not a message
    Size,           \* [Steer -> length of its text]
    CapCount,       \* CAP_COUNT of enforce_cap
    CapChars,       \* CAP_CHARS of enforce_cap
    MaxIterations,  \* config.max_iterations of a run
    Environment     \* what the client and the clock may do

ASSUME WebSessionAssumption ==
    /\ NoMessage \notin Message
    /\ Size \in [Steer -> Nat]
    /\ CapCount \in Nat \ {0}
    /\ CapChars \in Nat
    /\ MaxIterations \in Nat
    /\ Environment \subseteq {"stop", "abort", "steer", "disconnect", "idle"}

VARIABLES
    queue,       \* the asyncio.Queue of the conversation
    consumer,    \* the consumer task
    current,     \* the message in hand
    stage,       \* where its handler is suspended
    iteration,   \* iterations of the run so far
    rc,          \* the conversation's RunControl
    drained,     \* steers the prompt being built has taken from the buffer
    hooked,      \* SteerHook has the RunControl of the session
    abandoned,   \* messages whose generator was left unfinished, not yet closed
    gone,        \* messages whose socket is closed
    outcome,     \* [Message -> how its handling ended]
    answers,     \* [Message -> terminal events the client has got for it]
    acceptedIn,  \* [Steer -> the message whose run accepted it]
    seenIn,      \* [Steer -> the message whose run sent it to the model]
    interrupted  \* messages in hand when an abort was requested

sessionQueue == <<queue, consumer>>
run     == <<current, stage, iteration, drained, hooked>>
client  == <<gone, outcome, answers>>
steers  == <<acceptedIn, seenIn>>
vars    == <<sessionQueue, run, rc, abandoned, client, steers, interrupted>>

Consumers == {"none", "ready", "waiting", "expiring", "busy"}
Running   == {"setup", "check", "assemble", "stream", "tools", "final"}
Stages    == {"idle", "prepare", "ending"} \cup Running
Results   == {"answered", "error", "aborted", "abandoned"}
Outcomes  == {"unsent", "queued", "lost"} \cup Results

\* is_active
Active == rc.active /\ ~rc.abort

\* The RunControl get_run_control makes when the conversation has none.
NewControl == [active |-> FALSE, abort |-> FALSE, external |-> FALSE,
               pending |-> <<>>]

Init ==
    /\ queue = <<>>
    /\ consumer = "none"
    /\ current = NoMessage
    /\ stage = "idle"
    /\ iteration = 0
    /\ rc = NewControl
    /\ drained = {}
    /\ hooked = FALSE
    /\ abandoned = {}
    /\ gone = {}
    /\ outcome = [m \in Message |-> "unsent"]
    /\ answers = [m \in Message |-> 0]
    /\ acceptedIn = [s \in Steer |-> NoMessage]
    /\ seenIn = [s \in Steer |-> NoMessage]
    /\ interrupted = {}

(***************************************************************************)
(* The queue and its consumer                                              *)
(***************************************************************************)
\* Mutant: a queue that serves the last message first.
EnqueueFront(m) ==
    /\ outcome[m] = "unsent"
    /\ outcome' = [outcome EXCEPT ![m] = "queued"]
    /\ queue' = <<m>> \o queue
    /\ consumer' = IF consumer = "none" THEN "ready" ELSE consumer
    /\ UNCHANGED <<run, rc, abandoned, gone, answers, steers, interrupted>>

\* enqueue: a consumer task is spawned unless one is "running", which one
\* that has timed out and not yet ended still is.
Enqueue(m) ==
    /\ outcome[m] = "unsent"
    /\ outcome' = [outcome EXCEPT ![m] = "queued"]
    /\ queue' = Append(queue, m)
    /\ consumer' = IF consumer = "none" THEN "ready" ELSE consumer
    /\ UNCHANGED <<run, rc, abandoned, gone, answers, steers, interrupted>>

\* q.get() finds the queue empty and suspends.
Wait ==
    /\ consumer = "ready"
    /\ queue = <<>>
    /\ consumer' = "waiting"
    /\ UNCHANGED <<queue, run, rc, abandoned, client, steers, interrupted>>

\* Mutant: the abort event is not cleared between messages.
TakeKeepsAbort ==
    /\ consumer \in {"ready", "waiting"}
    /\ queue # <<>>
    /\ consumer' = "busy"
    /\ queue' = Tail(queue)
    /\ current' = Head(queue)
    /\ stage' = "prepare"
    /\ UNCHANGED <<rc, iteration, drained, hooked, abandoned, client, steers,
                   interrupted>>

\* The consumer has a message: reset_abort_event, then the handler.
Take ==
    /\ consumer \in {"ready", "waiting"}
    /\ queue # <<>>
    /\ consumer' = "busy"
    /\ queue' = Tail(queue)
    /\ current' = Head(queue)
    /\ stage' = "prepare"
    /\ rc' = [rc EXCEPT !.abort = FALSE]
    /\ UNCHANGED <<iteration, drained, hooked, abandoned, client, steers,
                   interrupted>>

\* The timer of wait_for fires and cancels the suspended get(), even when a
\* message has been put since and the task has only not been resumed yet.
Expire ==
    /\ "idle" \in Environment
    /\ consumer = "waiting"
    /\ consumer' = "expiring"
    /\ UNCHANGED <<queue, run, rc, abandoned, client, steers, interrupted>>

\* The task resumes with TimeoutError and removes all it kept, the queue and
\* what was put into it included.
Exit ==
    /\ consumer = "expiring"
    /\ consumer' = "none"
    /\ queue' = <<>>
    /\ outcome' = [m \in Message |->
                     IF m \in Range(queue) THEN "lost" ELSE outcome[m]]
    /\ rc' = NewControl
    /\ UNCHANGED <<run, abandoned, gone, answers, steers, interrupted>>

(***************************************************************************)
(* How a handler ends                                                      *)
(***************************************************************************)
\* The handler returns and the consumer is back in its loop.
Return ==
    /\ current' = NoMessage
    /\ stage' = "idle"
    /\ consumer' = "ready"
    /\ iteration' = 0
    /\ drained' = {}

Record(result) == outcome' = [outcome EXCEPT ![current] = result]

Answer == answers' = [answers EXCEPT ![current] = @ + 1]

\* An event for a closed socket raises out of _run_chat; its generator stays
\* suspended at its yield until the event loop closes it.
Abandon ==
    /\ current \in gone
    /\ Record("abandoned")
    /\ abandoned' = abandoned \cup {current}
    /\ rc' = [rc EXCEPT !.active = FALSE]
    /\ Return
    /\ UNCHANGED <<queue, hooked, gone, answers, steers, interrupted>>

\* The channel sends the event that ends the message.
Report(result) ==
    /\ current \notin gone
    /\ Record(result)
    /\ Answer
    /\ stage' = "ending"
    /\ UNCHANGED <<sessionQueue, current, iteration, drained, hooked, rc, abandoned,
                   gone, steers, interrupted>>

\* Mutant: nobody reports an aborted run.
ReportAbortSilently ==
    /\ rc.abort
    /\ Record("aborted")
    /\ stage' = "ending"
    /\ UNCHANGED <<sessionQueue, current, iteration, drained, hooked, rc, abandoned,
                   gone, answers, steers, interrupted>>

\* /stop has already answered for the aborted run.
SkipReport ==
    /\ rc.external
    /\ rc' = [rc EXCEPT !.external = FALSE]
    /\ Record("aborted")
    /\ stage' = "ending"
    /\ UNCHANGED <<sessionQueue, current, iteration, drained, hooked, abandoned,
                   gone, answers, steers, interrupted>>

ReportAbort ==
    /\ rc.abort
    /\ SkipReport \/ (~rc.external /\ (Report("aborted") \/ Abandon))

ReportError == Report("error") \/ Abandon

\* The generator returns (notify_run_end), then _run_chat.
Close ==
    /\ stage = "ending"
    /\ hooked' = FALSE
    /\ rc' = [rc EXCEPT !.active = FALSE]
    /\ Return
    /\ UNCHANGED <<queue, abandoned, client, steers, interrupted>>

\* The event loop closes an abandoned generator: notify_run_end forgets
\* whatever RunControl the session then has.
CloseAbandoned(m) ==
    /\ m \in abandoned
    /\ abandoned' = abandoned \ {m}
    /\ hooked' = FALSE
    /\ UNCHANGED <<sessionQueue, current, stage, iteration, drained, rc, client,
                   steers, interrupted>>

(***************************************************************************)
(* The handler: _run_chat and the run it drives                            *)
(***************************************************************************)
Goto(next) == stage' = next

Unchanged(next) ==
    /\ Goto(next)
    /\ UNCHANGED <<sessionQueue, current, iteration, drained, hooked, rc, abandoned,
                   client, steers, interrupted>>

\* A slash command, or a refusal, is answered without a run.  A reply that
\* does not reach the client is logged.
RunCommand ==
    /\ stage = "prepare"
    /\ Record("answered")
    /\ IF current \in gone THEN UNCHANGED answers ELSE Answer
    /\ Return
    /\ UNCHANGED <<queue, rc, hooked, abandoned, gone, steers, interrupted>>

\* rc.active = True and on_run_start, with no await between them.
StartRun ==
    /\ stage = "prepare"
    /\ rc' = [rc EXCEPT !.active = TRUE, !.pending = <<>>]
    /\ hooked' = TRUE
    /\ Goto("setup")
    /\ UNCHANGED <<sessionQueue, current, iteration, drained, abandoned, client,
                   steers, interrupted>>

\* ensure_session, the append of the user's entry, the frozen prefix.
SetUp ==
    /\ stage = "setup"
    /\ Unchanged("check") \/ ReportError

\* The head of the loop, and SteerHook among the hooks that build the prompt.
Iterate ==
    /\ iteration < MaxIterations
    /\ ~rc.abort
    /\ iteration' = iteration + 1
    /\ IF hooked
       THEN drained' = Range(rc.pending) /\ rc' = [rc EXCEPT !.pending = <<>>]
       ELSE drained' = {} /\ UNCHANGED rc
    /\ Goto("assemble")
    /\ UNCHANGED <<sessionQueue, current, hooked, abandoned, client, steers,
                   interrupted>>

\* Past max_iterations, or past run_seconds, the run ends with an error.
LoopHead ==
    /\ stage = "check"
    /\ Iterate \/ (iteration < MaxIterations /\ ReportAbort) \/ ReportError

\* The prompt goes to the model.
CallModel ==
    /\ seenIn' = [s \in Steer |-> IF s \in drained THEN current ELSE seenIn[s]]
    /\ Goto("stream")
    /\ UNCHANGED <<sessionQueue, current, iteration, drained, hooked, rc, abandoned,
                   client, acceptedIn, interrupted>>

\* The context is assembled; when it is too long it is compacted instead,
\* which fails, is aborted, or starts the iteration over.
Assemble ==
    /\ stage = "assemble"
    /\ CallModel \/ Unchanged("check") \/ ReportAbort \/ ReportError

\* The model answers for good, asks for tools, must be asked again, overflows
\* its context, fails, times out, or loses its race with the abort event.
\* A stream that has ended wins over the event.
Stream ==
    /\ stage = "stream"
    /\ \/ \E next \in {"final", "tools", "check"} : Unchanged(next)
       \/ ReportAbort
       \/ ReportError
       \/ Abandon

\* Approvals and tools; an aborted tool returns an error result.
UseTools ==
    /\ stage = "tools"
    /\ Unchanged("check") \/ ReportError \/ Abandon

\* The answer is stored, observed and reported; the abort event is not read.
Conclude ==
    /\ stage = "final"
    /\ Report("answered") \/ ReportError

Handler == RunCommand \/ StartRun \/ SetUp \/ LoopHead \/ Assemble \/ Stream
           \/ UseTools \/ Conclude \/ Close

(***************************************************************************)
(* The client                                                              *)
(***************************************************************************)
Interrupt ==
    interrupted' = IF current = NoMessage THEN interrupted
                   ELSE interrupted \cup {current}

\* /stop of an active run: it is told to end, its steers are dropped, and the
\* client gets its chat.done at once.  Otherwise /stop changes nothing.
Stop ==
    /\ "stop" \in Environment
    /\ Active
    /\ rc' = [rc EXCEPT !.external = TRUE, !.abort = TRUE, !.pending = <<>>]
    /\ Answer
    /\ Interrupt
    /\ UNCHANGED <<sessionQueue, run, abandoned, gone, outcome, steers>>

\* Mutant: chat.abort answers the client as /stop does.
AbortReplies ==
    /\ Active
    /\ rc' = [rc EXCEPT !.abort = TRUE]
    /\ Answer
    /\ Interrupt
    /\ UNCHANGED <<sessionQueue, run, abandoned, gone, outcome, steers>>

\* chat.abort sets the event whether or not there is a run.
Abort ==
    /\ "abort" \in Environment
    /\ ~rc.abort
    /\ rc' = [rc EXCEPT !.abort = TRUE]
    /\ Interrupt
    /\ UNCHANGED <<sessionQueue, run, abandoned, client, steers>>

Length(buffer) == FoldFunction(+, 0, [i \in DOMAIN buffer |-> Size[buffer[i]]])

Last(buffer, n) == SubSeq(buffer, Len(buffer) - n + 1, Len(buffer))

\* enforce_cap: the longest end of the buffer that leaves room for s; when an
\* end of some length fits, so do all shorter ones.
RoomFor(s, buffer) ==
    LET fitting == {n \in 1 .. Len(buffer) :
                        /\ n < CapCount
                        /\ Length(Last(buffer, n)) + Size[s] <= CapChars}
    IN Last(buffer, Cardinality(fitting))

\* /steer and /btw; without an active run, or too long, they are refused.
Steering(s) ==
    /\ "steer" \in Environment
    /\ acceptedIn[s] = NoMessage
    /\ Active
    /\ Size[s] <= CapChars
    /\ rc' = [rc EXCEPT !.pending = Append(RoomFor(s, @), s)]
    /\ acceptedIn' = [acceptedIn EXCEPT ![s] = current]
    /\ UNCHANGED <<sessionQueue, run, abandoned, client, seenIn, interrupted>>

\* The socket from which m came closes.
Disconnect(m) ==
    /\ "disconnect" \in Environment
    /\ outcome[m] = "queued"
    /\ gone' = gone \cup {m}
    /\ UNCHANGED <<sessionQueue, run, rc, abandoned, outcome, answers, steers,
                   interrupted>>

Consumer == Wait \/ Take \/ Exit

Next ==
    \/ Consumer
    \/ Expire
    \/ Handler
    \/ Stop
    \/ Abort
    \/ \E m \in Message : Enqueue(m) \/ CloseAbandoned(m) \/ Disconnect(m)
    \/ \E s \in Steer : Steering(s)

Spec == Init /\ [][Next]_vars

\* Ready tasks are resumed, and every await of a handler ends: the model is
\* bounded by run_seconds and idle_seconds, a tool by tool_seconds, an approval
\* by its own timeout.
Fairness ==
    /\ WF_vars(Consumer)
    /\ WF_vars(Handler)
    /\ \A m \in Message : WF_vars(CloseAbandoned(m))

FairSpec == Spec /\ Fairness

(***************************************************************************)
(* What it promises                                                        *)
(***************************************************************************)
\* Types: every variable stays in its set, and what the stage says of the
\* message in hand and of the consumer.
TypeOK ==
    /\ queue \in Seq(Message)
    /\ consumer \in Consumers
    /\ current \in Message \cup {NoMessage}
    /\ stage \in Stages
    /\ iteration \in 0 .. MaxIterations
    /\ rc \in [active : BOOLEAN, abort : BOOLEAN, external : BOOLEAN,
               pending : Seq(Steer)]
    /\ drained \subseteq Steer
    /\ hooked \in BOOLEAN
    /\ abandoned \subseteq Message
    /\ gone \subseteq Message
    /\ outcome \in [Message -> Outcomes]
    /\ answers \in [Message -> Nat]
    /\ acceptedIn \in [Steer -> Message \cup {NoMessage}]
    /\ seenIn \in [Steer -> Message \cup {NoMessage}]
    /\ interrupted \subseteq Message
    /\ (stage = "idle") <=> (current = NoMessage)
    /\ (consumer = "busy") <=> (current # NoMessage)

\* A message is aborted only on a request made while it was in hand: the
\* abort event of an earlier message, or of an idle conversation, never ends
\* a later run (reset_abort_event before each message).
AbortHasCause ==
    \A m \in Message : outcome[m] = "aborted" => m \in interrupted

\* A steer reaches the model only in the run that accepted it: what a run
\* leaves in the buffer is never injected into the next one (on_run_start).
SteerStaysInRun ==
    \A s \in Steer : seenIn[s] \in {NoMessage, acceptedIn[s]}

\* Nothing a client does about one run has an effect on another: neither what
\* _handle_abort sets nor what op_chat_steer puts into the buffer.
RunsStayApart == TypeOK /\ AbortHasCause /\ SteerStaysInRun

\* A message that was handled for a connected client has got exactly one
\* terminal event.
OneAnswer ==
    \A m \in Message \ gone :
        outcome[m] \in {"answered", "error", "aborted"} => answers[m] = 1

\* Accepted messages whose clients still wait for a terminal event.
Unanswered == {m \in Message \ gone : outcome[m] # "unsent" /\ answers[m] = 0}

\* Every message is answered, or its client is gone (SessionQueue._consume,
\* handle_chat_send).
EveryMessageAnswered == Unanswered # {} ~> Unanswered = {}

\* Messages are handled one at a time, in order, each once.
Serial ==
    INSTANCE SerialSession WITH
        waiting <- IF current = NoMessage THEN queue ELSE <<current>> \o queue,
        over <- {m \in Message : outcome[m] \in Results /\ m # current}

ImplementsSerialSession == Serial!Spec
=============================================================================

--------------------------- MODULE FeishuSession ---------------------------
(***************************************************************************)
(* The events of one Feishu session key in the worker that owns it: how    *)
(* their handlers find or make the current session, rotate it when it was  *)
(* idle or on /new, stop its run, or put a run on its serial queue, and    *)
(* how the session's consumer task runs what is queued.                    *)
(*                                                                         *)
(* The worker is one asyncio process.  Every event has a handler of its    *)
(* own; handlers and consumers interleave at each await, above all at each *)
(* access to the session store.  step names the await an event's handler,  *)
(* and later its run, is suspended at.                                     *)
(***************************************************************************)
EXTENDS Naturals, Sequences

CONSTANTS
    Message,      \* events of the session key
    MaxSessions,  \* how many sessions the key may get (bound)
    Kinds         \* [Message -> the kinds of event it may be]

ASSUME FeishuAssumption ==
    /\ MaxSessions \in Nat
    /\ Kinds \in [Message -> SUBSET {"text", "reaction", "new", "stop"}]

VARIABLES
    current,    \* the session id under the key's :current, or NoSession
    created,    \* how many sessions there have been; their ids are 1 .. created
    age,        \* [Session -> last_interaction_at, seen from now]
    step,       \* [Message -> where its handler or its run stands]
    kind,       \* [Message -> what sort of event it is]
    sid,        \* [Message -> session_id of its handler]
    old,        \* [Message -> old_id of its handler's rotation]
    resetting,  \* messages whose handler rotates because the session was idle
    queue,      \* [Session -> the asyncio.Queue of its entry]
    entries,    \* sessions with an entry in the registry
    consumers,  \* sessions whose consumer task lives
    busy,       \* sessions whose _busy is set
    rc          \* [Session -> its RunControl]

handlers == <<step, kind, sid, old, resetting>>
registry == <<queue, entries, consumers, busy, rc>>
vars     == <<current, created, age, handlers, registry>>

NoSession == 0
Session   == 1 .. MaxSessions

Handling == {"resolve", "create", "check", "rotate", "swap", "clean", "act", "follow"}
Running  == {"dispatch", "model"}
Results  == {"reported", "aborted", "failed"}
Replies  == {"ignored", "refused", "stopped", "nothing", "rotated"}
Losses   == {"dropped", "cancelled"}
Terminal == Results \cup Replies \cup Losses
Steps    == {"unsent", "queued", "unwinding"} \cup Handling \cup Running \cup Terminal

NewControl == [active |-> FALSE, abort |-> FALSE]

\* is_active
Active(s) == rc[s].active /\ ~rc[s].abort

\* The run the session's consumer awaits.
InHand(s) == {m \in Message : step[m] \in Running /\ sid[m] = s}

Init ==
    /\ current = NoSession
    /\ created = 0
    /\ age = [s \in Session |-> "none"]
    /\ step = [m \in Message |-> "unsent"]
    /\ kind = [m \in Message |-> "text"]
    /\ sid = [m \in Message |-> NoSession]
    /\ old = [m \in Message |-> NoSession]
    /\ resetting = {}
    /\ queue = [s \in Session |-> <<>>]
    /\ entries = {}
    /\ consumers = {}
    /\ busy = {}
    /\ rc = [s \in Session |-> NewControl]

Goto(m, next) == step' = [step EXCEPT ![m] = next]

(***************************************************************************)
(* handle_feishu_message up to the session                                 *)
(***************************************************************************)
\* An event is past routing and dedup.
Arrive(m, k) ==
    /\ step[m] = "unsent"
    /\ kind' = [kind EXCEPT ![m] = k]
    /\ Goto(m, "resolve")
    /\ UNCHANGED <<current, created, age, sid, old, resetting, registry>>

\* get_current_session_id; a reaction needs a session and looks no further.
Resolve(m) ==
    /\ step[m] = "resolve"
    /\ sid' = [sid EXCEPT ![m] = current]
    /\ \/ current # NoSession /\ kind[m] = "reaction" /\ Goto(m, "act")
       \/ current # NoSession /\ kind[m] # "reaction" /\ Goto(m, "check")
       \/ current = NoSession /\ kind[m] = "reaction" /\ Goto(m, "ignored")
       \/ current = NoSession /\ kind[m] # "reaction" /\ Goto(m, "create")
    /\ UNCHANGED <<current, created, age, kind, old, resetting, registry>>

\* create_new_session: a fresh id, unknown to others until it is current.
Open ==
    /\ created < MaxSessions
    /\ created' = created + 1
    /\ current' = created + 1

Create(m) ==
    /\ step[m] = "create"
    /\ Open
    /\ sid' = [sid EXCEPT ![m] = created + 1]
    /\ Goto(m, "check")
    /\ UNCHANGED <<age, kind, old, resetting, registry>>

\* check_idle_reset finds the session idle.
Check(m) ==
    /\ step[m] = "check"
    /\ age[sid[m]] = "old"
    /\ resetting' = resetting \cup {m}
    /\ Goto(m, "rotate")
    /\ UNCHANGED <<current, created, age, kind, sid, old, registry>>

(***************************************************************************)
(* SessionRouter.rotate                                                    *)
(***************************************************************************)
Rotate(m) ==
    /\ step[m] = "rotate"
    /\ old' = [old EXCEPT ![m] = current]
    /\ Goto(m, "swap")
    /\ UNCHANGED <<current, created, age, kind, sid, resetting, registry>>

\* An idle reset goes on with the new session, /new with the one it had.
Swap(m) ==
    /\ step[m] = "swap"
    /\ Open
    /\ sid' = IF m \in resetting THEN [sid EXCEPT ![m] = created + 1] ELSE sid
    /\ Goto(m, "clean")
    /\ UNCHANGED <<age, kind, old, resetting, registry>>

\* What becomes of the messages of a session whose consumer is cancelled.
Cancelled(e) == IF step[e] = "queued" THEN "dropped" ELSE "unwinding"

Casualties(s) == {e \in Message : step[e] \in Running \cup {"queued"} /\ sid[e] = s}

\* Mutant: the entry of the cancelled consumer stays in the registry.
CleanUpKeepsEntry(m, s) ==
    /\ UNCHANGED entries
    /\ consumers' = consumers \ {s}
    /\ queue' = [queue EXCEPT ![s] = <<>>]
    /\ busy' = busy \ {s}
    /\ rc' = [rc EXCEPT ![s] = NewControl]
    /\ step' = [e \in Message |->
                  IF e = m THEN IF m \in resetting THEN "act" ELSE "follow"
                  ELSE IF e \in Casualties(s) THEN Cancelled(e) ELSE step[e]]

\* cleanup_session: what the registry keeps of the session goes, its consumer
\* is cancelled with the run it awaits, and what is queued is never awaited.
CleanUp(m, s) ==
    /\ entries' = entries \ {s}
    /\ consumers' = consumers \ {s}
    /\ queue' = [queue EXCEPT ![s] = <<>>]
    /\ busy' = busy \ {s}
    /\ rc' = [rc EXCEPT ![s] = NewControl]
    /\ step' = [e \in Message |->
                  IF e = m THEN IF m \in resetting THEN "act" ELSE "follow"
                  ELSE IF e \in Casualties(s) THEN Cancelled(e) ELSE step[e]]

\* Mutant: what is cleaned up is the session that is current by now.
CleanCurrent(m) ==
    /\ step[m] = "clean"
    /\ CleanUp(m, current)
    /\ resetting' = resetting \ {m}
    /\ old' = [old EXCEPT ![m] = NoSession]
    /\ UNCHANGED <<current, created, age, kind, sid>>

\* _on_rotated
Clean(m) ==
    /\ step[m] = "clean"
    /\ CleanUp(m, old[m])
    /\ resetting' = resetting \ {m}
    /\ old' = [old EXCEPT ![m] = NoSession]
    /\ UNCHANGED <<current, created, age, kind, sid>>

(***************************************************************************)
(* What an event asks for                                                  *)
(***************************************************************************)
\* There is nothing to await between a check that finds the session in use and
\* what the event asks for.
Acts(m, k) ==
    /\ kind[m] \in k
    /\ step[m] = "act" \/ (step[m] = "check" /\ age[sid[m]] # "old")

\* enqueue: a session without an entry gets one, and with it a consumer.
Enqueue(m) ==
    /\ Acts(m, {"text", "reaction"})
    /\ queue' = [queue EXCEPT ![sid[m]] = Append(@, m)]
    /\ entries' = entries \cup {sid[m]}
    /\ consumers' = IF sid[m] \in entries THEN consumers ELSE consumers \cup {sid[m]}
    /\ Goto(m, "queued")
    /\ UNCHANGED <<current, created, age, kind, sid, old, resetting, busy, rc>>

\* Mutant: one abort event for all sessions of the key.
StopEverySession(m) ==
    /\ Acts(m, {"stop"})
    /\ IF Active(sid[m])
       THEN /\ rc' = [s \in Session |-> [rc[s] EXCEPT !.abort = TRUE]]
            /\ Goto(m, "stopped")
       ELSE Goto(m, "nothing") /\ UNCHANGED rc
    /\ UNCHANGED <<current, created, age, kind, sid, old, resetting,
                   queue, entries, consumers, busy>>

\* handle_stop_feishu
Stop(m) ==
    /\ Acts(m, {"stop"})
    /\ IF Active(sid[m])
       THEN /\ rc' = [rc EXCEPT ![sid[m]].abort = TRUE]
            /\ Goto(m, "stopped")
       ELSE Goto(m, "nothing") /\ UNCHANGED rc
    /\ UNCHANGED <<current, created, age, kind, sid, old, resetting,
                   queue, entries, consumers, busy>>

\* /new and /reset need an idle session (idle_guard_check), then rotate it.
NewCommand(m) ==
    /\ Acts(m, {"new"})
    /\ Goto(m, IF sid[m] \in busy THEN "refused" ELSE "rotate")
    /\ UNCHANGED <<current, created, age, kind, sid, old, resetting, registry>>

\* dispatch_user_message: the text after /new, if any, goes to whatever
\* session is current by now.
Follow(m) ==
    /\ step[m] = "follow"
    /\ \/ Goto(m, "rotated") /\ UNCHANGED <<kind, sid>>
       \/ /\ Goto(m, "act")
          /\ kind' = [kind EXCEPT ![m] = "text"]
          /\ sid' = [sid EXCEPT ![m] = current]
    /\ UNCHANGED <<current, created, age, old, resetting, registry>>

(***************************************************************************)
(* FeishuQueueRegistry._consume and the run it awaits                      *)
(***************************************************************************)
\* The consumer takes the next of its queue, when it awaits no run.
Start(m) ==
    /\ step[m] = "queued"
    /\ sid[m] \in consumers
    /\ InHand(sid[m]) = {}
    /\ Head(queue[sid[m]]) = m
    /\ queue' = [queue EXCEPT ![sid[m]] = Tail(@)]
    /\ busy' = busy \cup {sid[m]}
    /\ Goto(m, "dispatch")
    /\ UNCHANGED <<current, created, age, kind, sid, old, resetting, entries, consumers, rc>>

\* Mutant: the busy flag belongs to the session key.
ReturnClearsCurrent(m, end) ==
    /\ Goto(m, end)
    /\ busy' = busy \ {current}
    /\ UNCHANGED <<current, created, kind, sid, old, resetting, queue, entries, consumers>>

\* The consumer is back in its loop.
Return(m, end) ==
    /\ Goto(m, end)
    /\ busy' = busy \ {sid[m]}
    /\ UNCHANGED <<current, created, kind, sid, old, resetting, queue, entries, consumers>>

\* The run is over, and the session's last_interaction_at is saved.
EndRun(m, how) ==
    /\ rc' = [rc EXCEPT ![sid[m]].active = FALSE]
    /\ age' = [age EXCEPT ![sid[m]] = "recent"]
    /\ Return(m, how)

\* An exception leaves the run; the consumer logs it.
Fail(m) ==
    /\ rc' = [rc EXCEPT ![sid[m]].active = FALSE]
    /\ Return(m, "failed")
    /\ UNCHANGED age

\* Tier, profile and card are there, and the run begins with whatever its
\* RunControl holds: a run whose abort event is set ends before it calls the
\* model.
Dispatch(m) ==
    /\ step[m] = "dispatch"
    /\ \/ /\ ~rc[sid[m]].abort
          /\ Goto(m, "model")
          /\ rc' = [rc EXCEPT ![sid[m]].active = TRUE]
          /\ UNCHANGED <<current, created, age, kind, sid, old, resetting, queue,
                         entries, consumers, busy>>
       \/ rc[sid[m]].abort /\ EndRun(m, "aborted")
       \/ Fail(m)

\* The loop of model calls and tools, until an answer or an error is reported;
\* that may win over the abort event.
Work(m) ==
    /\ step[m] = "model"
    /\ \/ EndRun(m, "reported")
       \/ rc[sid[m]].abort /\ EndRun(m, "aborted")
       \/ Fail(m)

\* A cancelled run has unwound; its consumer clears the busy flag and ends.
Unwound(m) ==
    /\ step[m] = "unwinding"
    /\ Return(m, "cancelled")
    /\ UNCHANGED <<age, rc>>

\* idle_minutes have passed since the session's last interaction.
GrowOld(s) ==
    /\ age[s] = "recent"
    /\ age' = [age EXCEPT ![s] = "old"]
    /\ UNCHANGED <<current, created, handlers, registry>>

Handle(m) ==
    \/ Resolve(m) \/ Create(m) \/ Check(m) \/ Rotate(m) \/ Swap(m) \/ Clean(m)
    \/ Enqueue(m) \/ Stop(m) \/ NewCommand(m) \/ Follow(m)

Run(m) == Start(m) \/ Dispatch(m) \/ Work(m) \/ Unwound(m)

Next ==
    \/ \E m \in Message : Handle(m) \/ Run(m) \/ \E k \in Kinds[m] : Arrive(m, k)
    \/ \E s \in Session : GrowOld(s)

Spec == Init /\ [][Next]_vars

\* The event loop resumes every handler and consumer; a run ends by its
\* timeouts, if need be.
FairSpec == Spec /\ \A m \in Message : WF_vars(Handle(m)) /\ WF_vars(Run(m))

(***************************************************************************)
(* What it promises                                                        *)
(***************************************************************************)
\* Types, and that whatever is queued has a consumer to run it.
TypeOK ==
    /\ current \in 0 .. created
    /\ created \in 0 .. MaxSessions
    /\ age \in [Session -> {"none", "recent", "old"}]
    /\ step \in [Message -> Steps]
    /\ kind \in [Message -> {"text", "reaction", "new", "stop"}]
    /\ sid \in [Message -> 0 .. created]
    /\ old \in [Message -> 0 .. created]
    /\ resetting \subseteq Message
    /\ queue \in [Session -> Seq(Message)]
    /\ entries \subseteq Session
    /\ consumers \subseteq Session
    /\ busy \subseteq Session
    /\ rc \in [Session -> [active : BOOLEAN, abort : BOOLEAN]]
    /\ \A s \in Session : queue[s] # <<>> => s \in consumers

\* A run is aborted only where a /stop was heeded in its own session: rotation
\* gives the new session a RunControl of its own (get_run_control).
StopStaysInSession ==
    \A m \in Message :
        step[m] = "aborted" =>
            \E n \in Message : step[n] = "stopped" /\ sid[n] = sid[m]

\* While a run of the current session is in hand, /new is refused: cancelled
\* consumers that unwind late do not clear the busy flag of the current one.
GuardSeesRun == InHand(current) # {} => current \in busy

\* Whatever waits has a consumer, and whatever runs is guarded
\* (SessionQueueRegistry).
SessionsAreServed == TypeOK /\ GuardSeesRun

\* However handlers, rotations and cancelled consumers interleave, every
\* event comes to an end: none waits in a queue nobody serves.
EveryEventSettles == \A m \in Message : step[m] # "unsent" ~> step[m] \in Terminal

\* One session is current at a time and none comes back; the messages of each
\* are run one by one in the order in which they were accepted; only a
\* session that was left drops messages. (/resume, which goes back to an older
\* session, is not modelled.)
Sessions ==
    INSTANCE RotatingSessions WITH
        opened <- 1 .. created,
        waiting <- [s \in Session |->
                      IF InHand(s) = {} THEN queue[s]
                      ELSE <<CHOOSE m \in InHand(s) : TRUE>> \o queue[s]],
        over <- {m \in Message : step[m] \in Results \cup Losses \cup {"unwinding"}}

ImplementsRotatingSessions == Sessions!Spec
=============================================================================

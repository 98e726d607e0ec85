------------------------------- MODULE Gateway -------------------------------
(***************************************************************************)
(* The session-affinity gateway of a multi-worker deployment: how a Feishu *)
(* event finds the one worker that handles it.                             *)
(*                                                                         *)
(* Each worker is one asyncio process.  Every Redis call is an await, so   *)
(* every call is a step of its own and the handlers of all workers, and    *)
(* the handlers of one worker, interleave between the calls.  A delivery   *)
(* is one copy of a message: Feishu redelivers what it believes lost, so   *)
(* several deliveries may carry one message.                               *)
(*                                                                         *)
(* Time is discrete.  The affinity key of a session lives TTL ticks unless *)
(* it is refreshed; a running agent refreshes it every RenewalInterval     *)
(* ticks.                                                                  *)
(***************************************************************************)
EXTENDS Integers, Sequences, FiniteSets

CONSTANTS
    Worker,           \* worker ids; an id is never reused (generate_worker_id)
    Session,          \* session keys
    Message,          \* Feishu message ids
    Delivery,         \* copies of the messages Feishu hands to the workers
    SessionOf,        \* [Message -> Session]    build_session_key
    MessageOf,        \* [Delivery -> Message]
    Nobody,           \* a missing affinity key
    TTL,              \* affinity.ttl_seconds, in ticks
    RenewalInterval,  \* affinity.renewal_interval, in ticks
    Faults,           \* the kinds of faults the environment may inject
    MaxFaults,        \* how many faults it may inject (bound)
    RedisErrors,      \* families of exception a failing Redis call raises
    PromptHandlers,   \* no tick passes while a handler could take a step
    SubscribeFirst    \* a worker's subscription is up before its socket opens

ASSUME GatewayAssumption ==
    /\ SessionOf \in [Message -> Session]
    /\ MessageOf \in [Delivery -> Message]
    /\ Nobody \notin Worker
    /\ TTL \in Nat \ {0}
    /\ RenewalInterval \in Nat \ {0}
    /\ Faults \subseteq {"crash", "hostloss", "unsubscribe", "outage"}
    /\ MaxFaults \in Nat
    /\ RedisErrors \subseteq {"builtin", "client"}
    /\ "outage" \in Faults => RedisErrors # {}
    /\ PromptHandlers \in BOOLEAN
    /\ SubscribeFirst \in BOOLEAN

VARIABLES
    affinity,    \* [Session -> owner]   the key pyclaw:affinity:<session>
    ttl,         \* [Session -> ticks the key has left]
    unrenewed,   \* [Session -> runs that ended since its key was last set or
                 \* refreshed]   history, read by no action
    marked,      \* messages with a pyclaw:feishu:dedup key
    redisUp,     \* the workers reach Redis
    faults,      \* faults injected so far
    status,      \* [Worker -> life cycle of the process]
    subscribed,  \* [Worker -> its forward consumer holds a subscription]
    inbox,       \* [Worker -> deliveries published to it, not yet consumed]
    seen,        \* [Worker -> messages in FeishuDedup._seen]
    queue,       \* [Worker -> [Session -> the session's serial queue]]
    pc,          \* [Delivery -> where its handler stands]
    at,          \* [Delivery -> the worker that has it]
    via,         \* [Delivery -> "socket" or "forward"]
    owner,       \* [Delivery -> the local variable owner of _route_inner]
    gate,        \* [Delivery -> which check of is_duplicate let it pass]
    renewIn      \* [Delivery -> ticks until the run's next renewal]

redis    == <<affinity, ttl, unrenewed, marked, redisUp>>
process  == <<status, subscribed, inbox, seen, queue>>
handler  == <<pc, at, via, owner, gate, renewIn>>
vars     == <<redis, faults, process, handler>>

Key(d) == SessionOf[MessageOf[d]]

RouteCalls  == {"resolve", "renew", "claim", "reresolve", "forward", "force"}
InHandler   == RouteCalls \cup {"dedup", "prepare"}
Terminal    == {"done", "duplicate", "unrouted", "lost", "aborted"}
PC          == {"unsent", "inbox", "queued", "running"} \cup InHandler \cup Terminal

\* route() has answered "local" and the run, if any, is not over.
Engaged(d)  == pc[d] \in {"dedup", "prepare", "queued", "running"}

(***************************************************************************)
(* The affinity key                                                        *)
(***************************************************************************)
SetOwner(s, w) ==
    /\ affinity' = [affinity EXCEPT ![s] = w]
    /\ ttl' = [ttl EXCEPT ![s] = TTL]
    /\ unrenewed' = [unrenewed EXCEPT ![s] = 0]

\* EXPIRE refreshes whatever key is there, whoever owns it.
Refresh(s) ==
    /\ ttl' = [ttl EXCEPT ![s] = IF affinity[s] = Nobody THEN 0 ELSE TTL]
    /\ unrenewed' = [unrenewed EXCEPT ![s] = 0]
    /\ UNCHANGED affinity

Goto(d, step) == pc' = [pc EXCEPT ![d] = step]

Init ==
    /\ affinity = [s \in Session |-> Nobody]
    /\ ttl = [s \in Session |-> 0]
    /\ unrenewed = [s \in Session |-> 0]
    /\ marked = {}
    /\ redisUp = TRUE
    /\ faults = 0
    /\ status = [w \in Worker |-> "off"]
    /\ subscribed = [w \in Worker |-> FALSE]
    /\ inbox = [w \in Worker |-> <<>>]
    /\ seen = [w \in Worker |-> {}]
    /\ queue = [w \in Worker |-> [s \in Session |-> <<>>]]
    /\ pc = [d \in Delivery |-> "unsent"]
    /\ at = [d \in Delivery |-> Nobody]
    /\ via = [d \in Delivery |-> "socket"]
    /\ owner = [d \in Delivery |-> Nobody]
    /\ gate = [d \in Delivery |-> "none"]
    /\ renewIn = [d \in Delivery |-> 0]

(***************************************************************************)
(* Life of a worker process                                                *)
(***************************************************************************)
\* Mutant: a restarted process gets its old worker id back.
BootReusesId(w) ==
    /\ status[w] \in {"off", "dead"}
    /\ status' = [status EXCEPT ![w] = "booting"]
    /\ UNCHANGED <<redis, faults, subscribed, inbox, seen, queue, handler>>

\* lifespan: the worker id is fresh and the forward consumer is spawned.
Boot(w) ==
    /\ status[w] = "off"
    /\ status' = [status EXCEPT ![w] = "booting"]
    /\ UNCHANGED <<redis, faults, subscribed, inbox, seen, queue, handler>>

\* _run_loop: SUBSCRIBE, at start and again after a lost connection.
Subscribe(w) ==
    /\ status[w] \in {"booting", "up"}
    /\ ~subscribed[w]
    /\ redisUp
    /\ subscribed' = [subscribed EXCEPT ![w] = TRUE]
    /\ UNCHANGED <<redis, faults, status, inbox, seen, queue, handler>>

\* feishu_channel.start: the context exists and the socket delivers events.
Ready(w) ==
    /\ status[w] = "booting"
    /\ SubscribeFirst => subscribed[w]
    /\ status' = [status EXCEPT ![w] = "up"]
    /\ UNCHANGED <<redis, faults, subscribed, inbox, seen, queue, handler>>

Inject(kind) ==
    /\ kind \in Faults
    /\ faults < MaxFaults
    /\ faults' = faults + 1

\* What becomes of a delivery whose process is gone.
Killed(step) ==
    IF step \in {"prepare", "queued", "running"} THEN "aborted" ELSE "lost"

\* The process ends: a crash, or the end of a shutdown.  It releases no key.
\* When its host is lost with it, Redis goes on counting its subscription.
Crash(w) ==
    /\ \/ Inject("crash") /\ subscribed' = [subscribed EXCEPT ![w] = FALSE]
       \/ Inject("hostloss") /\ UNCHANGED subscribed
    /\ status[w] \in {"booting", "up"}
    /\ status' = [status EXCEPT ![w] = "dead"]
    /\ inbox' = [inbox EXCEPT ![w] = <<>>]
    /\ queue' = [queue EXCEPT ![w] = [s \in Session |-> <<>>]]
    /\ pc' = [d \in Delivery |->
                IF at[d] = w /\ pc[d] \notin Terminal THEN Killed(pc[d]) ELSE pc[d]]
    /\ owner' = [d \in Delivery |-> IF at[d] = w THEN Nobody ELSE owner[d]]
    /\ renewIn' = [d \in Delivery |-> IF at[d] = w THEN 0 ELSE renewIn[d]]
    /\ UNCHANGED <<redis, seen, at, via, gate>>

\* Redis gives up the connection of a lost host.
DropConnection(w) ==
    /\ status[w] = "dead"
    /\ subscribed[w]
    /\ subscribed' = [subscribed EXCEPT ![w] = FALSE]
    /\ UNCHANGED <<redis, faults, status, inbox, seen, queue, handler>>

\* The subscription's connection breaks: what it had buffered is gone, the
\* loop backs off and subscribes again.
LoseSubscription(w) ==
    /\ Inject("unsubscribe")
    /\ subscribed[w]
    /\ status[w] # "dead"
    /\ subscribed' = [subscribed EXCEPT ![w] = FALSE]
    /\ inbox' = [inbox EXCEPT ![w] = <<>>]
    /\ pc' = [d \in Delivery |->
                IF at[d] = w /\ pc[d] = "inbox" THEN "lost" ELSE pc[d]]
    /\ UNCHANGED <<redis, status, seen, queue, at, via, owner, gate, renewIn>>

RedisFails ==
    /\ Inject("outage")
    /\ redisUp
    /\ redisUp' = FALSE
    /\ UNCHANGED <<affinity, ttl, unrenewed, marked, process, handler>>

RedisRecovers ==
    /\ ~redisUp
    /\ redisUp' = TRUE
    /\ UNCHANGED <<affinity, ttl, unrenewed, marked, faults, process, handler>>

(***************************************************************************)
(* A delivery reaches a worker                                             *)
(***************************************************************************)
\* Feishu picks any connected worker; handle_feishu_message starts.
Arrive(d, w) ==
    /\ pc[d] = "unsent"
    /\ status[w] = "up"
    /\ Goto(d, "resolve")
    /\ at' = [at EXCEPT ![d] = w]
    /\ UNCHANGED <<redis, faults, process, via, owner, gate, renewIn>>

\* Mutant: a forwarded event is handled without routing it again.
ConsumeTrusts(w) ==
    /\ status[w] # "dead" /\ inbox[w] # <<>>
    /\ \A d \in Delivery :
          at[d] = w /\ via[d] = "forward" => pc[d] \notin InHandler
    /\ Goto(Head(inbox[w]), "dedup")
    /\ inbox' = [inbox EXCEPT ![w] = Tail(@)]
    /\ UNCHANGED <<redis, faults, status, subscribed, seen, queue,
                   at, via, owner, gate, renewIn>>

\* The consumer takes the next published event and awaits its handler, so it
\* has one forwarded handler in flight at a time.
Consume(w) ==
    /\ status[w] # "dead" /\ inbox[w] # <<>>
    /\ \A d \in Delivery :
          at[d] = w /\ via[d] = "forward" => pc[d] \notin InHandler
    /\ LET d == Head(inbox[w])
       IN IF status[w] = "up" THEN Goto(d, "resolve") ELSE Goto(d, "lost")
    /\ inbox' = [inbox EXCEPT ![w] = Tail(@)]
    /\ UNCHANGED <<redis, faults, status, subscribed, seen, queue,
                   at, via, owner, gate, renewIn>>

(***************************************************************************)
(* GatewayRouter._route_inner, one step per Redis call                     *)
(***************************************************************************)
ForwardTo(d, o) ==
    /\ owner' = [owner EXCEPT ![d] = o]
    /\ Goto(d, "forward")

Resolve(d) ==
    /\ pc[d] = "resolve"
    /\ redisUp
    /\ LET o == affinity[Key(d)]
       IN \/ o = at[d] /\ Goto(d, "renew") /\ UNCHANGED owner
          \/ o = Nobody /\ Goto(d, "claim") /\ UNCHANGED owner
          \/ o \notin {at[d], Nobody} /\ ForwardTo(d, o)
    /\ UNCHANGED <<redis, faults, process, at, via, gate, renewIn>>

Renew(d) ==
    /\ pc[d] = "renew"
    /\ redisUp
    /\ Refresh(Key(d))
    /\ Goto(d, "dedup")
    /\ UNCHANGED <<marked, redisUp, faults, process, at, via, owner, gate, renewIn>>

\* SET NX EX.
Claim(d) ==
    /\ pc[d] = "claim"
    /\ redisUp
    /\ IF affinity[Key(d)] = Nobody
       THEN SetOwner(Key(d), at[d]) /\ Goto(d, "dedup")
       ELSE Goto(d, "reresolve") /\ UNCHANGED <<affinity, ttl, unrenewed>>
    /\ UNCHANGED <<marked, redisUp, faults, process, at, via, owner, gate, renewIn>>

\* The second GET, after a claim that lost its race.
ReResolve(d) ==
    /\ pc[d] = "reresolve"
    /\ redisUp
    /\ LET o == affinity[Key(d)]
       IN \/ o \in {Nobody, at[d]} /\ Goto(d, "dedup") /\ UNCHANGED owner
          \/ o \notin {Nobody, at[d]} /\ ForwardTo(d, o)
    /\ UNCHANGED <<redis, faults, process, at, via, gate, renewIn>>

\* Redis counts subscribers; whether one is still there it does not know.
Receives(w) == subscribed[w] /\ status[w] # "dead"

\* The local variable is not read again.
Forget(d) == owner' = [owner EXCEPT ![d] = Nobody]

Publish(d, w) ==
    /\ inbox' = [inbox EXCEPT ![w] = Append(@, d)]
    /\ Goto(d, "inbox")
    /\ at' = [at EXCEPT ![d] = w]
    /\ via' = [via EXCEPT ![d] = "forward"]

\* Mutant: the subscriber count that PUBLISH returns is ignored.
ForwardBlindly(d) ==
    /\ pc[d] = "forward"
    /\ redisUp
    /\ Publish(d, owner[d])
    /\ Forget(d)
    /\ UNCHANGED <<redis, faults, status, subscribed, seen, queue, gate, renewIn>>

\* PUBLISH returns how many subscribers got the event.
Forward(d) ==
    /\ pc[d] = "forward"
    /\ redisUp
    /\ \/ Receives(owner[d]) /\ Publish(d, owner[d])
       \/ /\ ~Receives(owner[d])
          /\ Goto(d, IF subscribed[owner[d]] THEN "lost" ELSE "force")
          /\ UNCHANGED <<inbox, at, via>>
    /\ Forget(d)
    /\ UNCHANGED <<redis, faults, status, subscribed, seen, queue, gate, renewIn>>

\* An unconditional SET EX: nothing is compared.
ForceClaim(d) ==
    /\ pc[d] = "force"
    /\ redisUp
    /\ SetOwner(Key(d), at[d])
    /\ Goto(d, "dedup")
    /\ UNCHANGED <<marked, redisUp, faults, process, at, via, owner, gate, renewIn>>

\* route(): a builtin ConnectionError, TimeoutError or OSError is answered
\* "local"; the client's own exceptions are none of these and leave the
\* handler.  The failing write may have reached Redis before its reply was lost.
Outcome(error) == IF error = "builtin" THEN "dedup" ELSE "unrouted"

RouteError(d) ==
    /\ pc[d] \in RouteCalls
    /\ ~redisUp
    /\ \E error \in RedisErrors : Goto(d, Outcome(error))
    /\ \/ UNCHANGED <<affinity, ttl, unrenewed>>
       \/ pc[d] = "renew" /\ Refresh(Key(d))
       \/ pc[d] = "claim" /\ affinity[Key(d)] = Nobody /\ SetOwner(Key(d), at[d])
       \/ pc[d] = "force" /\ SetOwner(Key(d), at[d])
    /\ Forget(d)
    /\ UNCHANGED <<marked, redisUp, faults, process, at, via, gate, renewIn>>

\* The same for a PUBLISH that went out: the owner receives a second copy, e.
PublishReplyLost(d, e) ==
    /\ pc[d] = "forward"
    /\ pc[e] = "unsent"
    /\ MessageOf[e] = MessageOf[d]
    /\ ~redisUp
    /\ Receives(owner[d])
    /\ inbox' = [inbox EXCEPT ![owner[d]] = Append(@, e)]
    /\ \E error \in RedisErrors :
          pc' = [pc EXCEPT ![d] = Outcome(error), ![e] = "inbox"]
    /\ at' = [at EXCEPT ![e] = owner[d]]
    /\ via' = [via EXCEPT ![e] = "forward"]
    /\ Forget(d)
    /\ UNCHANGED <<redis, faults, status, subscribed, seen, queue, gate, renewIn>>

(***************************************************************************)
(* After routing: dedup, the session's queue, the run                      *)
(***************************************************************************)
Pass(d, check) ==
    /\ gate' = [gate EXCEPT ![d] = check]
    /\ Goto(d, "prepare")

Reject(d) == Goto(d, "duplicate") /\ UNCHANGED gate

\* Mutant: a forwarded event is not checked, its sender is trusted.
DedupTrustsForward(d) ==
    /\ pc[d] = "dedup"
    /\ redisUp
    /\ IF MessageOf[d] \in marked /\ via[d] = "socket"
       THEN Reject(d) ELSE Pass(d, "redis")
    /\ marked' = marked \cup {MessageOf[d]}
    /\ UNCHANGED <<affinity, ttl, unrenewed, redisUp, faults, process, at, via, owner, renewIn>>

\* is_duplicate: SET NX EX in Redis.
Dedup(d) ==
    /\ pc[d] = "dedup"
    /\ redisUp
    /\ IF MessageOf[d] \in marked THEN Reject(d) ELSE Pass(d, "redis")
    /\ marked' = marked \cup {MessageOf[d]}
    /\ UNCHANGED <<affinity, ttl, unrenewed, redisUp, faults, process, at, via, owner, renewIn>>

\* Mutant: the fallback forgets to remember the message.
DedupFallbackForgets(d) ==
    /\ pc[d] = "dedup"
    /\ ~redisUp
    /\ IF MessageOf[d] \in seen[at[d]] THEN Reject(d) ELSE Pass(d, "memory")
    /\ marked' \in {marked, marked \cup {MessageOf[d]}}
    /\ UNCHANGED <<affinity, ttl, unrenewed, redisUp, faults, process, at, via, owner, renewIn>>

\* is_duplicate: any exception falls back on the process's own memory; the
\* SET may have reached Redis before its reply was lost.
DedupFallback(d) ==
    /\ pc[d] = "dedup"
    /\ ~redisUp
    /\ IF MessageOf[d] \in seen[at[d]] THEN Reject(d) ELSE Pass(d, "memory")
    /\ seen' = [seen EXCEPT ![at[d]] = @ \cup {MessageOf[d]}]
    /\ marked' \in {marked, marked \cup {MessageOf[d]}}
    /\ UNCHANGED <<affinity, ttl, unrenewed, redisUp, faults, status, subscribed, inbox, queue,
                   at, via, owner, renewIn>>

\* The session is resolved in the store and the run is put on its queue.
Enqueue(d) ==
    /\ pc[d] = "prepare"
    /\ redisUp
    /\ queue' = [queue EXCEPT ![at[d]][Key(d)] = Append(@, d)]
    /\ Goto(d, "queued")
    /\ UNCHANGED <<redis, faults, status, subscribed, inbox, seen,
                   at, via, owner, gate, renewIn>>

\* The session store raises: the message is marked as seen and never run.
PrepareError(d) ==
    /\ pc[d] = "prepare"
    /\ ~redisUp
    /\ Goto(d, "aborted")
    /\ UNCHANGED <<redis, faults, process, at, via, owner, gate, renewIn>>

CanStart(d) ==
    /\ pc[d] = "queued"
    /\ queue[at[d]][Key(d)] # <<>>
    /\ Head(queue[at[d]][Key(d)]) = d
    /\ \A e \in Delivery :
          pc[e] = "running" /\ at[e] = at[d] => Key(e) # Key(d)

\* FeishuQueueRegistry._consume awaits one run of the session at a time; the
\* run spawns the loop that renews the key.
StartRun(d) ==
    /\ CanStart(d)
    /\ queue' = [queue EXCEPT ![at[d]][Key(d)] = Tail(@)]
    /\ renewIn' = [renewIn EXCEPT ![d] = RenewalInterval]
    /\ Goto(d, "running")
    /\ UNCHANGED <<redis, faults, status, subscribed, inbox, seen, at, via, owner, gate>>

\* _affinity_renew_loop: an error is logged and the loop goes on.
RenewLoop(d) ==
    /\ pc[d] = "running"
    /\ renewIn[d] = 0
    /\ \/ Refresh(Key(d))
       \/ ~redisUp /\ UNCHANGED <<affinity, ttl, unrenewed>>
    /\ renewIn' = [renewIn EXCEPT ![d] = RenewalInterval]
    /\ UNCHANGED <<marked, redisUp, faults, process, pc, at, via, owner, gate>>

FinishRun(d) ==
    /\ pc[d] = "running"
    /\ Goto(d, "done")
    /\ renewIn' = [renewIn EXCEPT ![d] = 0]
    /\ unrenewed' = [unrenewed EXCEPT ![Key(d)] = @ + 1]
    /\ UNCHANGED <<affinity, ttl, marked, redisUp, faults, process, at, via, owner, gate>>

(***************************************************************************)
(* Time                                                                    *)
(***************************************************************************)
\* A renewal that is due happens before the next tick.
Tick ==
    /\ \A d \in Delivery : pc[d] = "running" => renewIn[d] > 0
    /\ PromptHandlers =>
          \A d \in Delivery : pc[d] \notin InHandler /\ ~CanStart(d)
    /\ ttl' = [s \in Session |-> IF ttl[s] > 0 THEN ttl[s] - 1 ELSE 0]
    /\ affinity' = [s \in Session |-> IF ttl[s] > 1 THEN affinity[s] ELSE Nobody]
    /\ renewIn' = [d \in Delivery |->
                     IF pc[d] = "running" THEN renewIn[d] - 1 ELSE renewIn[d]]
    /\ UNCHANGED <<unrenewed, marked, redisUp, faults, process, pc, at, via, owner, gate>>

HandlerStep(d) ==
    \/ Resolve(d) \/ Renew(d) \/ Claim(d) \/ ReResolve(d) \/ Forward(d)
    \/ ForceClaim(d) \/ RouteError(d) \/ Dedup(d) \/ DedupFallback(d)
    \/ Enqueue(d) \/ PrepareError(d)
    \/ \E e \in Delivery : PublishReplyLost(d, e)

RunStep(d) == StartRun(d) \/ RenewLoop(d) \/ FinishRun(d)

Next ==
    \/ \E w \in Worker : Boot(w) \/ Subscribe(w) \/ Ready(w)
    \/ \E w \in Worker : Crash(w) \/ DropConnection(w)
    \/ \E w \in Worker : LoseSubscription(w) \/ Consume(w)
    \/ RedisFails \/ RedisRecovers
    \/ \E d \in Delivery, w \in Worker : Arrive(d, w)
    \/ \E d \in Delivery : HandlerStep(d) \/ RunStep(d)
    \/ Tick

Spec == Init /\ [][Next]_vars

\* The event loop runs every ready task; the consumer resubscribes for ever;
\* a run ends, by its own timeouts if need be; an outage of Redis is repaired.
Fairness ==
    /\ \A w \in Worker : WF_vars(Subscribe(w)) /\ WF_vars(Consume(w))
    /\ \A d \in Delivery :
          /\ WF_vars(HandlerStep(d))
          /\ WF_vars(StartRun(d))
          /\ WF_vars(RenewLoop(d))
          /\ WF_vars(FinishRun(d))
    /\ WF_vars(RedisRecovers)

FairSpec == Spec /\ Fairness
-----------------------------------------------------------------------------
TypeOK ==
    /\ affinity \in [Session -> Worker \cup {Nobody}]
    /\ ttl \in [Session -> 0..TTL]
    /\ unrenewed \in [Session -> Nat]
    /\ marked \subseteq Message
    /\ redisUp \in BOOLEAN
    /\ faults \in 0..MaxFaults
    /\ status \in [Worker -> {"off", "booting", "up", "dead"}]
    /\ subscribed \in [Worker -> BOOLEAN]
    /\ inbox \in [Worker -> Seq(Delivery)]
    /\ seen \in [Worker -> SUBSET Message]
    /\ queue \in [Worker -> [Session -> Seq(Delivery)]]
    /\ pc \in [Delivery -> PC]
    /\ at \in [Delivery -> Worker \cup {Nobody}]
    /\ via \in [Delivery -> {"socket", "forward"}]
    /\ owner \in [Delivery -> Worker \cup {Nobody}]
    /\ gate \in [Delivery -> {"none", "redis", "memory"}]
    /\ renewIn \in [Delivery -> 0..RenewalInterval]

Copies(d) == {e \in Delivery \ {d} : MessageOf[e] = MessageOf[d]}

\* Two copies of one message both get past is_duplicate only when at least one
\* of them fell back on the memory of its process, and never two in the same
\* process's memory: an outage of Redis costs at most one extra run per worker.
DedupSound ==
    \A d \in Delivery : \A e \in Copies(d) :
        gate[d] = gate[e] /\ gate[d] # "none" =>
            gate[d] = "memory" /\ at[d] # at[e]

\* However often a message is redelivered, forwarded, force-claimed or
\* orphaned by a crash, at most one copy of it gets past is_duplicate
\* (as long as Redis answers).
AtMostOnce ==
    \A d \in Delivery : \A e \in Copies(d) : gate[d] # "none" => gate[e] = "none"

\* A copy is dropped as a duplicate only if another copy was let through: the
\* affinity check comes before the dedup mark, so forwarding an event never
\* makes its owner take it for a duplicate.
DuplicateMeansTaken ==
    \A d \in Delivery :
        pc[d] = "duplicate" => \E e \in Copies(d) : gate[e] # "none"

\* Copies of a message are judged as if by one, as far as Redis answers
\* (is_duplicate, route before mark).
CopiesAreJudged == TypeOK /\ DedupSound /\ DuplicateMeansTaken

\* _dispatch_forwarded_event never finds the Feishu context missing: nothing
\* is addressed to a worker that is still booting, because it owns no key.
ForwardReachesReadyWorker ==
    \A w \in Worker : inbox[w] # <<>> => status[w] = "up"

\* Until something fails, no event gets past routing at a worker other than
\* the one its session's key names, and that worker keeps the key while it has
\* an event or a run of the session; a run that ends before its first renewal
\* renews nothing (_affinity_renew_loop sleeps first), so the key is lost only
\* after enough such runs, one on the other's heels, to outlast its TTL.
EngagedOwnsKey ==
    [][faults' = 0 => \A d \in Delivery :
          Engaged(d)' /\ affinity'[Key(d)] # at'[d] =>
              /\ Engaged(d)
              /\ affinity[Key(d)] = at[d] =>
                    TTL <= RenewalInterval * (unrenewed[Key(d)] + 1)]_vars

\* Whatever fails, no event bounces between workers or waits for ever: each
\* one is run, recognised as a duplicate, or lost with a failing process.
DeliverySettles == \A d \in Delivery : pc[d] # "unsent" ~> pc[d] \in Terminal

(***************************************************************************)
(* The gateway implements MessageOnce: copies that were let through by     *)
(* is_duplicate stand for their message.                                   *)
(***************************************************************************)
Taken(m) == {d \in Delivery : MessageOf[d] = m /\ gate[d] # "none"}

PhaseOf(m) ==
    IF Taken(m) = {} THEN "waiting"
    ELSE IF \E d \in Taken(m) : pc[d] = "done" THEN "done"
    ELSE IF \E d \in Taken(m) : pc[d] = "aborted" THEN "aborted"
    ELSE "taken"

Once == INSTANCE MessageOnce WITH phase <- [m \in Message |-> PhaseOf(m)]

\* Every message is taken up at most once over all workers and copies, and
\* ends at most once, whatever crashes, lost subscriptions and expiring keys do.
ImplementsMessageOnce == Once!Spec
=============================================================================

# PyClaw, specified

TLA+ models of PyClaw (`src/src/pyclaw`, paths below are relative to it): an
asyncio agent service that receives messages from Feishu, a web socket and an
OpenAI-compatible endpoint, runs an LLM agent per session, keeps sessions and
memories in Redis and SQLite, and scales by running several worker processes
behind one Redis.

Every worker is a single-threaded asyncio process: control changes hands only
at an `await`. The models use that: one action stands for the code between two
awaits that other tasks, workers or the outside world can tell apart. Where
threads do come in (SQLite, the Feishu client), each statement is a step.

## Inventory

| Component | State | Hard because | Correct when |
|---|---|---|---|
| Session-affinity gateway: `gateway/`, `channels/feishu/dedup.py` | affinity and dedup keys in Redis, a pub/sub channel per worker; a worker's id, subscription, memory of messages | workers race on one key, keys expire under a busy worker, crashes, half-open subscriptions, lost replies, redelivery | one copy of a message runs; none is dropped as a duplicate of nothing; a session is run by the worker its key names; nothing hangs |
| Feishu channel: `channels/feishu/handler.py`, `queue.py` | queue, consumer, busy flag and `RunControl` per session id, the current id of a key | handlers interleave at every store access while the consumer runs; rotations cancel consumers; control messages overtake queued ones | a message is run once, in order; a rotation takes nothing of the session that follows it |
| Feishu output: `streaming.py`, `client.py`, `multimodal.py` | card per answer, table of the bot's messages, reaction times | every API call may be refused or raise, in the middle of a run | the user sees what the run said and how it ended |
| Web channel: `channels/web/` | queue, consumer, `RunControl` and approvals per conversation; sockets per user | idle exit, abort and `/stop` race the run's own end; sockets vanish | messages are handled one by one, each has one terminal event; places of sockets come free |
| Agent runner: `core/agent/` | the messages of a run, retry counters, loop detection, deadline | abort, timeouts, provider errors and results race | tool calls have their results; what is shown, kept and reported agree; a run ends |
| Tool approvals: the two hooks, `approval_registry.py`, `card_callback.py` | pending entries, cards, decisions on their way | decisions come early, late, twice, or to another worker | no tool runs without what its tier asks for; the wait ends |
| Session router and store: `channels/session_router.py`, `storage/session/` | header, hash of entries and leaf in Redis | read-modify-write across awaits, pipelines under a lock that is tried once | the branch is whole, and grows; fields stay set |
| Context engine, compaction, LLM client: `core/context_engine.py`, `core/agent/compaction/`, `llm.py` | caches of prompts and archives, working memory in Redis, generators in generators | caches filled after awaits, budgets, cancelled fetches | a summary replaces what it tells of; bounds hold |
| Distributed mutex: `storage/lock/mutex.py` | key with token and TTL, heartbeat, lost flag | late steps, lost replies, shutdown in between | whoever passes `check_alive` has the lock |
| Task manager, worker life: `infra/task_manager.py`, `app.py` | table of tasks, start and shutdown sequence | tasks that ignore their cancellation, events that come meanwhile | no task of the manager finds the stores closed; the shutdown ends |
| Curator: `core/curator*.py`, `core/skill_graduation.py` | rows of SOPs, skill files, the completion marks, the lock | lock loss in mid-cycle, a crash between file and row, users in between | rows match files; marks mean work done; unused SOPs are archived |
| SOP extraction: `core/sop_extraction.py` | recorded turns and lock in Redis | a lock that expires, cancellation, failing models | no turn is dropped unseen; no SOP twice; the lock comes free |
| Memory store: `storage/memory/`, `core/memory_archive.py` | rows, bounded index in Redis, full-text tables, vectors | two stores without a transaction, one connection for all threads | row and index agree, bounds hold |
| MCP integration: `integrations/mcp/` | status, adapters, sessions in one group, registry | restarts overlap with deaths and calls | registered tools reach a session that was built for them |
| Skills: `skills/` | directories, `lock.json`, a cache | installations in several processes | what is installed, listed and viewed agree |
| Commands, tiers and profiles: `core/commands/`, `auth/` | profiles and chosen tiers in Redis over the settings | several reads before a write, reads that fall back | an admin stays; a run gets a tier that was in force |

The rest — settings, logging, the sandbox process, HTTP routes that read and
render, the command line's listings, the front end — is configuration, pure
transformation or I/O.

## The modules

| Module | What it is |
|---|---|
| `MessageOnce` | what the gateway promises: each message is taken up at most once |
| `Gateway`, `MCGateway`, `Gateway_proofs` | routing, claiming, forwarding, deduplication, renewal |
| `SerialSession` | what a web session promises: one message at a time, in order |
| `WebSession`, `MCWebSession`, `WebSession_proofs` | one web conversation: queue, consumer, run, control messages |
| `RotatingSessions` | what a Feishu session key promises across its sessions |
| `FeishuSession`, `MCFeishuSession`, `FeishuSession_proofs` | one Feishu session key in its worker |
| `CriticalSection` | what a mutex promises |
| `DistributedMutex`, `MCDistributedMutex`, `DistributedMutex_proofs` | the Redis lock and its heartbeat |
| `CuratorCycle`, `MCCuratorCycle`, `CuratorCycle_proofs` | the curator's cycle in several workers, with users and the command line |
| `SopExtraction`, `MCSopExtraction`, `SopExtraction_proofs` | recording turns and learning SOPs from them |
| `ToolTurn`, `MCToolTurn`, `ToolTurn_proofs` | loop detection, tiers, approvals in both channels, execution, results |
| `SessionHistory`, `MCSessionHistory`, `SessionHistory_proofs` | the stored tree, those who extend it, compaction |
| `ModelCall`, `WorkerLife`, `WebSockets`, `McpServers`, composed with `WebSession` in `MCServices` | model calls of a run; start and shutdown of a worker; a user's sockets; MCP servers |
| `MemoryStore`, `SkillCatalog`, `PromptContext`, `FeishuAnswer`, `UserTiers`, composed in `MCContents` | memory and index; skills; caches, working memory and budgets of prompts; answers in Feishu; profiles and tiers |

Each component's module names its variables after the code's state and has one
action per stretch of code between two awaits. `PROJECT.json` maps each
definition to its lines. Operators whose comment begins with `Mutant:` are
plausible bugs, not part of the specification: each property is violated when
one of them replaces the definition it stands before.

The components meet at narrow places. `Gateway` ends where `FeishuSession`
begins: `Arrive` there is an event that was routed to this worker and passed
`is_duplicate`; `Gateway` in turn keeps of the session queue only that runs of a
session in one worker are serial. `FeishuAnswer` begins where `FeishuSession`
starts a run and shows only its events; the `Cancel` of its handler is the rotation of
`FeishuSession` or the shutdown of `WorkerLife`. `WebSession` and `FeishuSession` share
`RunControl` and the run loop but no process state. The run itself is cut along
its concerns: `WebSession` has its iterations and its abort, `ModelCall` one
model call after the other, `ToolTurn` the tool calls of its answers,
`SessionHistory` what it stores, `PromptContext` what it sends besides. The
curator uses the lock of `CriticalSection` as `DistributedMutex` implements it:
who passes `check_alive` has it, and it may be lost between two checks.
`CuratorCycle` changes the rows that `MemoryStore` indexes and writes the skills
that `SkillCatalog` lists.


### Gateway

| Code | Model |
|---|---|
| `pyclaw:affinity:<key>` and its TTL | `affinity`, `ttl`; `SetOwner`, `Refresh`, `Tick` |
| `pyclaw:feishu:dedup:<id>`, `FeishuDedup._seen` | `marked`, `seen` |
| a worker's subscription and what is published to it | `subscribed`, `inbox` |
| a handler's position and its local `owner` | `pc`, `at`, `via`, `owner` |
| `AffinityRegistry.resolve`, `renew`, `claim`, `force_claim` | `Resolve`, `Renew`, `Claim`, `ReResolve`, `ForceClaim` |
| `EventForwarder.forward`, its consumer | `Forward`, `PublishReplyLost`, `Consume` |
| `SessionAffinityRouter.route`'s `except` | `RouteError` |
| `is_duplicate` and its fallback | `Dedup`, `DedupFallback` |
| the queue, the run and its renewal loop | `Enqueue`, `StartRun`, `RenewLoop`, `FinishRun` |
| start and end of a process, network, Redis | `Boot`, `Subscribe`, `Ready`, `Crash`, `DropConnection`, `LoseSubscription`, `RedisFails`, `RedisRecovers` |

Every Redis call is a step of its own. A *delivery* is one copy of a message, so
redelivery is several deliveries of one message. Exceptions come in two
families, since `route` catches only `(ConnectionError, TimeoutError, OSError)`
and redis-py's own errors are none of these. `unrenewed` is a history variable that
no action reads: the runs of a session that ended since its key was last set or
refreshed. `EngagedOwnsKey` needs it to say when a key may expire under a worker
that has the session in hand.

### WebSession

| Code | Model |
|---|---|
| `SessionQueue._queues`, `_consumers`, idle exit | `queue`, `consumer`; `Enqueue`, `Wait`, `Take`, `Expire`, `Exit` |
| `RunControl` | `rc` (active, abort, `chat_done_handled_externally`, pending steers) |
| `handle_chat_send`'s run | `StartRun`, `SetUp`, `LoopHead`, `Assemble`, `Stream`, `UseTools`, `Conclude`, `Report`, `Close` |
| a slash command taken from the queue | `RunCommand` |
| a run whose socket is closed and whose generator is closed later | `Abandon`, `CloseAbandoned` |
| `chat.abort`, `/stop`, `/steer` and `/btw` | `Abort`, `Stop`, `Steering` |

`interrupted`, `acceptedIn`, `drained`, `answers` and `outcome` are history: what
was asked of which run, and what a client was told. An idle `/stop` that only
creates a `RunControl` is a stutter; the awaits of hooks before `SteerHook` are
one step with the loop's head; a slash command that puts a text back into the
queue, `chat.queued` events and authentication are left out.

### FeishuSession

| Code | Model |
|---|---|
| `skey:<key>:current`, `last_interaction_at` | `current`, `created`; `age` (none, recent, or old enough to reset) |
| a handler's `session_id`, rotation's `old_id` | `sid`, `old`, `resetting` |
| `FeishuQueueRegistry._entries`, `_busy`, `_run_controls` | `entries`, `queue`, `consumers`, `busy`, `rc` |
| `resolve_or_create`, `check_idle_reset`, `rotate`, `_on_rotated` | `Resolve`, `Create`, `Check`, `Rotate`, `Swap`, `Clean` |
| `/stop`, `/new` and `/reset`, the text after `/new` | `Stop`, `NewCommand`, `Follow` |
| `enqueue`, `_consume` | `Enqueue`, `Start`, `Return`, `Unwound` |
| `_dispatch_and_reply`, `dispatch_message`, `update_last_interaction` | `Dispatch`, `Work`, `EndRun`, `Fail` |

`step` is the await an event is suspended at, first in its handler and later in
its run. The GET of the current id and the load of the header it names are one
step; so are the last check of a plain text and what it asks for, which have no
await between them. `cleanup_session` waits up to five seconds for the cancelled
consumer; in the model the handler may go on at any time after it, which covers
a run that is slow to unwind. A run clears `rc.active` as it ends. The sequence
of sessions is bounded by `MaxSessions`.

### DistributedMutex

| Code | Model |
|---|---|
| the lock key and its TTL | `key`, `ttl` |
| `__aenter__` | `Acquire`, `LoseAcquire`, `Enter`, `FailToSpawn` |
| `_heartbeat` | `Renew`, `Resume`, `FailToRenew` |
| `lost`, `check_alive` | `Lost`, `Works` |
| `__aexit__` | `Leave`, `Release`, `FailToRelease` |
| `TaskManager.shutdown`, the end of a process | `Shutdown`, `Crash` |

A renewal's request and execution are one step and its reply another, so that a
renewal may be executed and its reply lost. Each client is a process with a
`TaskManager` of its own. `Delay[c]` bounds how late client `c`'s timed steps
come: a client is *prompt* when `TTL > Interval + 2 * Delay[c]`. The defaults
(30 s and 10 s, `mutex.py:59-60`) let each step of a prompt client come up to ten
seconds late.

### CuratorCycle

| Code | Model |
|---|---|
| `procedures.status`, use counts and dates | `status`, `stale`, `ripe`; `Use`, `Age`, `Forget` |
| `<workspace>/skills/<name>/SKILL.md` (`skill_graduation.py:144-147`) | `skill`, `Free`, `Write` |
| `create_curator_loop` | `loops`; `Want`, `EndLoop` |
| `CuratorCycle.execute`, `check_alive` | `Acquire`, `Busy`, `FailAcquire`, `Leave`, `Alive` |
| `_run_critical_section`'s `except Exception` | `FailDb`, `FailCycle` |
| `_scan_single_db` of several databases | `SelectStale`, `ArchiveStale`, `FindCandidates`, `WriteSkill`, `MarkGraduated`, `Gathered` |
| `run_llm_review` | `Ask`, `Answer`, `Promote`, `Archive`, `Mark` |
| `CuratorStateStore` | `due`; `MarkScan`, `MarkReview`, `Interval` |
| `/curator restore`, the command line's `graduate` | `Restore`, `Restored`, `ToolSelect`, `ToolWrite`, `ToolMark` |

A Redis error where the loop reads the last scan's time, or where the cycle sets
its lock, ends the loop of that worker (`EndLoop`, `FailAcquire`); only a restart of
its process (`Crash`) brings one back. Such errors cost no event, so that they may
strike at any time and any number of loops.

### SopExtraction

| Code | Model |
|---|---|
| the tracker hook and its eviction | `Record`, `Oldest`, `Evict` |
| compaction, rotation, `/extract` with its rate limit | `Trigger`, `Request` |
| the lock with its constant value | `lock`; `Acquire`, `Release`, `LockExpires` |
| `extract_sop_background` | `Read`, `LoadTree`, `Ask`, `AskInVain`, `Dedup`, `Store`, `Clean` |
| cancellation after 15 s, exceptions, crashes | `GiveUp`, `Abandon`, `Vanish` |

A turn is recorded once and belongs to a session; what a model may learn from a
turn is given by `About`.

### ToolTurn

| Code | Model |
|---|---|
| `_update_tool_loop_state` | `Looped`, `loop` |
| forced tiers, the gate of `run_agent_stream` | `CallTier`, `Refused`, `NeedsApproval`, `Evaluate` |
| the web hook and `tool.approve` | `Ask`, `WakeWeb`, `TimeOutWeb`, `Approve` |
| the Feishu hook, its countdown, `card_callback` | `Posted`, `Countdown`, `Decide`, `Close`, `Click`, `Arrive` |
| `execute_tool_calls` | `Sort`, `Run`, `Finish` |

A click is answered with the new card in Feishu's thread and recorded by the
loop later, so that a click is two steps.

### SessionHistory

| Code | Model |
|---|---|
| `session:<id>:header`, `:entries`, `:leaf`, `session-lock` | `header`, `entries`, `leaf`, `lock` |
| the `SessionTree` an actor has loaded | `tree`; `Load`, `LoadLeaf`, `Branch` |
| `append_entry`, one command of a pipeline after the other | `AppendEntry`, `HSet`, `SetLeaf`, `Fail`; `Unlock`, `LockExpires` |
| a run, `/model`, `/compact`, PATCH, `update_last_interaction`, DELETE | the actors `run`, `model`, `compact`, `title`, `touch`, `delete` |
| `build_session_context`, `plan_compaction`, `compact` | `Context`, `CutPoint`, `ShouldCompact`, `Compaction` |

Entries are numbered as they are created; a message counts one token. `overtaken`
remembers whose tree or header is no longer the stored one: what such a writer
destroys is excused by `HistoryIsKept` and nothing else is. A branch or a context
is the set of its entries: their numbers are their order, with the summary
before all of a context. `load` is a pipeline but no transaction
(`redis.py:75-98`), so that a tree may lack the leaf it names, or an entry below it;
if such a run compacts, its summary tells only of what it has read, and
`overtaken.unread` remembers the entries it should have read. Exactly what lies
below these, and what a plan wanted to keep word for word, may be missing from
prompts and summaries (`PromptTellsHistory`). The release of the lock after a failed
append may fail as well and leave the lock to its TTL; that a lock expires costs a
fault only while its owner writes.

### ModelCall, WorkerLife, WebSockets, McpServers

| Code | Model |
|---|---|
| `LLMClient.stream`, `iterate_with_idle_timeout` | `Resolve`, `Objection`, `Open`, `Send`, `StreamResumes`, `IdlePasses` |
| `iterate_with_deadline`, `run_with_timeout` | `RunResumes`, `DeadlinePasses` |
| the runner's handling of chunks, ends and errors | `TakeChunk`, `Answered`, `TakeError`, `StopCall`, `Finish` |
| `_stream_sse`, `_complete_response` | `SseReply`, `JsonReply` |
| `_lifespan` of the application | `StartStep`, `StartFails`, `Stop`, `Deregister`, `FeishuStop`, `McpStop`, `CloseStore` |
| `TaskManager` | `Spawn`, `TaskEnds`, `TaskSpawns`, `Close`, `GracePasses`, `Drained`, `Result` |
| `websocket_endpoint`, `_heartbeat_loop`, `ConnectionRegistry` | `Accept`, `Identify`, `Serve`, `Beat`, `Pong`, `Depart`, `Leave`, `Disconnect` |
| `_connect_one`, `attach_and_register` | `Enter`, `Admit`, `Build`, `Connected`, `Collides`, `NotConnected`, `Attach` |
| `restart_server`, a call, `_handle_server_death` | `Restart`, `StripOld`, `Call`, `Gone`, `Report`, `HandleDeath` |

The SDK's session group and the providers are external: `Admit` and `Send` say
of them what the code relies on.

### MemoryStore, SkillCatalog, PromptContext, FeishuAnswer, UserTiers

| Code | Model |
|---|---|
| `SqliteMemoryBackend`, `RedisL1Index`, `CompositeMemoryStore` | `Insert`, `PutIndex`, `EvictOne`, `ArchiveRow`, `CountChanges`, `Unindex`, `InsertVector`, `MigrateFts` |
| `discover_skills`, `filter_eligible`, `build_skills_prompt` | `Discover`, `Offer`, `Bisect`, `Catalog` |
| `install_skill`, `update_lock_json` | `Download` to `WriteOrigin`, `ReadLock`, `WriteLock` |
| the caches of `DefaultContextEngine` | `Bootstrap`, `Snapshot`, `Recall` and their `Keep...`; `Finish` |
| `UpdateWorkingMemoryTool` | `HGet`, `HSet`, `RPush`, `LPop`, `HDel`, `Cut` |
| `enforce_system_budget`, `split_into_chunks`, `dedupe_duplicate_user_messages` | `EnforceBudget`, `SplitIntoChunks`, `Dedupe` |
| `stream_agent_reply`, `FeishuStreamingCard` | `CreateCard`, `ReplyCard`, `Chunk`, `UpdateCard`, `RunEnds`, `Finish`, `CloseCard`, `Fallback` |
| the cancellation of a handler (`queue.py:67-74`, shutdown) | `Cancel`, `Unawaited` |
| reactions, the table of the bot's messages | `React`, `Known`, `Spaced`, `Note`, `GrowOld` |
| `/admin user set`, `RedisJsonStore` | `Admit`, `Fetch`, `Scan`, `LookUp`, `Judge`, `Save` |
| `/tier`, `resolve_effective_tier` | `ChooseTier`, `BeginInChat`, `BeginInWeb`, `Resolve` |

## What is checked

| Run | Instance | What it shows |
|---|---|---|
| `gateway_faults` | 2 workers, 3 copies of 1 message, TTL 1, any 2 faults of crash, lost host, broken subscription, outage | two copies pass `is_duplicate` only on the memories of two processes, and a copy is rejected only if another was taken (`CopiesAreJudged`); nothing is forwarded to a booting worker (`ForwardReachesReadyWorker`) |
| `gateway_live` | 2 workers, 2 messages, 3 deliveries, TTL 2, renewal 1, 1 fault, Redis up | `MessageOnce` is implemented; no event waits or bounces for ever (`DeliverySettles`); until a fault strikes the key names whoever has the session in hand, or expired under runs too short to renew it (`EngagedOwnsKey`) |
| `web` | 2 messages, 2 steers, all that client and clock may do | neither aborts nor steers leak from one run into another (`RunsStayApart`) |
| `mutex` | 3 clients, 1 of them late, 3 tokens, TTL 5, interval 2, lost replies, crashes, shutdowns | `CriticalSection` is implemented by the prompt clients; whoever passes `check_alive` has the lock and only the holder deletes the key (`LockIsKept`); a late client learns of its loss; every lock comes free |
| `feishu_session` | 3 events of any of the kinds, 5 sessions | `RotatingSessions` is implemented; a `/stop` stays in its session; what waits has a consumer and the idle guard sees the current run (`SessionsAreServed`); every event comes to an end |
| `curator` | 2 workers, 2 SOPs of one name in one database, another without any, 1 fault or user, any errors that end loops | rows and files match and a review that lost the lock writes one row at most (`GraduationIsSafe`); `ScanMarkedMeansScanned`; an unused SOP is archived in the end, as long as one loop is left (`UnusedIsArchived`) |
| `sops` | 2 tasks, 3 turns, 3 extractions, 2 faults | every overrun of the lock lets in one extraction more and nothing else does (`ExtractionsBounded`); turns stay until a model has answered for them, no SOP twice (`ExtractionIsSafe`); `LockComesFree` |
| `tools` | 3 calls, 2 in an answer, all tiers and channels, 2 decisions, 1 change of the registry | calls run as allowed, are answered once, and cards tell what happened (`CallsAreSettled`); `TurnsEnd` |
| `session` | 2 runs, 2 commands, 5 entries, 1 fault | branch and prompts are whole (`HistoryIsWhole`); nothing leaves the branch or the header but through an overtaken writer (`HistoryIsKept`) |
| `session_kept` | the same | violated: a compaction loses the recent messages it means to keep, for the same run and later ones |
| `services` | five parts, below; of the web session: 3 messages, `chat.abort`, closing sockets | `SerialSession` is implemented; one terminal event per message (`OneAnswer`); every message is answered unless its socket closes (`EveryMessageAnswered`); `RunsTellTheTruth`, `RunEnds`; `ShutdownIsClean`, `ShutdownEnds`; `SocketsAreCounted`, `PlaceComesFree`; `ToolsFitServers`, `DeadToolsLeave` |
| `contents` | five components, below | `StoresAgree`, `CatalogIsSound`, `PromptsFit`, `AnswersReachUsers`, `TiersHold` |

`MCServices` and `MCContents` each put small components that share no state into
one run: the variable `part` is chosen in the initial state, only the machine of
that part moves, and the properties and the fairness of a component speak of
its part only. TLC thus explores the sum of the components' state spaces, not
their product, and each component as if it were alone. The part `functions` of
`MCContents` is one state in which pure functions are checked over all their
small inputs: the catalog that the bisection finds is the largest that fits
(`CatalogIsLargest`), budgets and chunks keep their sizes (`BudgetsFit`).

`TypeOK` and the conjuncts of a property are defined beside it in each module;
for `Gateway`, `WebSession`, `FeishuSession` and `DistributedMutex` it is a
conjunct of `CopiesAreJudged`, `RunsStayApart`, `SessionsAreServed` and
`LockIsKept`.

### Bounds, and why they are enough

- Gateway: two workers and three copies let two copies race on one worker and a
  third on the other; the races of one message need no second session, for the
  keys of different sessions do not meet. Arbitrarily slow handlers are covered
  by `gateway_faults` with a TTL of one tick, so that a key may expire between
  any two steps; `gateway_live` has handlers faster than a tick and a TTL that
  one run can keep up by its renewals and two short runs can outlive. Two faults are enough for the second
  to strike during the recovery from the first.
- WebSession: three messages put one in hand, one behind it and one that arrives
  at its end; two iterations of the run loop reach "again" and "last". With all
  of the environment, in `web`, two messages and two steers: what leaks
  from a run leaks into the next.
- FeishuSession: three events are one in hand, one queued or rotating and one that
  interferes. Each event opens at most one session by creation and at most one
  by rotation, of which five are enough for three events: `EveryEventSettles`
  would fail if an event were stuck for want of a session.
- DistributedMutex: two clients compete while a third, late one, still believes in
  a lock it has lost. A token is drawn once, so three tokens are three
  acquisitions: a holder that is late, its successor, and that one's.
- CuratorCycle: two SOPs that want one skill name, in one database, and a second database
  that may be scanned while the first fails; two workers, for the lock passes once.
- SopExtraction: three turns fill a hash bounded by two, three extractions are a
  holder that overran, its successor, and who gets in when the first deletes
  the second's lock; two kinds of SOP tell a duplicate from another.
- ToolTurn: two calls in an answer, one of a builtin tool and one of an MCP tool,
  and a third in the next; the threshold of two makes the loop detection warn
  and end; two clicks may contradict each other.
- SessionHistory: five entries with a budget of two tokens reach a compaction in
  each of two runs; two commands may overtake the run and each other. A run
  that compacts a tree it has read in part takes eight entries; the theorem covers it.
- ModelCall: three iterations with one retry, two chunks (one that is text and one
  that is not), one fault. WorkerLife: the standing tasks of the code and one
  more, one event. WebSockets: one socket more than the limit. McpServers: two
  servers with a tool of the same name, two tasks that restart or call, two
  connections of a server.
- MemoryStore: three entries of which two fit, two archived sessions. SkillCatalog:
  two skills with two versions, two installers. PromptContext: two sessions, a
  cache of one archive, two runs and two updates. FeishuAnswer: two messages, one
  of which may be a reaction. Each with one failure, and in FeishuAnswer one of the two
  handlers may be cancelled besides, wherever it waits (`OneIsCut`).
- UserTiers: two users, one an admin by the settings. Commands and runs disturb
  each other only through the two keys they read, so they are explored in two
  parts: three overlapping `/admin user set role=` without runs (`admins`), and
  one command next to runs (`tiers`). All of it at once exceeds ten million
  states.
- `MaxFaults`, `MaxEvents`, `MaxIterations`, `MaxSessions` and the other `Max...` are
  bounds on counters; `CapCount` and `CapChars` are the code's own (5 messages and
  2000 characters), scaled down. In `MCContents` the first skill's latest version
  is fixed, as the two versions may change their names.

### Fairness

- Gateway: the event loop resumes every handler, run and consumer (weak fairness
  of each), the consumer subscribes again after a loss, as its loop does, a run
  ends, and Redis comes back. Nothing is assumed of arrivals, faults or of a
  worker's start.
- WebSession: the event loop resumes the consumer and the run, whose awaits are
  bounded by the timeouts of `RunTimeouts`; an abandoned generator is closed by
  the garbage collector's hook.
- FeishuSession: the event loop resumes handlers and consumers; a run ends by its
  timeouts. The clock need not advance and no event need arrive.
- DistributedMutex: time passes, and the event loop resumes a client that has the lock's
  answer, a heartbeat that is due and a release that is asked for.
  `LockComesFree` assumes in addition that a cycle ends (`FiniteCycles`), which
  its model calls' timeouts see to; `LossIsNoticed` does not.
- CuratorCycle: the event loop resumes a cycle, a worker's loop that still runs looks
  again after its interval, the key of a dead worker expires, and the interval of the
  scan passes. No loop has to end, none has to be started again, and of a worker
  whose loop has ended nothing is assumed but that a cycle of its `/curator` goes on. SopExtraction: tasks are resumed and keys expire.
- ToolTurn: the runner is resumed and its waits time out; the user need not decide.
- ModelCall: the run and the stream are resumed and the deadline passes; the provider
  need not answer. WorkerLife: the shutdown goes on and its grace period
  passes; tasks need not end. WebSockets: the endpoint and the heartbeat are
  resumed; clients need not. McpServers: connects and calls return, as their
  timeouts see to.

## What is proved

The theorems hold for all values of the constants that satisfy the modules'
assumptions; tlapm checks them to the last leaf. No assumption but those of the
modules is used.

- **Gateway_proofs.** `TypeCorrect`; then `DedupInv`, an invariant that says where a
  delivery may be (in at most one inbox or queue, of the worker it was given
  to), that whoever passed by Redis left its mark there (`RedisMarked`), that
  whoever passed by the fallback is in its process's memory (`MemorySeen`), and that
  every mark and every memory stems from a copy that was taken (`TakenInv`). The conjuncts about
  placement are needed because a worker's memory argues only for copies that
  this worker has. `DedupIsSound` and `DuplicatesWereTaken` are its conjuncts, `CopiesJudged` is both.
  With `"outage" \notin Faults` nobody falls back to memory, so two copies never
  both pass: `AtMostOnceWithoutOutage`, and from it, by a case per action,
  `GatewayImplementsMessageOnce`.
  Of the keys, `AddressInv` says that every worker that a key names, that a
  handler has read as owner or that was published to was ready once, and `Ready`
  is not repeated under one id, so `ForwardedToReadyWorkers` holds for all faults.
  `EngagedWorkersOwnTheirKeys` assumes prompt handlers and that a worker
  subscribes before it is ready, as `gateway_live` does (the consumer is spawned
  before the channel is started, `app.py:190`, but its SUBSCRIBE is not awaited). `KeysAreExplained` is its invariant: the runs of a
  worker's session form a queue with one head (`QueueInv`); before the first fault,
  what a handler has just read of a key is still so or the key has changed in
  its favour (`HeardInv`); and the time a key has lost since its last renewal is
  at most one interval for each run that ended since and what the run in hand
  has waited (`AgeInv`). The last one says what a mere "the key is theirs" does not:
  the renewals of one run keep the key, a row of short runs does not.
- **WebSession_proofs.** A lemma (`StepEffect`) sorts the actions by what they do to
  the run, its control and the queue; the invariants are then shown step by
  step against those few effects. `AbortsHaveCauses` needs that the event is
  cleared whenever no message is in hand (`AbortInv`), `SteersStayInRun` that what
  is pending or drained was accepted in the current run and that the control is
  active only during it (`SteerInv`). `HandlesInOrder` refines `SerialSession` if the
  idle exit is not in the environment (`FifoInv` excludes it); with it, a
  message may be lost (below). `RunsAreApart` joins the three invariants.
  `AnswersOnce` excludes `/stop`, whose mark may outlive its run (below), and needs
  that a message in hand has had no terminal event before its run ends.
- **FeishuSession_proofs.** `SessionInv`: whoever waits is in its session's queue once,
  and a queue that is not empty has an entry and a consumer (`QueueInv`); one
  run per session (`OneRun`); what a rotation cleans up was left before, so runs
  that unwind are never of the current session and cannot clear its busy flag
  (`BusyInv`). From it `TypeCorrect`, `GuardIsRight` (together `SessionsServed`), with `StopInv` (an abort event
  that is set stems from a `/stop` in its session) `StopStays`, and the refinement
  `SessionsRotate`, where a rotation is the abstract `Drop` and the end of a run the
  abstract `Conclude`.
- **DistributedMutex_proofs.** `TokenInv`: no two clients have one token. `LeaseInv`: for
  a prompt client that was not told of a loss, the key is its token and the
  TTL left exceeds what may pass until its heartbeat acts. From these
  `AliveClientsHaveLock`, `OnlyHoldersRelease` (together `LockKept`) and the refinement of `CriticalSection`.
- **CuratorCycle_proofs.** The invariant says of each worker which scans may be where
  at each stage of its cycle (`ScanInv`), that what it has in hand while it scans
  or promotes has its SKILL.md, and one thing only in a review (`HandInv`), and that
  a review which changed a row after a loss is on its way out (`LateInv`); and of
  each row that is active with a skill of its own that somebody is about to mark
  it (`RowInv`). A step of one worker leaves the others as they are, and a skill
  file is never overwritten: `UntouchedInv` carries their part, so that each action
  is looked at for its own worker and for the rows only. `SafeGraduation` and
  `MarkedIsScanned` follow.
- **SopExtraction_proofs.** `SopInv`: whoever extracts holds the lock or was counted as
  overrun (from which `OneExtraction`); what a task is about to delete it has read
  or dropped for a known reason, without an overlap one task is at work, and
  what it is about to store has no row; only the turn recorded last may exceed
  the bound of the hash. `SafeExtraction` joins the last three.
- **ToolTurn_proofs.** `TurnInv` says for each phase which calls still await a decision,
  wait, were refused or are to be executed (`PhaseInv`), what results they have
  (`AnswerInv`), and that nothing is recorded of a call, nor shown on a card, before it
  was asked about (`SaidInv`). What is neither refused nor waiting is permitted already
  before it runs (`PermitInv`). The part about cards needs the clicks on their
  way: the pending entry holds what the card shows, or a click for this call is in
  the inbox, and the last one of them is what the card shows (`CardInv`); the order
  of the inbox is what makes the card right. `DecidingInv` keeps the rest of the
  invariant through all steps of users and hooks, `SettlingInv` through the four ways
  in which a wait ends. `SettledCalls` follows. That the loop detection takes a name from
  the answer at all is `MinIn`, by the library's theorem on minimal elements.

- **SessionHistory_proofs.** `HistoryInv` has four parts beside the types. `StoreInv`:
  an entry's parent was stored before it, and a summary with the plans below it tells of
  all the branch below it that its run had read. `TreesInv`: the trees in memory
  and the store agree on every entry they share, and no two actors have one entry in
  hand. `LeafInv`: who is not overtaken has all of the branch of the leaf he saw, and until
  a deletion that is the stored one. `HeaderInv` says the same of headers. The first two
  speak of all trees, overtaken ones too, for these are the ones that are
  written later: a compaction of a torn tree must still be accounted for when it becomes
  the stored branch. Branches are recursive functions, and the library's induction
  theorems cannot be instantiated here; instead, that a branch is what its definition says
  (`BranchDef`) and what holds along it are shown by a least counterexample, whose
  existence (`LeastIn`) the library's theorem on minimal elements gives: where a branch leads (`BranchBelow`, `Between`,
  `Below`), that copies with the same entries have the same branches (`SubBranch`,
  `Closed`), that a new entry changes none (`Grown`). `Told` joins a summary with what follows it,
  `CompactionTells` shows what a new summary tells, `Copied` that it tells as much in the
  store as in its writer's tree. Then one step per action; `WholeHistory` follows
  from the invariant, `KeptHistory` from what each action writes under it.

Only model-checked: everything temporal under fairness (`DeliverySettles`,
`EveryMessageAnswered`, `EveryEventSettles`, `LockComesFree`, `LossIsNoticed`,
`UnusedIsArchived`, `TurnsEnd`, `RunEnds`, `ShutdownEnds`, `PlaceComesFree`,
`DeadToolsLeave`), which is out of the prover's reach; the properties of the modules
without a `_proofs` module (the parts of `MCServices` and `MCContents` but
`WebSession`); and the pure functions, some of which are
recursive.

## What the checks found

One run is expected to fail. `session_kept` checks what
docs/en/compaction-guide.md:3 says of compaction, "keeping the most recent exchanges
intact" (`:37` of `keep_recent_tokens`: "Minimum tokens of recent messages preserved
uncompacted."), and finds them lost: the summary ends where the recent messages
begin, but the new entry names the leaf as the first one that is kept
(`core/agent/runner.py:975`), so the messages in between are in neither the
summary nor any prompt after it: the run itself goes on with what is left, and
later runs load no more.

What follows was met while the models were written; the models do what the code
does, and the properties are those that hold all the same. Where a property has to
excuse such a case, its comment names the excuse, and the hazard's note in
`PROJECT.json` says what is left that it forbids.

Gateway. The renewal loop belongs to a run and sleeps before its first renewal
(`handler.py:37`, spawned at `:526`), so a row of queued runs that are each shorter
than the interval outlives the key (with the defaults, 300 s and 60 s, six runs
of 50 s), and another worker may claim a session that this one has in hand. A
first form of `EngagedOwnsKey` said that this cannot happen and TLC refuted it
with a TTL of two intervals; docs/en/configuration.md:200 has the workers refresh
the key "every `renewal_interval` seconds via heartbeat". `route` catches only built-in connection errors
(`router.py:30`). Two workers that find one owner unreachable may both
`force_claim` and both process locally (`router.py:60`), where README.md:330
has one owner; each message still runs once.

Web channel. `chat_done_handled_externally` outlives a run if `/stop` comes at its
end (`chat.py:597`), and a late steer is acknowledged and never seen. A `/stop`
that meets the run's end may send a second `chat.done`
(`protocol_ops.py:21`). A consumer that expires while a message is put in its
queue leaves with it (`chat.py:186-188`, `:203`). An abandoned generator's
`on_run_end` may run during the next run (`steer_hook.py:44`). A socket that leaves between
`connect()` (`websocket.py:141`) and the `try` (`:178`) is counted for ever.

Feishu channel. `/stop` sets the abort event of the session's `RunControl`, which no
later run clears (`queue.py:60`; scripts/e2e_phase3_feishu_checklist.md:743-751
expects the next message to be answered). The idle reset cancels a run that is
longer than the idle time (docs/en/architecture-decisions.md:164). `/new`'s idle
guard looks before the rotation's first await. `/idle off` stores no override,
so the deployment's timeout stays in force (`builtin.py:98-115`).

Feishu answers. A refused card reply leaves an invisible card that is updated as if
it were shown (`streaming.py:88`); the text path ignores `ErrorEvent`; an
exception of `card.update` ends the run and leaves the card streaming; a message
of images whose download fails is dropped after its id is spent
(`handler.py:436`). A rotation or the shutdown cancels the handler, and
`CancelledError` passes both `except Exception` (`handler.py:669`, `queue.py:82`):
neither the end nor the fallback is sent, and the card stays streaming for ever.
`AnswerIsSeen` and `EveryEndIsTold` promise nothing of such an answer. The `finish` of
what has accumulated (`handler.py:667`) is never reached by a run that is not cancelled,
since each ends with `Done`, `ErrorEvent` or an exception. Reactions are known only to the worker that sent the answer.

Distributed mutex. After one failed renewal the heartbeat waits another interval,
and a second client may be in while the first has not looked
(README.md:186, `mutex.py:188`); whoever looks is right.

Agent runner. A provider's error after the first chunk is not an `LLMError`: no
`ErrorEvent`, the partial text is lost, hooks hear "done" (`runner.py:155-181`
documents otherwise). The idle timeout does not cover the opening of a call.
The loop detection compares the model's names (`server__tool`) with the
registry's (`server:tool`), so that MCP tools count as unknown; a warning leaves
the answer's tool calls without results. `history_budget` 0 switches trimming
off (`runner.py:405`); `dynamic_zone_tokens` is never enforced. The OpenAI
endpoint runs a session without its queue.

Approvals. Web requests are shown at once and registered one by one: an early
decision for the second is lost. The wait does not end on an abort, and aborted
tools are still started. A click after the timeout shows "approved" for a call
that was denied. A Feishu click counts only in the worker that has the run.

Sessions. The session lock covers an append, not load-to-append: `/model` or
`/compact` beside a run loses entries, and a concurrent append fails the run
with `SessionLockError`; a release that fails leaves the lock to its TTL, during which every
append fails. `load` reads the entries and then the leaf, without a
transaction (`redis.py:75-98`): a `/model` that appends in between leaves the run a tree
without its leaf, of which its prompt shows nothing, and if it then compacts, later prompts miss
the messages below as well. A first form of `PromptTellsHistory` did not except these;
the attempt to prove it failed there, and TLC shows it with eight entries. `delete_session` looks and then deletes
(`redis.py:214-217`); a deletion during a run leaves entries without a header.
`compaction.threshold` is never read, and the compaction upon an overflow finds
nothing to compact.

Prompts. A failed `index_get` caches an empty memory for the session's life
(`context_engine.py:136`); the bootstrap cache is never refreshed; the archive
cache evicts the oldest entry even to replace its own. `update_working_memory` cut between `hset` and
`rpush` leaves a key that is never evicted. Deduplication of messages ignores
the 60 s of docs/en/compaction-guide.md:65.

Curator. `create_curator_loop` catches only `CancelledError` (`curator.py:170`): a Redis
error in `seed_if_missing` or `get_last_scan_at` (`:141`, `:147`), or in the SET of
the lock (`curator_cycle.py:95-109` catches only `LockAcquireError`), ends the worker's loop
for good. One outage can end the loops of all workers, and then no scan runs
until a process is restarted; `UnusedIsArchived` says what holds as long as one
loop is left, and TLC finds it violated without that clause. The completion mark of a scan is set although a database's
`LockLostError` was collected (`curator.py:203`). An SOP that was forgotten or
used after its selection may still be graduated or archived; a skill file
whose SOP was not marked keeps that SOP from ever graduating.

SOP extraction. `_cleanup` deletes turns that were recorded during the extraction
(`sop_extraction.py:548`); two failed model calls drop the candidates. The
lock's value is constant, so that an extraction that overran deletes its
successor's lock; one that is cancelled between SET and reply leaves it to its TTL.

Memory. `conn.changes()` is read on a connection that all threads share; an entry
forgotten between INSERT and HSET is indexed again; the index is not rebuilt
from SQLite after its TTL. The flag that a database's full-text tables have to be
rebuilt belongs to the backend: a database that is opened at the same time in
another thread may clear it (`sqlite.py:140`).

MCP. The manager never takes a session out of the group, so the restart of a
connected server collides with its own old tools; a late report of a death
removes the tools of the connection that followed.

Worker. A heartbeat between deregistration and the end of its task lists the
worker again (`app.py:384-397`); a failed startup runs no shutdown; events forwarded
after Feishu has stopped are claimed and lost; handlers of the webhook are
unknown to the `TaskManager` and may find the stores closed.

Skills. The cache of skills is shared by all workspaces (`provider.py:24`), so
`skill_view` may miss a skill that was listed (`skill_view.py:11-14`);
`/skills install` writes to a directory that discovery does not scan by default;
the checksum compared is the latest version's, also for `--version`
(`installer.py:122-127`); two processes may lose each other's entry of `lock.json`.

Tiers. Overlapping demotions may leave no admin. A failed GET falls back to the
settings, and `/admin user set` writes what it fell back to. Reading a profile
does not extend its 30 days (docs/en/multi-user-deployment.md:68 says "sliding
window"). `/tier` and `/status` without argument ignore the user's
`tier_default`. Two changes between a run's two reads may give it a tier that
was never in force.

## What is not modelled

- Several sessions in one module, except in `SessionHistory`, `PromptContext` and
  `SopExtraction` where sessions share something: otherwise they share only the
  event loop.
- `/resume`, which makes an older Feishu session current again. `RotatingSessions`
  holds of a key on which it is not used.
- The run as a whole: its concerns are modelled one by one, and what one of them
  leaves open (a tool's result, a model's answer, the length of a run) is a
  choice in the others. Tools' own work is a choice too.
- `AffinityRegistry.release`, which nobody calls, and the `force_claim` of a web
  connection; steering in Feishu, whose buffer is that of `WebSession`; group
  context; the in-memory stores of tests and single-process deployments.
- Texts: prompts, summaries, cards, reports, rankings, token estimates, parsing of
  procedures and of frames.
- The sandbox process, providers, the Feishu API, SDKs, SQLite and Redis: external;
  the models say of them what the code relies on.
- Settings, logging, audit, HTTP routes that read and render, the front end.
- Partial Redis pipelines except where the code recovers from them; clock skew
  between workers (the code compares no clocks of two workers).

## Next

- Proofs for the parts of `MCServices` and `MCContents`: `SocketsAreCounted`
  (`WebSockets`) first, then `AnAdminStays` and `WithinLimit`.
- `/resume` in `FeishuSession`, with an abstract specification in which a session may
  come back.
- The run loop as one composition of `ModelCall`, `ToolTurn` and `SessionHistory`.

--------------------------- MODULE SopExtraction ---------------------------
(***************************************************************************)
(* Learning SOPs from sessions.  The tracker hook records in Redis every   *)
(* turn that used tools; at a compaction, a rotation or a user's /extract  *)
(* a task takes the session's extraction lock, shows the recorded turns to *)
(* a model and stores what it answers as L3 memory, then deletes the       *)
(* records.  The lock is a key with a TTL and a constant value that is     *)
(* never renewed, and it is deleted without a look at who holds it.        *)
(***************************************************************************)
EXTENDS Naturals, FiniteSets, FiniteSetsExt

CONSTANTS
    Client,          \* tasks that may extract
    Session,         \* sessions of one session key, sharing one memory
    NoSession,       \* no session
    Turns,           \* number of turns that use tools, of all sessions
    In,              \* [Turn -> its session]
    Tools,           \* [Turn -> number of its tool calls]
    Kind,            \* procedures that the dedup search can tell apart
    About,           \* [Turn -> the procedure it shows]
    Synthetic,       \* turns whose tool calls have no id
    MinToolCalls,    \* min_tool_calls_for_extraction
    MaxCandidates,   \* max_candidates
    EvictionBatch,   \* EVICTION_BATCH
    MaxSops,         \* max_sops_per_extraction
    MaxExtractions,  \* bound on the triggers
    MaxEvents        \* bound on what goes wrong

Turn == 1..Turns     \* in the order of their timestamps

ASSUME SopAssumption ==
    /\ IsFiniteSet(Client)
    /\ NoSession \notin Session
    /\ Turns \in Nat
    /\ In \in [Turn -> Session]
    /\ Tools \in [Turn -> Nat]
    /\ About \in [Turn -> Kind]
    /\ Synthetic \subseteq Turn
    /\ MinToolCalls \in Nat /\ MaxCandidates \in Nat
    /\ EvictionBatch \in Nat \ {0} /\ MaxSops \in Nat
    /\ MaxExtractions \in Nat /\ MaxEvents \in Nat

VARIABLES
    recorded,    \* turns whose record the tracker has written
    candidates,  \* records in the sessions' hashes
    tracking,    \* sessions whose tracker is about to evict
    lock,        \* sessions whose extraction lock exists
    limited,     \* the user's rate limit key exists
    sops,        \* [Kind -> number of its active rows]
    stage,       \* [Client -> where it is]
    of,          \* [Client -> its session]
    byUser,      \* clients that run for /extract
    seen,        \* [Client -> turns it has read]
    answer,      \* [Client -> the model's SOPs not yet dealt with]
    hand,        \* [Client -> the SOP found to be new, or none]
    shown,       \* history: turns a model has answered for
    dropped,     \* history: turns given up for a known reason
    overruns,    \* history: [Session -> locks that expired under an extraction]
    overlap,     \* history: two extractions were under way at a time
    blind,       \* history: a dedup search failed
    unevicted,   \* history: an eviction failed
    extractions, events

redis   == <<candidates, lock, limited>>
task    == <<stage, of, byUser, seen, answer, hand>>
history == <<shown, dropped, overruns, overlap, blind, unevicted>>
bounds  == <<extractions, events>>
vars    == <<recorded, tracking, redis, sops, task, history, bounds>>

Outside == {"idle", "count", "acquire"}
Stages == Outside \cup {"spawn", "read", "load", "ask", "dedup", "store", "clean", "release"}

Init ==
    /\ recorded = {}
    /\ candidates = {}
    /\ tracking = {}
    /\ lock = {}
    /\ limited = FALSE
    /\ sops = [k \in Kind |-> 0]
    /\ stage = [c \in Client |-> "idle"]
    /\ of = [c \in Client |-> NoSession]
    /\ byUser = {}
    /\ seen = [c \in Client |-> {}]
    /\ answer = [c \in Client |-> {}]
    /\ hand = [c \in Client |-> {}]
    /\ shown = {}
    /\ dropped = {}
    /\ overruns = [s \in Session |-> 0]
    /\ overlap = FALSE
    /\ blind = FALSE
    /\ unevicted = FALSE
    /\ extractions = 0
    /\ events = 0

-----------------------------------------------------------------------------
Candidates(s) == {t \in candidates : In[t] = s}
Inside(s) == {c \in Client : of[c] = s /\ stage[c] \notin Outside}

Event == events < MaxEvents /\ events' = events + 1 /\ UNCHANGED extractions

GoTo(c, s) ==
    /\ stage' = [stage EXCEPT ![c] = s]
    /\ UNCHANGED <<of, byUser, seen, answer, hand>>

Return(c) ==
    /\ stage' = [stage EXCEPT ![c] = "idle"]
    /\ byUser' = byUser \ {c}
    /\ seen' = [seen EXCEPT ![c] = {}]
    /\ answer' = [answer EXCEPT ![c] = {}]
    /\ hand' = [hand EXCEPT ![c] = {}]
    /\ of' = [of EXCEPT ![c] = NoSession]

-----------------------------------------------------------------------------
(* The tracker.                                                            *)

\* The turn's assistant message is in the session already.
Record(t) ==
    /\ recorded = 1..(t - 1)
    /\ In[t] \notin tracking
    /\ recorded' = recorded \cup {t}
    /\ candidates' = candidates \cup {t}
    /\ tracking' = tracking \cup {In[t]}
    /\ UNCHANGED <<lock, limited, sops, task, history, bounds>>

Oldest(S, n) == {t \in S : Cardinality({u \in S : u < t}) < n}

Evict(s) ==
    LET over == Cardinality(Candidates(s)) > MaxCandidates
        old == IF over THEN Oldest(Candidates(s), EvictionBatch) ELSE {}
    IN  /\ s \in tracking
        /\ tracking' = tracking \ {s}
        /\ candidates' = candidates \ old
        /\ dropped' = dropped \cup old
        /\ UNCHANGED <<recorded, lock, limited, sops, task, shown, overruns, overlap,
                       blind, unevicted, bounds>>

FailEvict(s) ==
    /\ s \in tracking
    /\ Event
    /\ tracking' = tracking \ {s}
    /\ unevicted' = TRUE
    /\ UNCHANGED <<recorded, redis, sops, task, shown, dropped, overruns, overlap, blind>>

-----------------------------------------------------------------------------
(* The triggers.                                                           *)

Begin(c, s) ==
    /\ stage[c] = "idle"
    /\ extractions < MaxExtractions
    /\ extractions' = extractions + 1
    /\ stage' = [stage EXCEPT ![c] = "count"]
    /\ of' = [of EXCEPT ![c] = s]
    /\ UNCHANGED <<seen, answer, hand, events>>

\* The session was compacted or rotated.
Trigger(c, s) ==
    /\ Begin(c, s)
    /\ UNCHANGED <<recorded, tracking, redis, sops, byUser, history>>

\* /extract or POST /api/extract.
Request(c, s) ==
    /\ ~limited
    /\ limited' = TRUE
    /\ Begin(c, s)
    /\ byUser' = byUser \cup {c}
    /\ UNCHANGED <<recorded, tracking, candidates, lock, sops, history>>

\* After 60 s; the 15 s of the request are over.
LimitExpires ==
    /\ limited
    /\ byUser = {}
    /\ limited' = FALSE
    /\ UNCHANGED <<recorded, tracking, candidates, lock, sops, task, history, bounds>>

Threshold(c) == IF c \in byUser THEN 1 ELSE MinToolCalls

ToolCalls(S) == MapThenSumSet(LAMBDA t : Tools[t], S)

Count(c) ==
    /\ stage[c] = "count"
    /\ IF ToolCalls(Candidates(of[c])) >= Threshold(c) THEN GoTo(c, "acquire") ELSE Return(c)
    /\ UNCHANGED <<recorded, tracking, redis, sops, history, bounds>>

\* Mutant: the lock is SET without NX.
AcquireNotNx(c) ==
    /\ stage[c] = "acquire"
    /\ lock' = lock \cup {of[c]}
    /\ overlap' = (overlap \/ \E s \in Session : Inside(s) # {})
    /\ GoTo(c, IF c \in byUser THEN "read" ELSE "spawn")
    /\ UNCHANGED <<recorded, tracking, candidates, limited, sops, shown, dropped, overruns,
                   blind, unevicted, bounds>>

\* SET NX EX.
Acquire(c) ==
    /\ stage[c] = "acquire"
    /\ IF of[c] \in lock
       THEN Return(c) /\ UNCHANGED <<lock, overlap>>
       ELSE /\ lock' = lock \cup {of[c]}
            /\ overlap' = (overlap \/ \E s \in Session : Inside(s) # {})
            /\ GoTo(c, IF c \in byUser THEN "read" ELSE "spawn")
    /\ UNCHANGED <<recorded, tracking, candidates, limited, sops, shown, dropped, overruns,
                   blind, unevicted, bounds>>

\* The task manager starts the task, or refuses because it is closed.
Spawn(c) ==
    /\ stage[c] = "spawn"
    /\ GoTo(c, "read")
    /\ UNCHANGED <<recorded, tracking, redis, sops, history, bounds>>

-----------------------------------------------------------------------------
(* The extraction.                                                         *)

Read(c) ==
    LET turns == Candidates(of[c]) IN
    /\ stage[c] = "read"
    /\ seen' = [seen EXCEPT ![c] = turns]
    /\ stage' = [stage EXCEPT ![c] = IF turns = {} THEN "release" ELSE "load"]
    /\ UNCHANGED <<recorded, tracking, redis, sops, of, byUser, answer, hand, history, bounds>>

\* Segments are built for the turns whose tool call ids are in the session.
LoadTree(c) ==
    LET segments == seen[c] \ Synthetic IN
    /\ stage[c] = "load"
    /\ GoTo(c, IF segments = {} THEN "clean" ELSE "ask")
    /\ dropped' = dropped \cup (seen[c] \cap Synthetic)
    /\ UNCHANGED <<recorded, tracking, redis, sops, shown, overruns, overlap, blind, unevicted,
                   bounds>>

\* The valid SOPs among the first MaxSops.
Ask(c) ==
    LET kinds == {About[t] : t \in seen[c] \ Synthetic} IN
    /\ stage[c] = "ask"
    /\ shown' = shown \cup (seen[c] \ Synthetic)
    /\ \E S \in SUBSET kinds :
          /\ Cardinality(S) <= MaxSops
          /\ answer' = [answer EXCEPT ![c] = S]
          /\ stage' = [stage EXCEPT ![c] = IF S = {} THEN "clean" ELSE "dedup"]
    /\ UNCHANGED <<recorded, tracking, redis, sops, of, byUser, seen, hand, dropped, overruns,
                   overlap, blind, unevicted, bounds>>

\* Two failures, or two answers that cannot be parsed, are an empty answer.
AskInVain(c) ==
    /\ stage[c] = "ask"
    /\ Event
    /\ dropped' = dropped \cup seen[c]
    /\ GoTo(c, "clean")
    /\ UNCHANGED <<recorded, tracking, redis, sops, shown, overruns, overlap, blind, unevicted>>

AfterSop(c) == IF answer'[c] = {} THEN "clean" ELSE "dedup"

\* A search that fails finds no duplicate.
Dedup(c, k) ==
    /\ stage[c] = "dedup"
    /\ k \in answer[c]
    /\ answer' = [answer EXCEPT ![c] = @ \ {k}]
    /\ \/ /\ sops[k] > 0
          /\ stage' = [stage EXCEPT ![c] = AfterSop(c)]
          /\ UNCHANGED <<hand, blind, bounds>>
       \/ /\ \/ sops[k] = 0 /\ UNCHANGED <<blind, bounds>>
             \/ sops[k] > 0 /\ Event /\ blind' = TRUE
          /\ hand' = [hand EXCEPT ![c] = {k}]
          /\ stage' = [stage EXCEPT ![c] = "store"]
    /\ UNCHANGED <<recorded, tracking, redis, sops, of, byUser, seen, shown, dropped, overruns,
                   overlap, unevicted>>

\* A store that fails is logged; its row may be there all the same.
Store(c) ==
    /\ stage[c] = "store"
    /\ \/ sops' = [k \in Kind |-> IF k \in hand[c] THEN sops[k] + 1 ELSE sops[k]]
          /\ UNCHANGED bounds
       \/ Event /\ UNCHANGED sops
    /\ hand' = [hand EXCEPT ![c] = {}]
    /\ stage' = [stage EXCEPT ![c] = IF answer[c] = {} THEN "clean" ELSE "dedup"]
    /\ UNCHANGED <<recorded, tracking, redis, of, byUser, seen, answer, history>>

\* The whole hash goes, with what was recorded since it was read.
Clean(c) ==
    /\ stage[c] = "clean"
    /\ candidates' = candidates \ Candidates(of[c])
    /\ dropped' = dropped \cup (Candidates(of[c]) \ seen[c])
    /\ GoTo(c, "release")
    /\ UNCHANGED <<recorded, tracking, lock, limited, sops, shown, overruns, overlap, blind,
                   unevicted, bounds>>

\* Whoever's lock it is.
Release(c) ==
    /\ stage[c] = "release"
    /\ lock' = lock \ {of[c]}
    /\ Return(c)
    /\ UNCHANGED <<recorded, tracking, candidates, limited, sops, history, bounds>>

-----------------------------------------------------------------------------
(* What goes wrong.                                                        *)

\* Mutant: the candidates are deleted in the finally clause.
AbandonCleans(c) ==
    /\ stage[c] \notin Outside \cup {"release"}
    /\ Event
    /\ GoTo(c, "release")
    /\ candidates' = candidates \ Candidates(of[c])
    /\ UNCHANGED <<recorded, tracking, lock, limited, sops, history>>

\* Redis or the session store fails, the session is gone, the spawn is
\* refused, or the task is cancelled: by the 15 s of /extract, by an
\* administrator or by the shutdown.
Abandon(c) ==
    /\ stage[c] \notin Outside \cup {"release"}
    /\ Event
    /\ GoTo(c, "release")
    /\ UNCHANGED <<recorded, tracking, redis, sops, history>>

\* Before the lock: nothing to undo, unless the cancellation comes between
\* Redis taking the lock and its reply.
GiveUp(c) ==
    /\ stage[c] \in {"count", "acquire"}
    /\ Event
    /\ lock' \in {lock, IF stage[c] = "acquire" THEN lock \cup {of[c]} ELSE lock}
    /\ Return(c)
    /\ UNCHANGED <<recorded, tracking, candidates, limited, sops, history>>

\* The process dies, or its DELETE of the lock fails.
Vanish(c) ==
    /\ stage[c] \notin Outside
    /\ Event
    /\ Return(c)
    /\ UNCHANGED <<recorded, tracking, redis, sops, history>>

\* Mutant: the lock has no TTL.
LockPersists(s) ==
    /\ s \in lock
    /\ \/ FALSE /\ UNCHANGED <<overruns, bounds>>
       \/ Inside(s) # {} /\ Event /\ overruns' = [overruns EXCEPT ![s] = @ + 1]
    /\ lock' = lock \ {s}
    /\ UNCHANGED <<recorded, tracking, candidates, limited, sops, task, shown, dropped, overlap,
                   blind, unevicted>>

\* After 600 s, and an extraction may take longer.
LockExpires(s) ==
    /\ s \in lock
    /\ \/ Inside(s) = {} /\ UNCHANGED <<overruns, bounds>>
       \/ Inside(s) # {} /\ Event /\ overruns' = [overruns EXCEPT ![s] = @ + 1]
    /\ lock' = lock \ {s}
    /\ UNCHANGED <<recorded, tracking, candidates, limited, sops, task, shown, dropped, overlap,
                   blind, unevicted>>

-----------------------------------------------------------------------------
Step(c) ==
    \/ Count(c) \/ Acquire(c) \/ Spawn(c) \/ Read(c) \/ LoadTree(c)
    \/ Ask(c) \/ AskInVain(c)
    \/ \E k \in Kind : Dedup(c, k)
    \/ Store(c) \/ Clean(c) \/ Release(c)

Next ==
    \/ \E t \in Turn : Record(t)
    \/ \E s \in Session : Evict(s)
    \/ \E s \in Session : FailEvict(s)
    \/ \E c \in Client, s \in Session : Trigger(c, s)
    \/ \E c \in Client, s \in Session : Request(c, s)
    \/ LimitExpires
    \/ \E c \in Client : Step(c)
    \/ \E c \in Client : Abandon(c)
    \/ \E c \in Client : GiveUp(c)
    \/ \E c \in Client : Vanish(c)
    \/ \E s \in Session : LockExpires(s)

Spec == Init /\ [][Next]_vars

\* A task's awaits return, and Redis drops a key whose TTL is over.
FairSpec ==
    /\ Spec
    /\ \A c \in Client : WF_vars(Step(c))
    /\ \A s \in Session : WF_vars(LockExpires(s))

-----------------------------------------------------------------------------
(* Properties.                                                             *)

TypeOK ==
    /\ recorded \subseteq Turn
    /\ candidates \subseteq recorded
    /\ tracking \subseteq Session
    /\ lock \subseteq Session
    /\ limited \in BOOLEAN
    /\ sops \in [Kind -> Nat]
    /\ stage \in [Client -> Stages]
    /\ of \in [Client -> Session \cup {NoSession}]
    /\ byUser \subseteq Client
    /\ seen \in [Client -> SUBSET Turn]
    /\ answer \in [Client -> SUBSET Kind]
    /\ hand \in [Client -> SUBSET Kind]
    /\ shown \subseteq recorded
    /\ dropped \subseteq recorded
    /\ overruns \in [Session -> 0..MaxEvents]
    /\ overlap \in BOOLEAN /\ blind \in BOOLEAN /\ unevicted \in BOOLEAN
    /\ extractions \in 0..MaxExtractions
    /\ events \in 0..MaxEvents

\* Every lock that expires under an extraction lets in one more, and nothing
\* else does: not a task that was refused the lock, not one that was
\* cancelled or whose spawn failed (extract_sops_sync, _extract_then_reset).
ExtractionsBounded == \A s \in Session : Cardinality(Inside(s)) <= 1 + overruns[s]

\* A recorded turn stays until a model has answered for it, whatever fails or
\* is cancelled, except the turns dropped by the eviction, without a tool
\* call id, after two failed calls, or recorded while an extraction was under
\* way (_cleanup).
NothingDroppedUnseen == recorded \subseteq candidates \cup shown \cup dropped

\* No procedure is stored twice, unless two extractions overlapped, of two
\* sessions or after an overrun, or a dedup search failed (_is_duplicate).
NoTwins == overlap \/ blind \/ \A k \in Kind : sops[k] <= 1

\* The hash stays within its bound between turns (_maybe_evict).
CandidatesBounded ==
    unevicted \/ \A s \in Session \ tracking : Cardinality(Candidates(s)) <= MaxCandidates

\* A session's lock never blocks extraction for good.
LockComesFree == \A s \in Session : s \in lock ~> s \notin lock

\* No recorded turn and no procedure is lost or doubled by the ways in which
\* extractions meet (extract_sops_sync, _cleanup, _is_duplicate).
ExtractionIsSafe ==
    /\ TypeOK /\ NothingDroppedUnseen /\ NoTwins /\ CandidatesBounded
=============================================================================

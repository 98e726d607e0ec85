---------------------------- MODULE PromptContext ----------------------------
(***************************************************************************)
(* What the runs of one worker put into their prompts besides the history  *)
(* (core/context_engine.py, core/agent/system_prompt.py, the hook and the  *)
(* tool of the working memory, core/agent/compaction).                     *)
(*                                                                         *)
(* The context engine keeps three caches over the awaits of concurrent     *)
(* runs: the bootstrap files of a workspace and the memory index of a      *)
(* session, which are never read again, and the archives recalled for a    *)
(* session's message, which a run drops when it ends as it should.  The    *)
(* working memory of a session is a hash and a list in Redis that a tool   *)
(* changes by single commands; a call of it may be cut short at any of     *)
(* them.  Runs of one session take turns in every channel but the          *)
(* OpenAI-compatible endpoint.                                             *)
(***************************************************************************)
EXTENDS Naturals, Integers, Sequences, FiniteSets, SequencesExt, FiniteSetsExt

CONSTANTS
    Session,
    Shared,       \* sessions of the OpenAI-compatible endpoint
    Person,       \* session keys; each has a workspace and a memory
    KeyOf,        \* [Session -> Person]: _derive_session_key
    Message, Run, None,
    WorkingKey, Sizes,    \* keys of the working memory, characters of an entry
    MaxChars, MaxCached,
    MaxWorld, MaxRuns, MaxUpdates, MaxEvents    \* bounds

ContextAssumption ==
    /\ Shared \subseteq Session /\ KeyOf \in [Session -> Person]
    /\ Sizes \subseteq Nat \ {0} /\ MaxCached \in Nat \ {0}
    /\ {MaxChars, MaxWorld, MaxRuns, MaxUpdates, MaxEvents} \subseteq Nat
    /\ None \notin Nat

VARIABLES
    world,      \* [Person -> what its files and memory hold by now]
    boot,       \* _bootstrap_cache: [Person -> what was read, or None]
    snapshot,   \* _l1_cache: [Session -> what was read, or None]
    cache,      \* _archive_cache, in order of insertion
    run,        \* [Run -> its next step, session, message and what it has read]
    fields,     \* the hashes of the working memory: [Session -> [key -> characters]]
    order,      \* their lists: [Session -> Seq(WorkingKey)]
    ended,      \* history: [Session -> world when its last good run ended]
    disturbed,  \* history: sessions an update of which was cut short, met
                \* another one or saw the entries expire
    changed,    \* history: sessions whose snapshot was replaced
    runs, updates, events

caches == <<boot, snapshot, cache>>
memory == <<fields, order, disturbed>>
history == <<ended, changed>>
counts == <<runs, updates, events>>
vars == <<world, caches, run, memory, history, counts>>

NoUpdate == [key |-> None, size |-> 0, known |-> FALSE, seen |-> <<>>, popped |-> None]
Off == [pc |-> "off", session |-> None, message |-> None, got |-> None, prefix |-> None,
        found |-> None, update |-> NoUpdate]

Init ==
    /\ world = [p \in Person |-> 0]
    /\ boot = [p \in Person |-> None] /\ snapshot = [s \in Session |-> None] /\ cache = <<>>
    /\ run = [r \in Run |-> Off]
    /\ fields = [s \in Session |-> <<>>] /\ order = [s \in Session |-> <<>>]
    /\ ended = [s \in Session |-> 0] /\ disturbed = {} /\ changed = {}
    /\ runs = 0 /\ updates = 0 /\ events = 0

Updating == {"hget", "hset", "rpush", "hgetall", "lpop", "hdel"}
Of(s) == {r \in Run : run[r].pc # "off" /\ run[r].session = s}
Key(r) == KeyOf[run[r].session]
Goes(r, pc) == run' = [run EXCEPT ![r].pc = pc]
Gets(r, pc, what) == run' = [run EXCEPT ![r].pc = pc, ![r].got = what]

-----------------------------------------------------------------------------
(***************************************************************************)
(* The caches                                                              *)
(***************************************************************************)
\* Files are edited, facts memorized, sessions archived.
Learn(p) ==
    /\ world[p] < MaxWorld
    /\ world' = [world EXCEPT ![p] = @ + 1]
    /\ UNCHANGED <<caches, run, memory, history, counts>>

Begin(r, s, m) ==
    /\ run[r].pc = "off" /\ runs < MaxRuns
    /\ s \in Shared \/ Of(s) = {}
    /\ run' = [run EXCEPT ![r] = [Off EXCEPT !.pc = "bootstrap", !.session = s, !.message = m]]
    /\ runs' = runs + 1
    /\ UNCHANGED <<world, caches, memory, history, updates, events>>

\* get_bootstrap
Bootstrap(r) ==
    /\ run[r].pc = "bootstrap"
    /\ IF boot[Key(r)] # None THEN Goes(r, "index") ELSE Gets(r, "keep bootstrap", world[Key(r)])
    /\ UNCHANGED <<world, caches, memory, history, counts>>

KeepBootstrap(r) ==
    /\ run[r].pc = "keep bootstrap"
    /\ boot' = [boot EXCEPT ![Key(r)] = run[r].got]
    /\ Gets(r, "index", None)
    /\ UNCHANGED <<world, snapshot, cache, memory, history, counts>>

\* The files cannot be read: the prompt goes without them.
BootstrapFails(r) ==
    /\ run[r].pc = "keep bootstrap" /\ events < MaxEvents
    /\ Gets(r, "index", None)
    /\ events' = events + 1
    /\ UNCHANGED <<world, caches, memory, history, runs, updates>>

\* get_l1_snapshot; of an index that cannot be read, the empty one is kept.
Snapshot(r) ==
    /\ run[r].pc = "index"
    /\ LET kept == snapshot[run[r].session]
       IN  IF kept # None
           THEN run' = [run EXCEPT ![r].pc = "recall", ![r].prefix = kept] /\ events' = events
           ELSE \/ Gets(r, "keep index", world[Key(r)]) /\ events' = events
                \/ /\ events < MaxEvents
                   /\ Gets(r, "keep index", -1) /\ events' = events + 1
    /\ UNCHANGED <<world, caches, memory, history, runs, updates>>

KeepSnapshot(r) ==
    /\ run[r].pc = "keep index"
    /\ LET s == run[r].session
       IN  /\ snapshot' = [snapshot EXCEPT ![s] = run[r].got]
           /\ changed' = IF snapshot[s] \notin {None, run[r].got} THEN changed \cup {s} ELSE changed
    /\ run' = [run EXCEPT ![r].pc = "recall", ![r].prefix = run[r].got, ![r].got = None]
    /\ UNCHANGED <<world, boot, cache, memory, ended, counts>>

\* assemble, at each iteration: what was recalled for the same message is
\* used again, else the archives are searched.
Recall(r) ==
    /\ run[r].pc = "recall"
    /\ LET hits == {i \in DOMAIN cache : /\ cache[i].session = run[r].session
                                         /\ cache[i].message = run[r].message}
       IN  \/ \E i \in hits :
                run' = [run EXCEPT ![r].pc = "model", ![r].found = cache[i]]
           \/ hits = {} /\ Gets(r, "keep recall", world[Key(r)])
    /\ UNCHANGED <<world, caches, memory, history, counts>>

\* The archives (L4) cannot be searched: the prompt goes without them.
RecallFails(r) ==
    /\ run[r].pc = "keep recall" /\ events < MaxEvents
    /\ run' = [run EXCEPT ![r].pc = "model", ![r].found = None, ![r].got = None]
    /\ events' = events + 1
    /\ UNCHANGED <<world, caches, memory, history, runs, updates>>

\* An entry of the session itself is replaced in its place, after the oldest
\* one has gone all the same.
KeepRecall(r) ==
    /\ run[r].pc = "keep recall"
    /\ LET new == [session |-> run[r].session, message |-> run[r].message, at |-> run[r].got]
           left == IF Len(cache) >= MaxCached THEN Tail(cache) ELSE cache
           mine == {i \in DOMAIN left : left[i].session = new.session}
       IN  /\ cache' = IF mine = {} THEN Append(left, new)
                       ELSE [left EXCEPT ![CHOOSE i \in mine : TRUE] = new]
           /\ run' = [run EXCEPT ![r].pc = "model", ![r].found = new, ![r].got = None]
    /\ UNCHANGED <<world, boot, snapshot, memory, history, counts>>

\* Another iteration.
Again(r) ==
    /\ run[r].pc = "model"
    /\ Goes(r, "recall")
    /\ UNCHANGED <<world, caches, memory, history, counts>>

\* Mutant: the recalled archives outlive the run.
FinishOnly(r) ==
    /\ run[r].pc = "model"
    /\ cache' = cache
    /\ run' = [run EXCEPT ![r] = Off]
    /\ ended' = [ended EXCEPT ![run[r].session] = world[Key(r)]]
    /\ UNCHANGED <<world, boot, snapshot, memory, changed, counts>>

\* The final answer: after_turn.
Finish(r) ==
    /\ run[r].pc = "model"
    /\ cache' = SelectSeq(cache, LAMBDA e : e.session # run[r].session)
    /\ run' = [run EXCEPT ![r] = Off]
    /\ ended' = [ended EXCEPT ![run[r].session] = world[Key(r)]]
    /\ UNCHANGED <<world, boot, snapshot, memory, changed, counts>>

\* An error, an abort, a timeout; a task that is cancelled.
Fail(r) ==
    /\ run[r].pc \notin Updating \cup {"off"} /\ events < MaxEvents
    /\ run' = [run EXCEPT ![r] = Off] /\ events' = events + 1
    /\ UNCHANGED <<world, caches, memory, history, runs, updates>>

-----------------------------------------------------------------------------
(***************************************************************************)
(* The working memory                                                      *)
(***************************************************************************)
Chars(f) == FoldFunctionOnSet(+, 0, f, DOMAIN f)
Without(f, k) == [x \in DOMAIN f \ {k} |-> f[x]]
With(f, k, n) == [x \in DOMAIN f \cup {k} |-> IF x = k THEN n ELSE f[x]]

\* WorkingMemoryHook: the entries in the order of the list and then the
\* others, without the first of them while the block is too long.
Shown(f, o, rest, frame, most) ==
    LET lines == SelectSeq(o, LAMBDA k : k \in DOMAIN f) \o SelectSeq(rest, LAMBDA k :
                   k \in DOMAIN f /\ ~Contains(o, k))
        Length(i) == frame + FoldLeft(LAMBDA n, k : n + f[k], 0, SubSeq(lines, i, Len(lines)))
        fits == {i \in DOMAIN lines : Length(i) <= most}
    IN  IF fits = {} THEN <<>> ELSE SubSeq(lines, Min(fits), Len(lines))

\* A call of update_working_memory.
Update(r, k, n) ==
    /\ run[r].pc = "model" /\ updates < MaxUpdates
    /\ run' = [run EXCEPT ![r].pc = "hget", ![r].update = [NoUpdate EXCEPT !.key = k, !.size = n]]
    /\ updates' = updates + 1
    /\ disturbed' = IF \E q \in Of(run[r].session) : run[q].pc \in Updating
                    THEN disturbed \cup {run[r].session} ELSE disturbed
    /\ UNCHANGED <<world, caches, fields, order, history, runs, events>>

HGet(r) ==
    /\ run[r].pc = "hget"
    /\ LET u == run[r].update
       IN  run' = [run EXCEPT ![r].pc = "hset",
                              ![r].update.known = u.key \in DOMAIN fields[run[r].session]]
    /\ UNCHANGED <<world, caches, memory, history, counts>>

HSet(r) ==
    /\ run[r].pc = "hset"
    /\ LET u == run[r].update
           s == run[r].session
       IN  /\ fields' = [fields EXCEPT ![s] = With(@, u.key, u.size)]
           /\ Goes(r, IF u.known THEN "hgetall" ELSE "rpush")
    /\ UNCHANGED <<world, caches, order, disturbed, history, counts>>

RPush(r) ==
    /\ run[r].pc = "rpush"
    /\ order' = [order EXCEPT ![run[r].session] = Append(@, run[r].update.key)]
    /\ Goes(r, "hgetall")
    /\ UNCHANGED <<world, caches, fields, disturbed, history, counts>>

\* _evict_if_needed: the oldest entries go until the others fit, counted in
\* what was read first.
HGetAll(r) ==
    /\ run[r].pc = "hgetall"
    /\ LET f == fields[run[r].session]
       IN  run' = [run EXCEPT ![r].pc = IF Chars(f) > MaxChars THEN "lpop" ELSE "model",
                              ![r].update = IF Chars(f) > MaxChars THEN [@ EXCEPT !.seen = f]
                                            ELSE NoUpdate]
    /\ UNCHANGED <<world, caches, memory, history, counts>>

LPop(r) ==
    /\ run[r].pc = "lpop"
    /\ LET s == run[r].session
           oldest == Head(order[s])
       IN  \/ /\ order[s] = <<>>
              /\ run' = [run EXCEPT ![r].pc = "model", ![r].update = NoUpdate]
              /\ order' = order
           \/ /\ order[s] # <<>>
              /\ order' = [order EXCEPT ![s] = Tail(@)]
              /\ IF oldest \in DOMAIN run[r].update.seen
                 THEN run' = [run EXCEPT ![r].pc = "hdel", ![r].update.popped = oldest]
                 ELSE run' = run
    /\ UNCHANGED <<world, caches, fields, disturbed, history, counts>>

HDel(r) ==
    /\ run[r].pc = "hdel"
    /\ LET s == run[r].session
           u == run[r].update
           left == Without(u.seen, u.popped)
       IN  /\ fields' = [fields EXCEPT ![s] = Without(@, u.popped)]
           /\ run' = [run EXCEPT ![r].pc = IF Chars(left) > MaxChars THEN "lpop" ELSE "model",
                                 ![r].update = IF Chars(left) > MaxChars
                                               THEN [@ EXCEPT !.seen = left, !.popped = None]
                                               ELSE NoUpdate]
    /\ UNCHANGED <<world, caches, order, disturbed, history, counts>>

\* The tool's timeout, an abort or an error of Redis between two commands.
Cut(r) ==
    /\ run[r].pc \in Updating /\ events < MaxEvents
    /\ run' = [run EXCEPT ![r].pc = "model", ![r].update = NoUpdate]
    /\ disturbed' = disturbed \cup {run[r].session} /\ events' = events + 1
    /\ UNCHANGED <<world, caches, fields, order, history, runs, updates>>

\* Seven days without an update.
Expire(s) ==
    /\ fields[s] # <<>> /\ events < MaxEvents
    /\ fields' = [fields EXCEPT ![s] = <<>>] /\ order' = [order EXCEPT ![s] = <<>>]
    /\ disturbed' = IF \E r \in Of(s) : run[r].pc \in Updating THEN disturbed \cup {s}
                    ELSE disturbed
    /\ events' = events + 1
    /\ UNCHANGED <<world, caches, run, history, runs, updates>>

Next ==
    \/ \E p \in Person : Learn(p)
    \/ \E r \in Run, s \in Session, m \in Message : Begin(r, s, m)
    \/ \E r \in Run :
         \/ Bootstrap(r) \/ KeepBootstrap(r) \/ BootstrapFails(r)
         \/ Snapshot(r) \/ KeepSnapshot(r)
         \/ Recall(r) \/ RecallFails(r) \/ KeepRecall(r) \/ Again(r) \/ Finish(r) \/ Fail(r)
         \/ \E k \in WorkingKey, n \in Sizes : Update(r, k, n)
         \/ HGet(r) \/ HSet(r) \/ RPush(r) \/ HGetAll(r) \/ LPop(r) \/ HDel(r) \/ Cut(r)
    \/ \E s \in Session : Expire(s)

Spec == Init /\ [][Next]_vars

-----------------------------------------------------------------------------
(***************************************************************************)
(* Budgets: pure functions of what the prompt and the summary are made of  *)
(***************************************************************************)
Sum(f) == FoldFunction(+, 0, f)
SumSeq(s) == FoldLeft(+, 0, s)

\* PromptSection.estimated_tokens, of so many characters.
Tokens(n) == n \div 4

\* The sections of the frozen prefix, an absent one as one of no characters;
\* those that may be cut, the first one first.
Sections == {"identity", "tools", "skills", "workspace", "bootstrap", "l1_snapshot"}
Priority == <<"skills", "bootstrap", "l1_snapshot", "workspace">>

\* enforce_system_budget
EnforceBudget(length, budget) ==
    LET total == Sum([n \in Sections |-> Tokens(length[n])])
        Step(acc, n) ==
          IF acc.overflow <= 0 THEN acc
          ELSE IF Tokens(acc.length[n]) <= acc.overflow
               THEN [overflow |-> acc.overflow - Tokens(acc.length[n]),
                     length |-> [acc.length EXCEPT ![n] = 0]]
               ELSE [overflow |-> 0,
                     length |-> [acc.length EXCEPT ![n] = Max({0, @ - acc.overflow * 4})]]
    IN  FoldLeft(Step, [overflow |-> total - budget, length |-> length], Priority).length

\* compute_history_budget, and whether a run trims so many tokens of history:
\* a budget of nothing trims nothing.
HistoryBudget(window, zones, reserve) == Max({0, window - zones - reserve})
Trims(tokens, budget) == budget > 0 /\ tokens > budget

\* split_into_chunks, of messages of so many tokens.
SplitIntoChunks(messages, budget) ==
    LET Step(chunks, m) ==
          IF chunks = <<>> THEN <<<<m>>>>
          ELSE IF SumSeq(Last(chunks)) + m > budget THEN Append(chunks, <<m>>)
          ELSE Append(Front(chunks), Append(Last(chunks), m))
    IN  IF budget = 0 THEN <<messages>> ELSE FoldLeft(Step, <<>>, messages)

\* What the summarizer is given, one call after the other (summarize_in_stages);
\* a summary takes so many tokens.
Stages(messages, budget, summary) ==
    LET chunks == SplitIntoChunks(messages, budget)
    IN  IF Len(chunks) <= 1 THEN <<messages>>
        ELSE Append(chunks, [i \in DOMAIN chunks |-> summary])

\* dedupe_duplicate_user_messages, of messages [role, text, long, at], `at' a
\* time or None.  Those of a history have no time.
Dedupe(messages, window) ==
    LET Repeats(m, t) ==
          t # None /\ (m.at = None \/ window = 0 \/ t = -1 \/ m.at - t <= window)
        Step(acc, m) ==
          IF m.role # "user" \/ ~m.long THEN [acc EXCEPT !.kept = Append(@, m)]
          ELSE IF Repeats(m, acc.last[m.text]) THEN acc
          ELSE [kept |-> Append(acc.kept, m),
                last |-> [acc.last EXCEPT ![m.text] = IF m.at = None THEN -1 ELSE m.at]]
        texts == {messages[i].text : i \in DOMAIN messages}
    IN  FoldLeft(Step, [kept |-> <<>>, last |-> [t \in texts |-> None]], messages).kept

-----------------------------------------------------------------------------
(***************************************************************************)
(* Properties                                                              *)
(***************************************************************************)
TypeOK ==
    /\ world \in [Person -> 0 .. MaxWorld]
    /\ \A p \in Person : boot[p] \in 0 .. MaxWorld \/ boot[p] = None
    /\ \A s \in Session : snapshot[s] \in -1 .. MaxWorld \/ snapshot[s] = None
    /\ \A r \in Run : /\ run[r].pc \in Updating \cup {"off", "bootstrap", "keep bootstrap",
                             "index", "keep index", "recall", "keep recall", "model"}
                       /\ run[r].pc # "off" => run[r].session \in Session
    /\ \A s \in Session : /\ DOMAIN fields[s] \subseteq WorkingKey
                           /\ order[s] \in Seq(WorkingKey)
    /\ disturbed \cup changed \subseteq Session
    /\ runs \in 0 .. MaxRuns /\ updates \in 0 .. MaxUpdates /\ events \in 0 .. MaxEvents

\* However many runs await their searches at a time, the cache keeps its bound
\* and one entry for each session (assemble checks after the await).
CacheWithinBound ==
    /\ Len(cache) <= MaxCached
    /\ \A i, j \in DOMAIN cache : cache[i].session = cache[j].session => i = j

\* The archives in a prompt were recalled for the message it answers, and, in
\* sessions whose runs take turns, after the last run that gave an answer, for
\* only runs that failed leave something behind (assemble, after_turn).
RecallFits ==
    \A r \in Run :
        run[r].pc \in {"model"} \cup Updating /\ run[r].found # None
        => /\ run[r].found.session = run[r].session /\ run[r].found.message = run[r].message
           /\ run[r].session \notin Shared => run[r].found.at >= ended[run[r].session]

\* The memory index of a session stays as its first run has read it, and all
\* runs have it in their prompts (the frozen prefix), in sessions whose runs
\* take turns (get_l1_snapshot).
PrefixIsFrozen ==
    /\ changed \subseteq Shared
    /\ \A r \in Run : run[r].pc \in {"recall", "keep recall", "model"}
                       /\ run[r].session \notin Shared
                       => run[r].prefix = snapshot[run[r].session]

\* The working memory of a session, while no call changes it, is within its
\* bound, and every entry is in the list of what goes first, once, unless
\* calls met or were cut short (UpdateWorkingMemoryTool).
WorkingMemoryIsEvictable ==
    \A s \in Session \ disturbed :
        (\A r \in Of(s) : run[r].pc \notin Updating)
        => /\ Chars(fields[s]) <= MaxChars
           /\ Range(order[s]) = DOMAIN fields[s]
           /\ Len(order[s]) = Cardinality(DOMAIN fields[s])

\* The frozen prefix is within its budget unless what must not be cut is not;
\* nothing is cut before all that has to go first is gone, and no more than
\* needed (enforce_system_budget).
BudgetIsKept ==
    \A length \in [Sections -> {0, 3, 5, 9}], budget \in {0, 2, 3, 5, 8} :
        LET cut == EnforceBudget(length, budget)
            total == Sum([n \in Sections |-> Tokens(cut[n])])
            was == Sum([n \in Sections |-> Tokens(length[n])])
        IN  /\ cut["identity"] = length["identity"] /\ cut["tools"] = length["tools"]
            /\ total <= budget \/ \A i \in DOMAIN Priority : cut[Priority[i]] = 0
            /\ was > budget /\ total < budget => FALSE
            /\ \A i, j \in DOMAIN Priority :
                  i < j /\ cut[Priority[j]] # length[Priority[j]] => cut[Priority[i]] = 0

\* Each message of a history to be summarized goes to the summarizer once and
\* in order; a chunk is within its budget unless it is one message, and no
\* chunk could have taken the message after it (split_into_chunks).
ChunksKeepMessages ==
    \A n \in 0 .. 4, budget \in 0 .. 4 : \A messages \in [1 .. n -> 1 .. 3] :
        LET chunks == SplitIntoChunks(messages, budget)
        IN  /\ FlattenSeq(chunks) = messages
            /\ budget > 0 => \A i \in DOMAIN chunks :
                 /\ SumSeq(chunks[i]) <= budget \/ Len(chunks[i]) = 1
                 /\ i < Len(chunks) => SumSeq(chunks[i]) + Head(chunks[i + 1]) > budget

\* What is dropped as a repetition is said earlier in what is kept
\* (dedupe_duplicate_user_messages).
RepetitionsAreKeptOnce ==
    \A n \in 0 .. 3, window \in 0 .. 1 :
        \A messages \in [1 .. n -> [role : {"user", "tool"}, text : 1 .. 2, long : {TRUE},
                                      at : {None, 0, 2}]] :
            LET kept == Dedupe(messages, window)
            IN  \A i \in DOMAIN messages : \E j \in DOMAIN kept :
                    kept[j].role = messages[i].role /\ kept[j].text = messages[i].text

\* What the budgets promise for any sections and messages.
BudgetsFit == BudgetIsKept /\ ChunksKeepMessages /\ RepetitionsAreKeptOnce

\* Caches, recall and working memory keep what they promise of the prompt
\* (DefaultContextEngine, UpdateWorkingMemoryTool).
PromptsFit ==
    /\ TypeOK /\ CacheWithinBound /\ RecallFits /\ PrefixIsFrozen
    /\ WorkingMemoryIsEvictable
=============================================================================

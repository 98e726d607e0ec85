--------------------------- MODULE SessionHistory ---------------------------
(***************************************************************************)
(* The history of one conversation: the session store in Redis             *)
(* (storage/session/redis.py), the tree of entries each of its users loads *)
(* (models/session.py), and compaction (context_engine.py, runner.py).     *)
(*                                                                         *)
(* The store keeps a header, a hash of entries and the id of the leaf (and *)
(* a list of the ids, which only listings read).  Whoever extends the      *)
(* conversation loads all of it, chains its entries to the leaf it has     *)
(* seen, and writes them one by one under a lock that it tries once; it    *)
(* never looks at the stored leaf again.  The runs of a session are        *)
(* serial.  Besides them there are /model, which may come in the middle of *)
(* a run, /compact, which only starts between runs, PATCH (the title),     *)
(* update_last_interaction and DELETE.                                     *)
(*                                                                         *)
(* Entries are numbered in the order of their creation.  A message counts  *)
(* one token.  An entry carries what the text of a summary tells of:       *)
(* `about' are the messages the summarizer was given, `kept' those the     *)
(* plan left out of the summary because they are recent.                   *)
(***************************************************************************)
EXTENDS Naturals, FiniteSets

CONSTANTS
    Actors,        \* who uses the session; "run" always does
    Budget,        \* compute_history_budget, in messages
    KeepRecent,    \* keep_recent_tokens, in messages
    MaxEntries,    \* bound: entries ever created
    MaxRuns,       \* bound: runs of the session
    MaxCommands,   \* bound: everything else that is asked of it
    MaxFaults,     \* bound: failing calls to Redis and expiries of the lock
    NoHeader,      \* the header key is missing
    Nobody         \* nobody holds the lock of the session

Fields == {"model", "title", "touched"}

ASSUME SessionAssumption ==
    /\ "run" \in Actors
    /\ Actors \subseteq {"run", "model", "compact", "title", "touch", "delete"}
    /\ Budget \in Nat \ {0} /\ KeepRecent \in Nat \ {0}
    /\ {MaxEntries, MaxRuns, MaxCommands, MaxFaults} \subseteq Nat
    /\ Nobody \notin Actors /\ NoHeader \notin {s : s \in SUBSET Fields}

VARIABLES
    header,      \* Redis: the fields of the header that have been set
    entries,     \* Redis: the hash of entries
    leaf,        \* Redis: the leaf, 0 for none
    lock,        \* Redis: the owner of session-lock
    pc,          \* [Actors -> where it is]
    tree,        \* [Actors -> the SessionTree it has in memory]
    created,     \* entries created so far
    started,     \* runs and commands started so far
    faults,      \* faults so far
    erased,      \* ids that were stored when the session was deleted
    overtaken    \* history: whose tree, whose header is no longer the stored
                 \* one, and the entries that a summary should have read

redis == <<header, entries, leaf, lock>>
vars == <<redis, pc, tree, created, started, faults, erased, overtaken>>

Messages == {"user", "call", "result", "answer", "partial"}
Ids == 1 .. MaxEntries
Entry == [kind : Messages \cup {"summary", "model"}, parent : 0 .. MaxEntries,
          first : 0 .. MaxEntries, about : SUBSET Ids, kept : SUBSET Ids]
Empty == [header |-> NoHeader, entries |-> <<>>, leaf |-> 0]
Places == {"idle", "leaf", "create", "save", "user", "entry", "turn",
           "results", "hset", "set"}

(***************************************************************************)
(* The tree                                                                *)
(***************************************************************************)
\* get_branch: from the leaf along parent_id up to the root, or to an entry
\* that is missing; a parent is older than its child.
Branch(stored, from) ==
    LET up[id \in 0 .. MaxEntries] ==
            IF id \in DOMAIN stored THEN up[stored[id].parent] \cup {id} ELSE {}
    IN  up[from]

\* The entries without some, at which the branches then break off.
Without(stored, ids) == [id \in DOMAIN stored \ ids |-> stored[id]]

Said(stored, ids) == {id \in ids : stored[id].kind \in Messages}
Summaries(stored, ids) == {id \in ids : stored[id].kind = "summary"}
Newest(ids) == CHOOSE id \in ids : \A other \in ids : other <= id

\* Mutant: only what follows the summary is kept.
ContextFromSummary(stored, from) ==
    LET branch == Branch(stored, from)
        latest == Newest(Summaries(stored, branch))
    IN  IF Summaries(stored, branch) = {} THEN Said(stored, branch)
        ELSE {latest} \cup {id \in Said(stored, branch) : latest < id}

\* build_session_context: the latest summary, then the messages from its
\* first_kept_entry_id on, or else those that follow the summary.
Context(stored, from) ==
    LET branch == Branch(stored, from)
        latest == Newest(Summaries(stored, branch))
        first  == stored[latest].first
        start  == IF first \in branch THEN first ELSE latest
    IN  IF Summaries(stored, branch) = {} THEN Said(stored, branch)
        ELSE {latest} \cup {id \in Said(stored, branch) : start <= id}

\* The messages that the items of a context tell of.
About(stored, items) ==
    Said(stored, items) \cup UNION {stored[id].about : id \in Summaries(stored, items)}

\* What plans wanted to keep word for word, though a context has but the first.
Wanted(stored, ids) == UNION {stored[id].kept \ {stored[id].first} : id \in ids}

Prompt(a) == Context(tree[a].entries, tree[a].leaf)

(***************************************************************************)
(* Planning a compaction                                                   *)
(***************************************************************************)
\* The summary is the first item of a context, the messages have their order.
Before(stored, items, item) ==
    {other \in items \ {item} :
        stored[item].kind # "summary" /\ (stored[other].kind = "summary" \/ other < item)}

\* find_cut_point: the recent part begins where KeepRecent tokens are left,
\* or before a tool result there.
Recent(stored, items) ==
    {item \in items :
        /\ stored[item].kind # "result"
        /\ Cardinality(items \ Before(stored, items, item)) >= KeepRecent}
CutPoint(stored, items) ==
    CHOOSE item \in Recent(stored, items) :
        Recent(stored, items) \subseteq Before(stored, items, item) \cup {item}

\* What lies before the cut.
Older(stored, items) ==
    IF Recent(stored, items) = {} THEN {}
    ELSE Before(stored, items, CutPoint(stored, items))

\* plan_compaction with the threshold of force: 1.0.
ShouldCompact(stored, items) ==
    Cardinality(items) > Budget /\ Older(stored, items) # {}

(***************************************************************************)
(* Loading                                                                 *)
(***************************************************************************)
Init ==
    /\ header = NoHeader /\ entries = <<>> /\ leaf = 0
    /\ lock = Nobody
    /\ pc = [a \in Actors |-> "idle"]
    /\ tree = [a \in Actors |-> Empty]
    /\ created = 0 /\ started = [runs |-> 0, commands |-> 0] /\ faults = 0
    /\ erased = {}
    /\ overtaken = [tree |-> {}, header |-> {}, unread |-> {}]

Goto(a, place) == pc' = [pc EXCEPT ![a] = place]

\* What an actor had in memory goes when it is done.
Leave(a) == Goto(a, "idle") /\ tree' = [tree EXCEPT ![a] = Empty]
Done(a) == /\ Leave(a)
           /\ overtaken' = [overtaken EXCEPT !.tree = @ \ {a}, !.header = @ \ {a}]

\* The queue starts the next run once the one before has ended, its
\* update_last_interaction included; idle_guard_check holds /compact back
\* while the queue is busy, and nothing holds back the others.
MayStart(a) ==
    IF a = "run"
    THEN started.runs < MaxRuns /\ ("touch" \in Actors => pc["touch"] = "idle")
    ELSE /\ started.commands < MaxCommands /\ header # NoHeader
         /\ a \in {"compact", "touch"} => pc["run"] = "idle"

\* All of them begin with load, a pipeline but no transaction: the header
\* and the entries ...
Load(a) ==
    /\ pc[a] = "idle" /\ a # "delete"
    /\ MayStart(a)
    /\ started' = IF a = "run" THEN [started EXCEPT !.runs = @ + 1]
                  ELSE [started EXCEPT !.commands = @ + 1]
    /\ tree' = [tree EXCEPT ![a] = [header |-> header, entries |-> entries, leaf |-> 0]]
    /\ Goto(a, "leaf")
    /\ UNCHANGED <<redis, created, faults, erased, overtaken>>

\* Mutant: a run starts anew below the root.
LoadLeafAnew(a) ==
    /\ pc[a] = "leaf"
    /\ IF tree[a].header = NoHeader
       THEN IF a = "run"
            THEN /\ Goto(a, "create")
                 /\ tree' = [tree EXCEPT ![a] = Empty]
                 /\ UNCHANGED overtaken
            ELSE Done(a)
       ELSE /\ tree' = [tree EXCEPT ![a].leaf = IF a = "run" THEN 0 ELSE leaf]
            /\ Goto(a, CASE a = "run" -> "user" [] a = "compact" -> "turn" [] OTHER -> "save")
            /\ UNCHANGED overtaken
    /\ UNCHANGED <<redis, created, started, faults, erased>>

\* ... and then the leaf.  Without a header there is no tree.
LoadLeaf(a) ==
    /\ pc[a] = "leaf"
    /\ IF tree[a].header = NoHeader
       THEN IF a = "run"
            THEN /\ Goto(a, "create")
                 /\ tree' = [tree EXCEPT ![a] = Empty]
                 /\ UNCHANGED overtaken
            ELSE Done(a)
       ELSE /\ tree' = [tree EXCEPT ![a].leaf = leaf]
            /\ Goto(a, CASE a = "run" -> "user" [] a = "compact" -> "turn" [] OTHER -> "save")
            /\ UNCHANGED overtaken
    /\ UNCHANGED <<redis, created, started, faults, erased>>

(***************************************************************************)
(* Headers                                                                 *)
(***************************************************************************)
Others(a) == {b \in Actors \ {a} : pc[b] # "idle"}
Overtake(part, a) == overtaken' = [overtaken EXCEPT ![part] = @ \cup Others(a)]

\* ensure_session writes the header of a new session.
CreateHeader ==
    /\ pc["run"] = "create"
    /\ header' = {}
    /\ Overtake("header", "run")
    /\ Goto("run", "user")
    /\ UNCHANGED <<entries, leaf, lock, tree, created, started, faults, erased>>

\* save_header writes all of the loaded header, with the one field changed
\* that its caller cares for.
SaveHeader(a, field) ==
    /\ a \in Actors /\ pc[a] = "save"
    /\ header' = tree[a].header \cup {field}
    /\ UNCHANGED <<entries, leaf, lock, created, started, faults, erased>>

Saved(a) == /\ Leave(a)
            /\ overtaken' = [overtaken EXCEPT !.tree = @ \ {a}, !.header = Others(a)]

PatchSession == SaveHeader("title", "title") /\ Saved("title")
UpdateLastInteraction == SaveHeader("touch", "touched") /\ Saved("touch")

\* /model goes on to append its entry to the tree it has loaded before.
OverrideModel == /\ SaveHeader("model", "model")
                 /\ Goto("model", "entry")
                 /\ Overtake("header", "model")
                 /\ UNCHANGED tree

WritesHeader(a) ==
    CASE a = "run" -> CreateHeader
      [] a = "title" -> PatchSession
      [] a = "touch" -> UpdateLastInteraction
      [] a = "model" -> OverrideModel
      [] OTHER -> FALSE

(***************************************************************************)
(* Appending                                                               *)
(***************************************************************************)
\* An entry is chained to the leaf of the actor's own tree, which it extends
\* before the store (_append; _try_compaction; /model and /compact).
Extended(a, entry) ==
    [tree[a] EXCEPT !.leaf = created + 1,
                    !.entries = [id \in DOMAIN @ \cup {created + 1} |->
                                   IF id = created + 1 THEN entry ELSE @[id]]]

\* An append that comes between Load and LoadLeaf leaves a tree without its
\* leaf: the branch breaks off before the root, at an entry that was not read.
Unread(a) ==
    {tree[a].entries[id].parent : id \in Branch(tree[a].entries, tree[a].leaf)}
        \ ({0} \cup DOMAIN tree[a].entries)

\* append_entry tries the lock once; SessionLockError ends the run or the
\* command.
AppendEntry(a, entry) ==
    /\ created < MaxEntries
    /\ created' = created + 1
    /\ IF lock = Nobody
       THEN /\ lock' = a
            /\ tree' = [tree EXCEPT ![a] = Extended(a, entry)]
            /\ Goto(a, "hset")
            /\ overtaken' = [overtaken EXCEPT !.unread =
                               IF entry.kind = "summary" THEN @ \cup Unread(a) ELSE @]
       ELSE /\ Done(a)
            /\ UNCHANGED lock
    /\ UNCHANGED <<header, entries, leaf, started, faults, erased>>

Message(a, kind) ==
    AppendEntry(a, [kind |-> kind, parent |-> tree[a].leaf, first |-> 0,
                about |-> {}, kept |-> {}])

Latest(a) == tree[a].entries[tree[a].leaf].kind

\* The release at the end of append_entry; it may fail, too, after something has.
Unlock(a, ok) == lock' \in {IF lock = a THEN Nobody ELSE lock} \cup (IF ok THEN {} ELSE {lock})

\* The pipeline stores the entry first ...
HSet(a) ==
    /\ pc[a] = "hset"
    /\ LET id == tree[a].leaf
       IN  entries' = [i \in DOMAIN entries \cup {id} |->
                          IF i = id THEN tree[a].entries[id] ELSE entries[i]]
    /\ Goto(a, "set")
    /\ UNCHANGED <<header, leaf, lock, tree, created, started, faults, erased, overtaken>>

\* ... and then makes it the leaf; the lock is given back.  A run goes on
\* unless this was its last entry; a command has finished, and so has
\* whoever does not get the reply.
SetLeaf(a, ok) ==
    /\ pc[a] = "set"
    /\ leaf' = tree[a].leaf
    /\ Unlock(a, ok)
    /\ IF ok /\ a = "run" /\ Latest(a) \notin {"answer", "partial"}
       THEN /\ Goto(a, IF Latest(a) = "call" THEN "results" ELSE "turn")
            /\ UNCHANGED tree
            /\ Overtake("tree", a)
       ELSE /\ Leave(a)
            /\ overtaken' = [overtaken EXCEPT !.tree = Others(a), !.header = @ \ {a}]
    /\ faults' = IF ok THEN faults ELSE faults + 1
    /\ UNCHANGED <<header, entries, created, started, erased>>

\* A command of the pipeline fails: those before it have been executed.  The
\* lock is given back on the way out, if that works, and the error ends the
\* run or the command; its tree is not used again.
Fail(a) ==
    /\ pc[a] \in {"hset", "set"}
    /\ faults' = faults + 1
    /\ Unlock(a, FALSE)
    /\ Done(a)
    /\ UNCHANGED <<header, entries, leaf, created, started, erased>>

\* The lock lives 30 seconds, whether its owner has finished or not; that it
\* goes while the owner writes is a fault.
LockExpires ==
    /\ lock # Nobody
    /\ IF pc[lock] \in {"hset", "set"}
       THEN faults < MaxFaults /\ faults' = faults + 1
       ELSE faults' = faults
    /\ lock' = Nobody
    /\ UNCHANGED <<header, entries, leaf, pc, tree, created, started, erased, overtaken>>

(***************************************************************************)
(* The run and the commands                                                *)
(***************************************************************************)
\* The user's message, a tool result, the entry of /model.
UserMessage == pc["run"] = "user" /\ Message("run", "user")
ToolResult == pc["run"] = "results" /\ Message("run", "result")
ModelChange == "model" \in Actors /\ pc["model"] = "entry" /\ Message("model", "model")

\* Before every call of the model an over-long context is compacted; any
\* other goes to the model as it is.
TooLong(a) == pc[a] = "turn" /\ ShouldCompact(tree[a].entries, Prompt(a))
Asking == pc["run"] = "turn" /\ ~TooLong("run")

\* The summary tells of what lies before the cut.  The entry names the leaf
\* as the first that is kept (runner.py:975, builtin.py:421), not the cut.
Compaction(a) ==
    LET stored == tree[a].entries
        items  == Prompt(a)
        older  == Older(stored, items)
    IN  [kind |-> "summary", parent |-> tree[a].leaf, first |-> tree[a].leaf,
         about |-> About(stored, older), kept |-> About(stored, items \ older)]

TryCompaction == TooLong("run") /\ AppendEntry("run", Compaction("run"))

\* /compact ends without an entry if there is nothing to do or if the
\* summarizer fails.
CompactCommand ==
    /\ "compact" \in Actors /\ pc["compact"] = "turn"
    /\ \/ TooLong("compact") /\ AppendEntry("compact", Compaction("compact"))
       \/ Done("compact") /\ UNCHANGED <<redis, created, started, faults, erased>>

\* The model answers with a call or with its last word ...
Answer == Asking /\ \E kind \in {"call", "answer"} : Message("run", kind)

\* ... or the stream breaks after some text, which is kept.
PersistPartial == Asking /\ Message("run", "partial")

\* The run ends where it is: an abort, a deadline, an error of the model, of
\* the summarizer or of a tool.  A context_overflow of the model is such an
\* error: what _try_compaction plans then is the context that has just been
\* let pass.
StopRun ==
    /\ pc["run"] \in {"turn", "results"}
    /\ Done("run")
    /\ UNCHANGED <<redis, created, started, faults, erased>>

\* delete_session wipes the keys, whoever is at work on them.
Delete ==
    /\ "delete" \in Actors
    /\ header # NoHeader /\ started.commands < MaxCommands
    /\ started' = [started EXCEPT !.commands = @ + 1]
    /\ header' = NoHeader /\ entries' = <<>> /\ leaf' = 0
    /\ erased' = erased \cup DOMAIN entries \cup {0}
    /\ UNCHANGED <<lock, pc, tree, created, faults, overtaken>>

Write(a) ==
    \/ HSet(a)
    \/ SetLeaf(a, TRUE)
    \/ faults < MaxFaults /\ (Fail(a) \/ SetLeaf(a, FALSE))

Next ==
    \/ CreateHeader \/ PatchSession \/ UpdateLastInteraction \/ OverrideModel
    \/ UserMessage \/ ToolResult \/ ModelChange \/ Answer \/ PersistPartial
    \/ TryCompaction \/ CompactCommand \/ StopRun
    \/ LockExpires \/ Delete
    \/ \E a \in Actors : Load(a) \/ LoadLeaf(a) \/ Write(a)

Spec == Init /\ [][Next]_vars

(***************************************************************************)
(* What it promises                                                        *)
(***************************************************************************)
\* Types.
TypeOK ==
    /\ header \in {NoHeader} \cup {s : s \in SUBSET Fields}
    /\ DOMAIN entries \subseteq Ids
    /\ \A id \in DOMAIN entries : entries[id] \in Entry
    /\ leaf \in 0 .. MaxEntries
    /\ lock \in Actors \cup {Nobody}
    /\ pc \in [Actors -> Places]
    /\ created \in 0 .. MaxEntries /\ started \in [runs : 0 .. MaxRuns, commands : 0 .. MaxCommands]
    /\ faults \in 0 .. MaxFaults

\* Whatever breaks off an append, the stored branch is whole: the leaf is
\* stored, and so is every ancestor up to a root.  Only what was
\* erased under a run's feet is missing.
BranchWhole ==
    /\ leaf \in {0} \cup erased \cup DOMAIN entries
    /\ \A id \in Branch(entries, leaf) :
          entries[id].parent \in {0} \cup erased \cup DOMAIN entries

\* The messages and the fields that a step has to keep.
KeepsMessages ==
    \/ UNCHANGED <<entries, leaf>>
    \/ Branch(entries, leaf) \subseteq Branch(entries', leaf')
    \/ erased' # {}
    \/ \E a \in overtaken.tree : SetLeaf(a, TRUE) \/ SetLeaf(a, FALSE)
KeepsFields ==
    \/ Delete \/ header = NoHeader \/ header \subseteq header'
    \/ \E a \in overtaken.header : WritesHeader(a)

\* As long as the session is not deleted, a message leaves the stored branch
\* only when someone appends to a tree that another has extended since it was
\* loaded, and a field of the header is unset only by someone whose header
\* another has replaced since it was loaded (append_entry, save_header).
HistoryIsKept == [][KeepsMessages /\ KeepsFields]_vars

\* When a run asks the model, the prompt and the summary in it tell of every
\* message on the stored branch that no plan has wanted to keep word for
\* word, and of the messages since the last compaction; but of nothing below
\* an entry that the run behind a summary had not read.
PromptTellsHistory ==
    (Asking /\ "run" \notin overtaken.tree) =>
        LET branch == Branch(Without(entries, overtaken.unread), leaf)
        IN  Said(entries, branch)
              \subseteq About(tree["run"].entries, Prompt("run")) \cup Wanted(entries, branch)

\* When a run asks the model, the prompt and the summary in it tell of every
\* message on the stored branch: the recent ones are kept word for word
\* (docs/en/compaction-guide.md:3).
RecentMessagesKept ==
    (Asking /\ "run" \notin overtaken.tree) =>
        Said(entries, Branch(entries, leaf)) \subseteq About(tree["run"].entries, Prompt("run"))

\* The stored tree and the prompts built from it tell of the conversation
\* (RedisSessionStore, build_session_context).
HistoryIsWhole ==
    /\ TypeOK /\ BranchWhole /\ PromptTellsHistory
=============================================================================

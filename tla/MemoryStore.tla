---------------------------- MODULE MemoryStore ----------------------------
(***************************************************************************)
(* The memory of one session key in one worker: rows in a SQLite database, *)
(* a bounded index of them in Redis (L1), and archives of rotated sessions *)
(* with their embedding vectors (L4).  Two stores without a transaction in *)
(* common, several tasks, and one SQLite connection that the threads of    *)
(* all tasks share.                                                        *)
(***************************************************************************)
EXTENDS Naturals, Sequences, FiniteSets, FiniteSetsExt

CONSTANTS
    Client,      \* tasks of the worker that use the store
    Key,         \* session keys, each with a database
    Main,        \* the key whose rows are modelled
    Old,         \* keys whose full-text tables have the old tokenizer
    Entries,     \* bound on the entries stored
    Size,        \* [1..Entries -> characters an entry takes in the index]
    MaxEntries,  \* RedisL1Index.max_entries
    MaxChars,    \* RedisL1Index.max_chars
    Session,     \* rotated sessions
    MaxArchives, \* bound on the rows of archives
    MaxCalls,    \* bound on the calls of the store
    MaxEvents    \* bound on failures

Entry == 1..Entries     \* in the order of updated_at
Archive == 1..MaxArchives

MemoryAssumption ==
    /\ Main \in Key
    /\ Old \subseteq Key
    /\ Entries \in Nat /\ MaxArchives \in Nat /\ MaxCalls \in Nat /\ MaxEvents \in Nat
    /\ MaxEntries \in Nat /\ MaxChars \in Nat
    /\ Size \in [Entry -> Nat]

VARIABLES
    row,        \* [Entry -> procedures.status, "none" when there is no row]
    made,       \* entries built so far
    index,      \* fields of the L1 hash
    archives,   \* sequence of the sessions of the rows of archives
    vector,     \* [Archive -> the archival whose summary was embedded, or 0]
    opened,     \* keys in _connections
    fts,        \* [Key -> the state of its full-text tables]
    rebuild,    \* _needs_rebuild, one for all keys
    changed,    \* whether changes() of Main's connection is positive
    stage,      \* [Client -> where its call is]
    item,       \* [Client -> the entry, key or session it works on]
    victims,    \* [Client -> fields to be evicted]
    embedded,   \* [Client -> the archival whose summary it embeds]
    updated,    \* history: clients whose UPDATE archived their row
    excess,     \* history: a store failed before it had evicted
    excused,    \* history: entries whose index field was left behind
    crossed,    \* history: databases opened and sessions archived by several
                \* at a time
    calls,
    events

rows    == <<row, made, index>>
l4      == <<archives, vector>>
conn    == <<opened, fts, rebuild>>
call    == <<stage, item, victims, embedded, calls>>
history == <<updated, excess, excused, crossed, events>>
vars    == <<rows, l4, conn, changed, call, history>>

Stages == {"idle", "schema", "rebuild", "insert", "put", "list", "evict",
           "archive", "count", "unindex", "row", "embed"}

Init ==
    /\ row = [e \in Entry |-> "none"]
    /\ made = 0
    /\ index = {}
    /\ archives = <<>>
    /\ vector = [a \in Archive |-> 0]
    /\ opened = {}
    /\ fts = [k \in Key |-> IF k \in Old THEN "trigram" ELSE "jieba"]
    /\ rebuild = FALSE
    /\ changed = FALSE
    /\ stage = [c \in Client |-> "idle"]
    /\ item = [c \in Client |-> 0]
    /\ victims = [c \in Client |-> {}]
    /\ embedded = [c \in Client |-> 0]
    /\ updated = {}
    /\ excess = FALSE
    /\ excused = {}
    /\ crossed = {}
    /\ calls = 0
    /\ events = 0

-----------------------------------------------------------------------------
Event == events < MaxEvents /\ events' = events + 1

Start(c, s, x) ==
    /\ stage[c] = "idle"
    /\ stage' = [stage EXCEPT ![c] = s]
    /\ item' = [item EXCEPT ![c] = x]
    /\ calls < MaxCalls
    /\ calls' = calls + 1
    /\ UNCHANGED <<victims, embedded>>

GoTo(c, s) ==
    /\ stage' = [stage EXCEPT ![c] = s]
    /\ UNCHANGED <<item, victims, embedded, calls>>

\* The call returns or raises.
Return(c) ==
    /\ stage' = [stage EXCEPT ![c] = "idle"]
    /\ item' = [item EXCEPT ![c] = 0]
    /\ victims' = [victims EXCEPT ![c] = {}]
    /\ embedded' = [embedded EXCEPT ![c] = 0]
    /\ UNCHANGED calls

-----------------------------------------------------------------------------
(* The connection of a key.                                                *)

\* A thread finds the key without a connection and starts on its schema.
Open(c, k) ==
    /\ k \notin opened
    /\ Start(c, "schema", k)
    /\ rebuild' = FALSE
    /\ crossed' = IF \E o \in Client : stage[o] \in {"schema", "rebuild"}
                  THEN crossed \cup {k} \cup {item[o] : o \in
                           {d \in Client : stage[d] \in {"schema", "rebuild"}}}
                  ELSE crossed
    /\ UNCHANGED <<rows, l4, opened, fts, changed, updated, excess, excused, events>>

MigrateFts(c) ==
    LET k == item[c] IN
    /\ stage[c] = "schema"
    /\ rebuild' = (fts[k] = "trigram")
    /\ fts' = IF fts[k] = "trigram" THEN [fts EXCEPT ![k] = "empty"] ELSE fts
    /\ GoTo(c, "rebuild")
    /\ UNCHANGED <<rows, l4, opened, changed, history>>

Rebuild(c) ==
    LET k == item[c] IN
    /\ stage[c] = "rebuild"
    /\ fts' = IF rebuild THEN [fts EXCEPT ![k] = "jieba"] ELSE fts
    /\ opened' = opened \cup {k}
    /\ Return(c)
    /\ UNCHANGED <<rows, l4, rebuild, changed, history>>

-----------------------------------------------------------------------------
(* memorize: a row, then its field in the index.                           *)

Memorize(c) ==
    /\ Main \in opened
    /\ made < Entries
    /\ made' = made + 1
    /\ Start(c, "insert", made + 1)
    /\ UNCHANGED <<row, index, l4, conn, changed, history>>

Insert(c) ==
    /\ stage[c] = "insert"
    /\ row' = [row EXCEPT ![item[c]] = "active"]
    /\ changed' = TRUE
    /\ GoTo(c, "put")
    /\ UNCHANGED <<made, index, l4, conn, history>>

\* The entry may have been forgotten since its row was written.
PutIndex(c) ==
    /\ stage[c] = "put"
    /\ index' = index \cup {item[c]}
    /\ excused' = IF row[item[c]] = "active" THEN excused ELSE excused \cup {item[c]}
    /\ GoTo(c, "list")
    /\ UNCHANGED <<row, made, l4, conn, changed, updated, excess, crossed, events>>

Fits(S) ==
    /\ Cardinality(S) <= MaxEntries
    /\ MapThenSumSet(LAMBDA e : Size[e], S) <= MaxChars

\* Oldest first, until what is left fits.
Excess(S) == {e \in S : ~Fits({f \in S : f >= e})}

ListIndex(c) ==
    /\ stage[c] = "list"
    /\ excess' = FALSE
    /\ IF Excess(index) = {}
       THEN Return(c)
       ELSE /\ stage' = [stage EXCEPT ![c] = "evict"]
            /\ victims' = [victims EXCEPT ![c] = Excess(index)]
            /\ UNCHANGED <<item, embedded, calls>>
    /\ UNCHANGED <<rows, l4, conn, changed, updated, excused, crossed, events>>

EvictOne(c) ==
    LET e == Min(victims[c]) IN
    /\ stage[c] = "evict"
    /\ index' = index \ {e}
    /\ IF victims[c] = {e}
       THEN Return(c)
       ELSE /\ victims' = [victims EXCEPT ![c] = @ \ {e}]
            /\ UNCHANGED <<stage, item, embedded, calls>>
    /\ UNCHANGED <<row, made, l4, conn, changed, history>>

\* SQLite or Redis raises: the tool reports a failure, what is written stays.
FailStore(c) ==
    /\ stage[c] \in {"insert", "put", "list", "evict"}
    /\ Event
    /\ excess' = (excess \/ stage[c] \in {"list", "evict"})
    /\ Return(c)
    /\ UNCHANGED <<rows, l4, conn, changed, updated, excused, crossed>>

-----------------------------------------------------------------------------
(* forget: the row is archived, then leaves the index.                     *)

Forget(c, e) ==
    /\ Main \in opened
    /\ row[e] = "active"
    /\ Start(c, "archive", e)
    /\ UNCHANGED <<rows, l4, conn, changed, history>>

ArchiveRow(c) ==
    LET e == item[c]
        found == row[e] = "active" IN
    /\ stage[c] = "archive"
    /\ row' = IF found THEN [row EXCEPT ![e] = "archived"] ELSE row
    /\ changed' = found
    /\ updated' = IF found THEN updated \cup {c} ELSE updated
    /\ GoTo(c, "count")
    /\ UNCHANGED <<made, index, l4, conn, excess, excused, crossed, events>>

\* Mutant: the index is left alone when a row was archived.
CountInverted(c) ==
    /\ stage[c] = "count"
    /\ IF changed THEN Return(c) ELSE GoTo(c, "unindex")
    /\ updated' = updated \ {c}
    /\ excused' = IF c \in updated /\ ~changed THEN excused \cup {item[c]} ELSE excused
    /\ UNCHANGED <<rows, l4, conn, changed, excess, crossed, events>>

\* changes() is the connection's: another thread's statement may have come
\* in between.
CountChanges(c) ==
    /\ stage[c] = "count"
    /\ IF changed THEN GoTo(c, "unindex") ELSE Return(c)
    /\ updated' = updated \ {c}
    /\ excused' = IF c \in updated /\ ~changed THEN excused \cup {item[c]} ELSE excused
    /\ UNCHANGED <<rows, l4, conn, changed, excess, crossed, events>>

Unindex(c) ==
    /\ stage[c] = "unindex"
    /\ index' = index \ {item[c]}
    /\ Return(c)
    /\ UNCHANGED <<row, made, l4, conn, changed, history>>

\* Redis raises; the failure is logged.
FailUnindex(c) ==
    /\ stage[c] = "unindex"
    /\ Event
    /\ excused' = excused \cup {item[c]}
    /\ Return(c)
    /\ UNCHANGED <<rows, l4, conn, changed, updated, excess, crossed>>

\* The curator archives or graduates the row over a connection of its own.
Curate(c, e) ==
    /\ row[e] = "active"
    /\ \E s \in {"archived", "graduated"} : row' = [row EXCEPT ![e] = s]
    /\ Start(c, "unindex", e)
    /\ UNCHANGED <<made, index, l4, conn, changed, history>>

\* A search finds active rows and counts their use.
Search ==
    /\ Main \in opened /\ fts[Main] = "jieba"
    /\ \E e \in Entry : row[e] = "active"
    /\ changed' = TRUE
    /\ UNCHANGED <<rows, l4, conn, call, history>>

\* Nothing was stored for ttl_seconds.
Expire ==
    /\ \A c \in Client : stage[c] = "idle"
    /\ index # {}
    /\ Event
    /\ index' = {}
    /\ UNCHANGED <<row, made, l4, conn, changed, call, updated, excess, excused, crossed>>

-----------------------------------------------------------------------------
(* Archives of rotated sessions.                                           *)

Archiving(s) == {c \in Client : stage[c] \in {"row", "embed"} /\ item[c] = s}

ArchiveSession(c, s) ==
    /\ Main \in opened
    /\ Len(archives) + Cardinality({d \in Client : stage[d] = "row"}) < MaxArchives
    /\ Start(c, "row", s)
    /\ crossed' = IF Archiving(s) = {} THEN crossed ELSE crossed \cup {s}
    /\ UNCHANGED <<rows, l4, conn, changed, updated, excess, excused, events>>

InsertArchive(c) ==
    /\ stage[c] = "row"
    /\ archives' = Append(archives, item[c])
    /\ embedded' = [embedded EXCEPT ![c] = Len(archives) + 1]
    /\ stage' = [stage EXCEPT ![c] = "embed"]
    /\ changed' = TRUE
    /\ UNCHANGED <<rows, vector, conn, item, victims, calls, history>>

Latest(s) == Max({a \in DOMAIN archives : archives[a] = s})

\* A second vector for one id breaks the primary key and is dropped.
InsertVector(c) ==
    LET a == Latest(item[c]) IN
    /\ stage[c] = "embed"
    /\ vector' = IF vector[a] = 0 THEN [vector EXCEPT ![a] = embedded[c]] ELSE vector
    /\ changed' = (changed \/ vector[a] = 0)
    /\ Return(c)
    /\ UNCHANGED <<rows, archives, conn, history>>

\* The embedding service fails, or a statement does.
FailArchive(c) ==
    /\ stage[c] \in {"row", "embed"}
    /\ Event
    /\ Return(c)
    /\ UNCHANGED <<rows, l4, conn, changed, updated, excess, excused, crossed>>

-----------------------------------------------------------------------------
Step(c) ==
    \/ MigrateFts(c) \/ Rebuild(c)
    \/ Insert(c) \/ PutIndex(c) \/ ListIndex(c) \/ EvictOne(c)
    \/ ArchiveRow(c) \/ CountChanges(c) \/ Unindex(c)
    \/ InsertArchive(c) \/ InsertVector(c)

Next ==
    \/ \E c \in Client : Step(c)
    \/ \E c \in Client, k \in Key : Open(c, k)
    \/ \E c \in Client : Memorize(c)
    \/ \E c \in Client, e \in Entry : Forget(c, e)
    \/ \E c \in Client, e \in Entry : Curate(c, e)
    \/ \E c \in Client, s \in Session : ArchiveSession(c, s)
    \/ \E c \in Client : FailStore(c)
    \/ \E c \in Client : FailUnindex(c)
    \/ \E c \in Client : FailArchive(c)
    \/ Search
    \/ Expire

Spec == Init /\ [][Next]_vars

-----------------------------------------------------------------------------
(* Properties.                                                             *)

TypeOK ==
    /\ row \in [Entry -> {"none", "active", "archived", "graduated"}]
    /\ made \in 0..Entries
    /\ index \subseteq 1..made
    /\ archives \in Seq(Session) /\ Len(archives) <= MaxArchives
    /\ vector \in [Archive -> 0..MaxArchives]
    /\ opened \subseteq Key
    /\ fts \in [Key -> {"trigram", "empty", "jieba"}]
    /\ rebuild \in BOOLEAN /\ changed \in BOOLEAN /\ excess \in BOOLEAN
    /\ stage \in [Client -> Stages]
    /\ item \in [Client -> {0} \cup Entry \cup Key \cup Session]
    /\ victims \in [Client -> SUBSET Entry]
    /\ embedded \in [Client -> 0..MaxArchives]
    /\ updated \subseteq Client
    /\ excused \subseteq Entry
    /\ crossed \subseteq Key \cup Session
    /\ calls \in 0..MaxCalls
    /\ events \in 0..MaxEvents

Storing == \E c \in Client : stage[c] \in {"put", "list", "evict"}

\* The index is within its bounds whenever no store is under way, however
\* the stores, the evictions and the removals interleaved; only a store that
\* failed before its eviction leaves more, until the next one
\* (RedisL1Index._evict).
IndexWithinBounds == ~Storing /\ ~excess => Fits(index)

\* A row that is archived or graduated is not in the index any more once
\* whoever took it is done.  The known ways around it, each for the one entry
\* it happened to: the removal failed, the entry was forgotten between its
\* row and its field, or changes() told of another thread's statement
\* (CompositeMemoryStore.store and archive_entry).
ArchivedLeavesIndex ==
    \A e \in index \ excused :
        \/ row[e] = "active"
        \/ \E c \in Client : stage[c] \in {"count", "unindex"} /\ item[c] = e

\* A vector was computed from the summary in its own row, unless two
\* archivals of that session overlapped
\* (SqliteMemoryBackend.archive_session).
VectorsFit ==
    \A a \in DOMAIN archives :
        vector[a] \in {0, a} \/ archives[a] \in crossed

\* A database in use has full-text tables that hold its rows, unless another
\* database was opened while its tables were migrated: the flag that asks for
\* the rebuild is the backend's, not the database's
\* (SqliteMemoryBackend._ensure_schema_sync).
OpenedIsSearchable == \A k \in opened \ crossed : fts[k] = "jieba"

\* Rows, index, vectors and full-text tables agree (CompositeMemoryStore,
\* RedisL1Index, SqliteMemoryBackend).
StoresAgree ==
    /\ TypeOK /\ IndexWithinBounds /\ ArchivedLeavesIndex /\ VectorsFit
    /\ OpenedIsSearchable
=============================================================================

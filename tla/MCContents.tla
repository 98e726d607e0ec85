----------------------------- MODULE MCContents -----------------------------
(***************************************************************************)
(* What pyclaw keeps and shows, in one run of TLC: the memory store, the   *)
(* skills on disk, the caches a prompt is made from, the answers in Feishu *)
(* and the users' tiers.  They share no state: `part' says which of them a *)
(* behaviour is about, and the others stay in their initial states.  In    *)
(* the one state of the part "functions" the pure functions are checked    *)
(* over all their small inputs.                                            *)
(***************************************************************************)
EXTENDS Naturals

CONSTANTS
    \* MemoryStore
    c1, c2, main, other, a1, a2, Entries, MaxEntries, MaxChars, MaxArchives, MaxCalls,
    \* SkillCatalog
    v1, v2, Sop, Absent, here, local, shared, claude, i1, i2, Slugs, Hashed, MaxCandidates,
    MaxLoaded, MaxInstalls,
    \* PromptContext
    t1, t2, p1, n1, r1, r2, k1, k2, None, TextSize, MaxMemory, MaxCached, MaxWorld, MaxRuns,
    MaxUpdates,
    \* FeishuAnswer
    f1, f2, MaxImages, MaxSent, MaxHandled, MaxChunks,
    \* UserTiers
    ann, bob, x1, x2, Low, High, MaxCommands,
    MaxEvents    \* of each part

Client == {c1, c2}
Installer == {i1, i2}

\* The second entry takes two characters of the index, the others one.
Weight == [e \in 1 .. Entries |-> IF e = 2 THEN 2 ELSE 1]
\* A workspace's own skills take precedence over the shared ones.
Sources == [w \in {here} |-> <<shared, local>>]
SkillsDir == [w \in {here} |-> local]
ClaudeDir == [w \in {here} |-> claude]
Title == [s \in 1 .. Slugs |-> IF s = 1 THEN 1 ELSE 3]
Needs == [s \in 1 .. Slugs |->
            [os |-> TRUE, always |-> s = 1, meets |-> s # 1, hidden |-> FALSE]]
\* Both sessions are the same person's.
KeyOf == [s \in {t1, t2} |-> p1]
\* One user is an admin by the settings, which know nothing of the other.
Configured == [u \in {ann, bob} |-> IF u = ann THEN [role |-> "admin", tier |-> None] ELSE None]

VARIABLES
    part,
    row, made, index, archives, vector, opened, fts, rebuild, changed, doing, item, victims,
    embedded, updated, excess, excused, crossed, asked, failures,
    dirs, lock, latest, installing, job, judged, offers, cache, resolved, torn, raced, installs,
    events,
    world, boot, snapshot, recalled, turn, fields, order, ended, disturbed, replaced, runs,
    updates, mishaps,
    step, images, text, answering, card, said, sent, handled, hurt, delays,
    stored, chosen, at, errand, commands, losses, shaken

memoryVars ==
    <<row, made, index, archives, vector, opened, fts, rebuild, changed, doing, item, victims,
      embedded, updated, excess, excused, crossed, asked, failures>>
skillVars ==
    <<dirs, lock, latest, installing, job, judged, offers, cache, resolved, torn, raced, installs,
      events>>
promptVars ==
    <<world, boot, snapshot, recalled, turn, fields, order, ended, disturbed, replaced, runs,
      updates, mishaps>>
answerVars == <<step, images, text, answering, card, said, sent, handled, hurt, delays>>
tierVars == <<stored, chosen, at, errand, commands, losses, shaken>>
vars == <<part, memoryVars, skillVars, promptVars, answerVars, tierVars>>

M == INSTANCE MemoryStore
       WITH Key <- {main, other}, Main <- main, Old <- {main}, Session <- {a1, a2},
            Size <- Weight, stage <- doing, calls <- asked, events <- failures
S == INSTANCE SkillCatalog
       WITH Version <- {v1, v2}, Workspace <- {here}, Root <- {local, shared, claude},
            stage <- installing
P == INSTANCE PromptContext
       WITH Session <- {t1, t2}, Shared <- {t2}, Person <- {p1}, Message <- {n1},
            Run <- {r1, r2}, WorkingKey <- {k1, k2}, Sizes <- {TextSize}, MaxChars <- MaxMemory,
            cache <- recalled, run <- turn, changed <- replaced, events <- mishaps
F == INSTANCE FeishuAnswer WITH Message <- {f1, f2}, run <- answering, events <- delays
U == INSTANCE UserTiers
       WITH User <- {ann, bob}, Task <- {x1, x2}, Tier <- {Low, High}, Operator <- {},
            Deployed <- Low, job <- errand, events <- losses

ASSUME ContentsAssumption ==
    /\ M!MemoryAssumption /\ S!CatalogAssumption /\ P!ContextAssumption
    /\ F!AnswerAssumption /\ U!TiersAssumption

Init ==
    /\ part \in {"memory", "skills", "prompt", "answer", "admins", "tiers", "functions"}
    /\ M!Init /\ S!Init /\ P!Init /\ F!Init /\ U!Init
    /\ latest[1] = v1    \* the versions may change their names
    /\ part # "skills" => latest[2] = v1

\* Only the machine of this part moves.
Memory_ ==
    part = "memory" /\ UNCHANGED <<part, skillVars, promptVars, answerVars, tierVars>>
Skills_ ==
    part = "skills" /\ UNCHANGED <<part, memoryVars, promptVars, answerVars, tierVars>>
Prompt_ ==
    part = "prompt" /\ UNCHANGED <<part, memoryVars, skillVars, answerVars, tierVars>>
Answer_ ==
    part = "answer" /\ UNCHANGED <<part, memoryVars, skillVars, promptVars, tierVars>>
Tiers_ == UNCHANGED <<part, memoryVars, skillVars, promptVars, answerVars>>

\* The two messages are alike, so it does not matter which handler is cancelled.
OneIsCut == step'[f1] # "cut"

\* Overlapping /admin user set for roles, without any run; and one command,
\* for a role or a tier, next to the runs of one task.
OnlyRoles ==
    /\ chosen' = None
    /\ \A t \in {x1, x2} : errand'[t].tier = None /\ at'[t] \notin {"resolve", "run"}
OneCommand ==
    /\ commands' <= 1
    /\ at'[x1] \in {"idle", "resolve", "run"} /\ at'[x2] \notin {"resolve", "run"}

Next ==
    \/ Memory_ /\ M!Next
    \/ Skills_ /\ S!Next
    \/ Prompt_ /\ P!Next
    \/ Answer_ /\ F!Next /\ OneIsCut
    \/ part = "admins" /\ Tiers_ /\ U!Next /\ OnlyRoles
    \/ part = "tiers" /\ Tiers_ /\ U!Next /\ OneCommand

Spec == Init /\ [][Next]_vars

-----------------------------------------------------------------------------
\* Rows, index, vectors and full-text tables agree (CompositeMemoryStore,
\* RedisL1Index, SqliteMemoryBackend).
StoresAgree == part = "memory" => M!StoresAgree
\* Installed files, lock.json and the catalog agree (install_skill,
\* discover_skills, build_skills_prompt).
CatalogIsSound ==
    /\ part = "skills" => S!CatalogIsSound
    /\ part = "functions" => S!CatalogIsLargest
\* Caches, working memory and budgets hold (DefaultContextEngine,
\* UpdateWorkingMemoryTool, enforce_system_budget).
PromptsFit ==
    /\ part = "prompt" => P!PromptsFit
    /\ part = "functions" => P!BudgetsFit
\* The user sees what the run said (stream_agent_reply, FeishuStreamingCard).
AnswersReachUsers == part = "answer" => F!AnswersReachUsers
\* Admins and tiers are what the commands have made of them (_handle_set,
\* resolve_effective_tier).
TiersHold == part \in {"admins", "tiers"} => U!TiersHold
=============================================================================

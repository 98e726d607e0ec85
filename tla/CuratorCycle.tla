---------------------------- MODULE CuratorCycle ----------------------------
(***************************************************************************)
(* The curator: a loop in every worker that, under the cycle's lock, scans *)
(* the SOP databases (archives what is stale, graduates what is ripe into  *)
(* SKILL.md files) and lets a model review what is active.  Users restore, *)
(* forget and graduate SOPs meanwhile without that lock.                   *)
(*                                                                         *)
(* The lock is the one of CriticalSection: who passes check_alive has it,  *)
(* and it may be lost at any time between two checks.  A row and its skill *)
(* file are in two stores that have no transaction in common.              *)
(***************************************************************************)
EXTENDS Naturals, FiniteSets

CONSTANTS
    Worker,           \* processes with a curator loop
    Databases,        \* number of memory databases, one per session key
    Sop,              \* rows of type auto_sop
    Skill,            \* skill directories
    Home,             \* [Sop -> the database its row is in]
    Title,            \* [Sop -> the skill directory of its session and name]
    None,             \* no worker, no SOP
    ScanConcurrency,  \* SCAN_CONCURRENCY
    MaxEvents         \* bound on what goes wrong and on what others do

Db == 1..Databases  \* in the order of their names

ASSUME CuratorAssumption ==
    /\ Databases \in Nat
    /\ Home \in [Sop -> Db]
    /\ Title \in [Sop -> Skill]
    /\ None \notin Worker \cup Sop
    /\ ScanConcurrency \in Nat \ {0}
    /\ MaxEvents \in Nat

VARIABLES
    status,    \* [Sop -> procedures.status]
    stale,     \* SOPs not used for archive_after_days
    ripe,      \* SOPs used often enough and created long enough ago
    skill,     \* [Skill -> the SOP its SKILL.md was written from]
    lock,      \* the worker whose token is in the lock's key
    due,       \* which of scan and review are past their interval
    stage,     \* [Worker -> where its cycle is]
    loops,     \* workers whose create_curator_loop still runs
    manual,    \* workers whose cycle is /curator review-trigger's
    scan,      \* [Worker -> [Db -> where the scan of that database is]]
    chosen,    \* [Worker -> [Db -> rows selected and not yet dealt with]]
    hand,      \* [Worker -> [Db -> the row to be marked next]]
    left,      \* [Worker -> databases still to be reviewed]
    todo,      \* [Worker -> the model's decisions not yet carried out]
    picked,    \* rows selected by the command line's graduate
    holding,   \* the row whose skill it has written and which it marks next
    intruded,  \* history: somebody wrote without the lock
    torn,      \* history: a skill was left behind by a crash, a failure or a
               \* restored row
    late,      \* history: [Worker -> rows its review changed after a loss]
    events     \* how much went wrong or was done by others so far

table   == <<status, stale, ripe, skill>>
work    == <<chosen, hand, left, todo>>
tool    == <<picked, holding>>
history == <<intruded, torn, late, events>>
vars    == <<table, lock, due, stage, loops, manual, scan, work, tool, history>>

Stages == {"idle", "wanting", "scan", "permit", "next", "ask", "answer",
           "decide", "promoting", "archiving", "markScan", "markBoth", "markReview",
           "leave"}
Phases == {"waiting", "select", "archive", "find", "graduate", "done", "failed", "lost"}
Decision == Sop \X {"promote", "archive"}

\* The cycle's object is gone.
NoWork(w) ==
    /\ manual' = manual \ {w}
    /\ scan' = [scan EXCEPT ![w] = [d \in Db |-> "waiting"]]
    /\ late' = [late EXCEPT ![w] = 0]
    /\ chosen' = [chosen EXCEPT ![w] = [d \in Db |-> {}]]
    /\ hand' = [hand EXCEPT ![w] = [d \in Db |-> None]]
    /\ left' = [left EXCEPT ![w] = {}]
    /\ todo' = [todo EXCEPT ![w] = {}]

Init ==
    /\ status = [r \in Sop |-> "active"]
    /\ stale \in SUBSET Sop
    /\ ripe \in SUBSET Sop
    /\ skill = [n \in Skill |-> None]
    /\ lock = None
    /\ due = {}
    /\ stage = [w \in Worker |-> "idle"]
    /\ loops = Worker
    /\ manual = {}
    /\ scan = [w \in Worker |-> [d \in Db |-> "waiting"]]
    /\ chosen = [w \in Worker |-> [d \in Db |-> {}]]
    /\ hand = [w \in Worker |-> [d \in Db |-> None]]
    /\ left = [w \in Worker |-> {}]
    /\ todo = [w \in Worker |-> {}]
    /\ picked = {}
    /\ holding = None
    /\ intruded = FALSE
    /\ torn = FALSE
    /\ late = [w \in Worker |-> 0]
    /\ events = 0

-----------------------------------------------------------------------------
(* Rows, files and the lock.                                               *)

Alive(w) == lock = w
Inside(w) == stage[w] \notin {"idle", "wanting"}

Active(d) == {r \in Sop : Home[r] = d /\ status[r] = "active"}

\* An UPDATE by id, whatever the rows' status has become meanwhile.
Set(R, s) == status' = [r \in Sop |-> IF r \in R THEN s ELSE status[r]]

\* Mutant: a namesake's file is no obstacle.
FreeAlways(r) == TRUE

\* graduate_single_sop looks for the file and writes it; nothing is awaited
\* between the two.
Free(r) == skill[Title[r]] = None
Write(r) == skill' = [skill EXCEPT ![Title[r]] = r]

Trespass(w, R) == intruded' = (intruded \/ (R # {} /\ ~Alive(w)))

Event == events < MaxEvents /\ events' = events + 1

GoTo(w, s) == stage' = [stage EXCEPT ![w] = s]
Phase(w, d, s) == scan' = [scan EXCEPT ![w][d] = s]

-----------------------------------------------------------------------------
(* The loop.                                                               *)

\* create_curator_loop has slept and finds that the last scan is long ago.
Want(w) ==
    /\ w \in loops
    /\ stage[w] = "idle"
    /\ "scan" \in due
    /\ GoTo(w, "wanting")
    /\ UNCHANGED <<table, lock, due, manual, scan, work, tool, loops, history>>

\* /curator review-trigger --confirm: a review only, whatever the interval.
Trigger(w) ==
    /\ stage[w] = "idle"
    /\ Event
    /\ manual' = manual \cup {w}
    /\ GoTo(w, "wanting")
    /\ UNCHANGED <<table, lock, due, scan, work, tool, loops, intruded, torn, late>>

Acquire(w) ==
    /\ stage[w] = "wanting"
    /\ lock = None
    /\ lock' = w
    /\ GoTo(w, IF w \in manual THEN "permit" ELSE "scan")
    /\ UNCHANGED <<table, due, manual, scan, work, tool, loops, history>>

\* LockAcquireError: the cycle reports acquired=False.
Busy(w) ==
    /\ stage[w] = "wanting"
    /\ lock # None
    /\ GoTo(w, "idle")
    /\ NoWork(w)
    /\ UNCHANGED <<table, lock, due, tool, loops, intruded, torn, events>>

\* Redis fails under get_last_scan_at or seed_if_missing: nothing catches it,
\* and nobody starts the loop again.  A cycle of /curator's goes on.
EndLoop(w) ==
    /\ w \in loops
    /\ stage[w] = "idle" \/ w \in manual
    /\ loops' = loops \ {w}
    /\ UNCHANGED <<table, lock, due, stage, manual, scan, work, tool, history>>

\* Redis fails under the SET of the lock, perhaps after it was carried out.
\* Only LockAcquireError is caught, and the loop ends, or the command's task.
FailAcquire(w) ==
    /\ stage[w] = "wanting"
    /\ lock' \in {lock, IF lock = None THEN w ELSE lock}
    /\ loops' = IF w \in manual THEN loops ELSE loops \ {w}
    /\ GoTo(w, "idle")
    /\ NoWork(w)
    /\ UNCHANGED <<table, due, tool, intruded, torn, events>>

\* The end of "async with mutex": release deletes the key if it is ours; its
\* failure is only logged, and the key expires.
Leave(w) ==
    /\ stage[w] = "leave"
    /\ GoTo(w, "idle")
    /\ lock' \in IF Alive(w) THEN {None, w} ELSE {lock}
    /\ NoWork(w)
    /\ UNCHANGED <<table, due, tool, loops, intruded, torn, events>>

-----------------------------------------------------------------------------
(* The scan.  The databases are gathered, ScanConcurrency of them at once. *)

Running(w) == {d \in Db : scan[w][d] \in {"select", "archive", "find", "graduate"}}

\* Past the semaphore check_alive is asked; gather collects its error.
StartScan(w, d) ==
    /\ stage[w] = "scan"
    /\ scan[w][d] = "waiting"
    /\ \A e \in Db : e < d => scan[w][e] # "waiting"
    /\ Cardinality(Running(w)) < ScanConcurrency
    /\ Phase(w, d, IF Alive(w) THEN "select" ELSE "lost")
    /\ UNCHANGED <<table, lock, due, stage, manual, work, tool, loops, history>>

\* Mutant: only what was used often enough is looked at.
SelectStaleRipe(w, d) ==
    /\ scan[w][d] = "select"
    /\ chosen' = [chosen EXCEPT ![w][d] = Active(d) \cap stale \cap ripe]
    /\ Phase(w, d, "archive")
    /\ UNCHANGED <<table, lock, due, stage, manual, hand, left, todo, tool, loops, history>>

SelectStale(w, d) ==
    /\ scan[w][d] = "select"
    /\ chosen' = [chosen EXCEPT ![w][d] = Active(d) \cap stale]
    /\ Phase(w, d, "archive")
    /\ UNCHANGED <<table, lock, due, stage, manual, hand, left, todo, tool, loops, history>>

ArchiveStale(w, d) ==
    /\ scan[w][d] = "archive"
    /\ Set(chosen[w][d], "archived")
    /\ Trespass(w, chosen[w][d])
    /\ chosen' = [chosen EXCEPT ![w][d] = {}]
    /\ Phase(w, d, "find")
    /\ UNCHANGED <<stale, ripe, skill, lock, due, stage, manual, hand, left, todo,
                   tool, loops, torn, late, events>>

FindCandidates(w, d) ==
    /\ scan[w][d] = "find"
    /\ chosen' = [chosen EXCEPT ![w][d] = Active(d) \cap ripe]
    /\ Phase(w, d, "graduate")
    /\ UNCHANGED <<table, lock, due, stage, manual, hand, left, todo, tool, loops, history>>

\* A candidate whose skill exists is passed over and stays active.
WriteSkill(w, d, r) ==
    /\ scan[w][d] = "graduate"
    /\ hand[w][d] = None
    /\ r \in chosen[w][d]
    /\ chosen' = [chosen EXCEPT ![w][d] = @ \ {r}]
    /\ IF Free(r)
       THEN /\ Write(r)
            /\ hand' = [hand EXCEPT ![w][d] = r]
            /\ Trespass(w, {r})
       ELSE UNCHANGED <<skill, hand, intruded>>
    /\ UNCHANGED <<status, stale, ripe, lock, due, stage, manual, scan, left, todo,
                   tool, loops, torn, late, events>>

MarkGraduated(w, d) ==
    /\ scan[w][d] = "graduate"
    /\ stage[w] = "scan"
    /\ hand[w][d] # None
    /\ Set({hand[w][d]}, "graduated")
    /\ hand' = [hand EXCEPT ![w][d] = None]
    /\ Trespass(w, {hand[w][d]})
    /\ UNCHANGED <<stale, ripe, skill, lock, due, stage, manual, scan, chosen, left,
                   todo, tool, loops, torn, late, events>>

EndScan(w, d) ==
    /\ scan[w][d] = "graduate"
    /\ chosen[w][d] = {}
    /\ hand[w][d] = None
    /\ Phase(w, d, "done")
    /\ UNCHANGED <<table, lock, due, stage, manual, work, tool, loops, history>>

\* A database error ends the scan of one database; gather collects it.
FailScan(w, d) ==
    /\ scan[w][d] \in {"select", "archive", "find", "graduate"}
    /\ Event
    /\ Phase(w, d, "failed")
    /\ chosen' = [chosen EXCEPT ![w][d] = {}]
    /\ hand' = [hand EXCEPT ![w][d] = None]
    /\ torn' = (torn \/ hand[w][d] # None)
    /\ UNCHANGED <<table, lock, due, stage, manual, left, todo, tool, loops, intruded, late>>

\* Mutant: the first result ends the scan.
GatheredFirst(w) ==
    /\ stage[w] = "scan"
    /\ \E d \in Db : scan[w][d] \in {"done", "failed", "lost"}
    /\ GoTo(w, "permit")
    /\ UNCHANGED <<table, lock, due, manual, scan, work, tool, loops, history>>

Gathered(w) ==
    /\ stage[w] = "scan"
    /\ \A d \in Db : scan[w][d] \in {"done", "failed", "lost"}
    /\ GoTo(w, "permit")
    /\ UNCHANGED <<table, lock, due, manual, scan, work, tool, loops, history>>

-----------------------------------------------------------------------------
(* The review.                                                             *)

MayReview(w) == w \in manual \/ "review" \in due

\* Without the right to review, what was done so far is marked; a lost lock
\* raises LockLostError, after which nothing is.
Permit(w) ==
    /\ stage[w] = "permit"
    /\ IF ~MayReview(w)
       THEN GoTo(w, "markScan") /\ UNCHANGED left
       ELSE IF Alive(w)
            THEN GoTo(w, "next") /\ left' = [left EXCEPT ![w] = Db]
            ELSE GoTo(w, "leave") /\ UNCHANGED left
    /\ UNCHANGED <<table, lock, due, manual, scan, chosen, hand, todo, tool, loops, history>>

\* A database without active SOPs is done at once.
NextDb(w, d) ==
    /\ stage[w] = "next"
    /\ d \in left[w]
    /\ \A e \in left[w] : d <= e
    /\ chosen' = [chosen EXCEPT ![w][d] = IF Alive(w) THEN Active(d) ELSE {}]
    /\ IF Alive(w) /\ Active(d) = {}
       THEN left' = [left EXCEPT ![w] = @ \ {d}] /\ UNCHANGED stage
       ELSE GoTo(w, IF Alive(w) THEN "ask" ELSE "leave") /\ UNCHANGED left
    /\ UNCHANGED <<table, lock, due, manual, scan, hand, todo, tool, loops, history>>

\* A database error in a review is logged, and the database counts as done.
FailDb(w) ==
    /\ stage[w] \in {"ask", "promoting", "archiving"}
    /\ Event
    /\ torn' = (torn \/ stage[w] = "promoting")
    /\ todo' = [todo EXCEPT ![w] = {}]
    /\ hand' = [hand EXCEPT ![w] = [d \in Db |-> None]]
    /\ GoTo(w, "decide")
    /\ UNCHANGED <<table, lock, due, manual, scan, chosen, left, tool, loops, intruded, late>>

Ask(w) ==
    /\ stage[w] = "ask"
    /\ GoTo(w, IF Alive(w) THEN "answer" ELSE "leave")
    /\ UNCHANGED <<table, lock, due, manual, scan, work, tool, loops, history>>

\* The model decides about some of the rows it was shown, perhaps twice; what
\* it keeps, other ids and an answer that cannot be parsed decide nothing.
Parsed(shown) == SUBSET (shown \X {"promote", "archive"})

\* An error or a timeout of the call is an answer without decisions.
Answer(w, decisions) ==
    /\ stage[w] = "answer"
    /\ decisions \in Parsed(UNION {chosen[w][d] : d \in Db})
    /\ todo' = [todo EXCEPT ![w] = decisions]
    /\ GoTo(w, "decide")
    /\ UNCHANGED <<table, lock, due, manual, scan, chosen, hand, left, tool, loops, history>>

\* The skill is written before check_alive is asked.
Promote(w, r) ==
    /\ stage[w] = "decide"
    /\ <<r, "promote">> \in todo[w]
    /\ todo' = [todo EXCEPT ![w] = @ \ {<<r, "promote">>}]
    /\ IF Free(r)
       THEN /\ Write(r)
            /\ Trespass(w, {r})
            /\ hand' = [hand EXCEPT ![w][Home[r]] = r]
            /\ GoTo(w, IF Alive(w) THEN "promoting" ELSE "leave")
       ELSE UNCHANGED <<skill, intruded, hand, stage>>
    /\ UNCHANGED <<status, stale, ripe, lock, due, manual, scan, chosen, left, tool, loops,
                   torn, late, events>>

Archive(w, r) ==
    /\ stage[w] = "decide"
    /\ <<r, "archive">> \in todo[w]
    /\ todo' = [todo EXCEPT ![w] = @ \ {<<r, "archive">>}]
    /\ hand' = [hand EXCEPT ![w][Home[r]] = r]
    /\ GoTo(w, IF Alive(w) THEN "archiving" ELSE "leave")
    /\ UNCHANGED <<table, lock, due, manual, scan, chosen, left, tool, loops, history>>

\* The UPDATE runs in a thread: the lock may be lost after the check.
Mark(w, d) ==
    /\ stage[w] \in {"promoting", "archiving"}
    /\ hand[w][d] # None
    /\ Set({hand[w][d]}, IF stage[w] = "promoting" THEN "graduated" ELSE "archived")
    /\ Trespass(w, {hand[w][d]})
    /\ late' = IF Alive(w) THEN late ELSE [late EXCEPT ![w] = @ + 1]
    /\ hand' = [hand EXCEPT ![w][d] = None]
    /\ GoTo(w, "decide")
    /\ UNCHANGED <<stale, ripe, skill, lock, due, manual, scan, chosen, left, todo,
                   tool, loops, torn, events>>

EndDb(w) ==
    /\ stage[w] = "decide"
    /\ todo[w] = {}
    /\ left' = [left EXCEPT ![w] = {d \in @ : chosen[w][d] = {}}]
    /\ chosen' = [chosen EXCEPT ![w] = [d \in Db |-> {}]]
    /\ GoTo(w, "next")
    /\ UNCHANGED <<table, lock, due, manual, scan, hand, todo, tool, loops, history>>

EndReview(w) ==
    /\ stage[w] = "next"
    /\ left[w] = {}
    /\ GoTo(w, IF w \in manual THEN "markReview" ELSE "markBoth")
    /\ UNCHANGED <<table, lock, due, manual, scan, work, tool, loops, history>>

\* mark_scan_completed; the review follows only if it came to its end.
MarkScan(w) ==
    /\ stage[w] \in {"markScan", "markBoth"}
    /\ due' = due \ {"scan"}
    /\ GoTo(w, IF stage[w] = "markBoth" THEN "markReview" ELSE "leave")
    /\ UNCHANGED <<table, lock, manual, scan, work, tool, loops, history>>

MarkReview(w) ==
    /\ stage[w] = "markReview"
    /\ due' = due \ {"review"}
    /\ GoTo(w, "leave")
    /\ UNCHANGED <<table, lock, manual, scan, work, tool, loops, history>>

\* Redis fails under should_run_llm_review or a mark, perhaps after the mark
\* was set: it is logged, and the cycle is over.
FailCycle(w) ==
    /\ \/ stage[w] = "permit" /\ w \notin manual /\ UNCHANGED due
       \/ stage[w] \in {"markScan", "markBoth"} /\ due' \in {due, due \ {"scan"}}
       \/ stage[w] = "markReview" /\ due' \in {due, due \ {"review"}}
    /\ Event
    /\ GoTo(w, "leave")
    /\ UNCHANGED <<table, lock, loops, manual, scan, work, tool, intruded, torn, late>>

-----------------------------------------------------------------------------
(* What goes wrong.                                                        *)

\* The key expires under a cycle that could not renew it, or was late.
LoseLock(w) ==
    /\ Alive(w)
    /\ Inside(w)
    /\ Event
    /\ lock' = None
    /\ UNCHANGED <<table, due, stage, manual, scan, work, tool, loops, intruded, torn, late>>

\* The process dies, its tasks with it, and is started again, with a loop; its
\* key stays until it expires.
Crash(w) ==
    /\ Inside(w) \/ w \notin loops
    /\ Event
    /\ loops' = loops \cup {w}
    /\ torn' = (torn \/ \E d \in Db : hand[w][d] # None)
    /\ GoTo(w, "idle")
    /\ NoWork(w)
    /\ UNCHANGED <<table, lock, due, tool, intruded>>

Expire(w) ==
    /\ Alive(w)
    /\ ~Inside(w)
    /\ lock' = None
    /\ UNCHANGED <<table, due, stage, manual, scan, work, tool, loops, history>>

-----------------------------------------------------------------------------
(* Everybody else: agents and users, the command line, the clock.          *)

\* A search hits the row, which counts as a use.
Use(r) ==
    /\ status[r] = "active"
    /\ Event
    /\ stale' = stale \ {r}
    /\ ripe' \in {ripe, ripe \cup {r}}
    /\ UNCHANGED <<status, skill, lock, due, stage, manual, scan, work, tool, loops, intruded,
                   torn, late>>

Age(r) ==
    /\ r \notin stale
    /\ Event
    /\ stale' = stale \cup {r}
    /\ UNCHANGED <<status, ripe, skill, lock, due, stage, manual, scan, work, tool, loops,
                   intruded, torn, late>>

\* The forget tool archives an active row, and only an active one.
Forget(r) ==
    /\ status[r] = "active"
    /\ Event
    /\ Set({r}, "archived")
    /\ UNCHANGED <<stale, ripe, skill, lock, due, stage, manual, scan, work, tool, loops,
                   intruded, torn, late>>

\* The stores share no transaction: the skill of a restored row stays.
Restored(r) ==
    /\ status[r] = "archived"
    /\ Set({r}, "active")
    /\ torn' = (torn \/ skill[Title[r]] = r)

\* /curator restore --confirm, and pyclaw-skill curator restore.
Restore(r) ==
    /\ Restored(r)
    /\ Event
    /\ UNCHANGED <<stale, ripe, skill, lock, due, stage, manual, scan, work, tool, loops,
                   intruded, late>>

\* pyclaw-skill curator graduate: all that are ripe, or one by its id.
ToolSelect(R) ==
    /\ picked = {} /\ holding = None
    /\ Event
    /\ \/ R = {r \in Sop : status[r] = "active" /\ r \in ripe}
       \/ \E r \in Sop : status[r] = "active" /\ R = {r}
    /\ picked' = R
    /\ UNCHANGED <<table, lock, due, stage, manual, scan, work, holding, loops, intruded,
                   torn, late>>

ToolWrite(r) ==
    /\ holding = None
    /\ r \in picked
    /\ picked' = picked \ {r}
    /\ IF Free(r)
       THEN Write(r) /\ holding' = r /\ intruded' = TRUE
       ELSE UNCHANGED <<skill, holding, intruded>>
    /\ UNCHANGED <<status, stale, ripe, lock, due, stage, manual, scan, work, loops, torn, late,
                   events>>

ToolMark ==
    /\ holding # None
    /\ Set({holding}, "graduated")
    /\ holding' = None
    /\ UNCHANGED <<stale, ripe, skill, lock, due, stage, manual, scan, work, picked, loops, history>>

\* interval_seconds and llm_review_interval_seconds pass; they are longer than
\* any cycle.
Interval(x) ==
    /\ \A w \in Worker : stage[w] = "idle"
    /\ due' = due \cup {x}
    /\ UNCHANGED <<table, lock, stage, manual, scan, work, tool, loops, history>>

-----------------------------------------------------------------------------

ScanStep(w, d) ==
    \/ StartScan(w, d) \/ SelectStale(w, d) \/ ArchiveStale(w, d) \/ FindCandidates(w, d)
    \/ \E r \in Sop : WriteSkill(w, d, r)
    \/ MarkGraduated(w, d) \/ EndScan(w, d)

ReviewStep(w) ==
    \/ Permit(w) \/ Ask(w) \/ EndDb(w) \/ EndReview(w) \/ MarkScan(w) \/ MarkReview(w)
    \/ \E d \in Db : NextDb(w, d) \/ Mark(w, d)
    \/ \E decisions \in SUBSET Decision : Answer(w, decisions)
    \/ \E r \in Sop : Promote(w, r) \/ Archive(w, r)

CycleStep(w) ==
    \/ Acquire(w) \/ Busy(w) \/ Gathered(w) \/ ReviewStep(w) \/ Leave(w)
    \/ \E d \in Db : ScanStep(w, d)

Others ==
    \/ \E r \in Sop : Use(r) \/ Age(r) \/ Forget(r) \/ Restore(r) \/ ToolWrite(r)
    \/ \E R \in SUBSET Sop : ToolSelect(R)
    \/ ToolMark
    \/ \E x \in {"scan", "review"} : Interval(x)

Next ==
    \/ \E w \in Worker :
        \/ CycleStep(w) \/ Want(w) \/ Trigger(w)
        \/ EndLoop(w) \/ FailAcquire(w) \/ FailCycle(w)
        \/ LoseLock(w) \/ Crash(w) \/ Expire(w) \/ FailDb(w)
        \/ \E d \in Db : FailScan(w, d)
    \/ Others

Spec == Init /\ [][Next]_vars

\* The event loop and the threads go on, a key expires, time passes.  A loop
\* that still runs looks again; none must end, and none is started again.
FairSpec ==
    /\ Spec
    /\ \A w \in Worker : WF_vars(CycleStep(w)) /\ WF_vars(Want(w)) /\ WF_vars(Expire(w))
    /\ WF_vars(Interval("scan"))

-----------------------------------------------------------------------------

\* A cycle that is over has nothing in hand (CuratorCycle is not reused).
Idle(w) ==
    /\ w \notin manual
    /\ left[w] = {} /\ todo[w] = {}
    /\ \A d \in Db : chosen[w][d] = {} /\ hand[w][d] = None

\* Types, and what a worker outside of a cycle has.
TypeOK ==
    /\ status \in [Sop -> {"active", "archived", "graduated"}]
    /\ stale \subseteq Sop /\ ripe \subseteq Sop
    /\ skill \in [Skill -> Sop \cup {None}]
    /\ lock \in Worker \cup {None}
    /\ due \subseteq {"scan", "review"}
    /\ stage \in [Worker -> Stages]
    /\ loops \subseteq Worker /\ manual \subseteq Worker
    /\ scan \in [Worker -> [Db -> Phases]]
    /\ chosen \in [Worker -> [Db -> SUBSET Sop]]
    /\ hand \in [Worker -> [Db -> Sop \cup {None}]]
    /\ left \in [Worker -> SUBSET Db]
    /\ todo \in [Worker -> SUBSET Decision]
    /\ picked \subseteq Sop
    /\ holding \in Sop \cup {None}
    /\ intruded \in BOOLEAN /\ torn \in BOOLEAN
    /\ late \in [Worker -> Nat]
    /\ events \in 0..MaxEvents
    /\ \A w \in Worker : stage[w] = "idle" => Idle(w)

InHand(r) == holding = r \/ \E w \in Worker, d \in Db : hand[w][d] = r

\* While only the holder of the lock writes, a graduated row has its own skill
\* file, not a namesake's; and a skill file of an active row is about to be
\* followed by the row's mark, unless its writer died or failed between the
\* two (graduate_single_sop and the UPDATE after it).
SkillsMatchRows ==
    ~intruded =>
        \A r \in Sop :
            /\ status[r] = "graduated" => skill[Title[r]] = r
            /\ ~torn /\ skill[Title[r]] = r /\ status[r] = "active" => InHand(r)

\* After it lost the lock a review changes at most one row more: check_alive
\* is asked before every UPDATE.
OneLateRow == \A w \in Worker : late[w] <= 1

\* A scan is marked complete over a database it did not look at only by a
\* worker that has lost the lock (gather swallows that LockLostError and no
\* check follows it unless a review does); every other database was scanned to
\* its end or failed.
ScanMarkedMeansScanned ==
    [][("scan" \in due /\ "scan" \notin due')
        => \E w \in Worker :
            /\ stage[w] \in {"markScan", "markBoth"}
            /\ \A d \in Db : \/ scan[w][d] \in {"done", "failed"}
                             \/ scan[w][d] = "lost" /\ ~Alive(w)]_vars

\* A row that nobody uses does not stay active for ever: in spite of crashes,
\* lost locks and ended loops some worker's scan gets to it, as long as one
\* create_curator_loop is left.  Redis can end them all, one error each.
UnusedIsArchived ==
    \A r \in Sop : []<>(r \notin stale \/ status[r] # "active" \/ loops = {})

\* What the lock and its checks protect: rows, skill files and the review
\* (graduate_single_sop, run_llm_review).
GraduationIsSafe ==
    /\ TypeOK /\ SkillsMatchRows /\ OneLateRow
=============================================================================

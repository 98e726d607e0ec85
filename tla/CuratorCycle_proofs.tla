------------------------ MODULE CuratorCycle_proofs ------------------------
(***************************************************************************)
(* Theorems about CuratorCycle, for any workers, databases, rows and       *)
(* titles: what the cycle's lock and its checks protect, and what it means *)
(* that a scan is marked complete.                                         *)
(***************************************************************************)
EXTENDS CuratorCycle, TLAPS

(***************************************************************************)
(* Types                                                                   *)
(***************************************************************************)
Status == {"active", "archived", "graduated"}

\* TypeOK but for its last conjunct.
Typed ==
    /\ status \in [Sop -> Status]
    /\ stale \subseteq Sop /\ ripe \subseteq Sop
    /\ skill \in [Skill -> Sop \cup {None}]
    /\ lock \in Worker \cup {None}
    /\ due \subseteq {"scan", "review"}
    /\ stage \in [Worker -> Stages]
    /\ loops \subseteq Worker /\ manual \subseteq Worker
    /\ scan \in [Worker -> [Db -> Phases]]
    /\ chosen \in [Worker -> [Db -> SUBSET Sop]]
    /\ hand \in [Worker -> [Db -> Sop \cup {None}]]
    /\ left \in [Worker -> SUBSET Db]
    /\ todo \in [Worker -> SUBSET Decision]
    /\ picked \subseteq Sop
    /\ holding \in Sop \cup {None}
    /\ intruded \in BOOLEAN /\ torn \in BOOLEAN
    /\ late \in [Worker -> Nat]
    /\ events \in 0..MaxEvents

LEMMA NestedType ==
  ASSUME NEW A, NEW B, NEW T, NEW f \in [A -> [B -> T]], NEW a \in A, NEW b \in B, NEW x \in T
  PROVE  [f EXCEPT ![a][b] = x] \in [A -> [B -> T]]
<1>1. [f[a] EXCEPT ![b] = x] \in [B -> T]
  OBVIOUS
<1> QED
  BY <1>1

LEMMA GoToType ==
  ASSUME stage \in [Worker -> Stages], NEW w \in Worker, NEW s \in Stages, GoTo(w, s)
  PROVE  stage' \in [Worker -> Stages]
BY DEF GoTo

LEMMA PhaseType ==
  ASSUME scan \in [Worker -> [Db -> Phases]], NEW w \in Worker, NEW d \in Db,
         NEW s \in Phases, Phase(w, d, s)
  PROVE  scan' \in [Worker -> [Db -> Phases]]
<1>1. scan' = [scan EXCEPT ![w][d] = s]
  BY DEF Phase
<1> QED
  BY <1>1, NestedType

LEMMA SetType ==
  ASSUME status \in [Sop -> Status], NEW R, NEW s \in Status, Set(R, s)
  PROVE  status' \in [Sop -> Status]
BY DEF Set

LEMMA WriteType ==
  ASSUME skill \in [Skill -> Sop \cup {None}], NEW r \in Sop, Write(r)
  PROVE  skill' \in [Skill -> Sop \cup {None}]
BY DEF Write

LEMMA EventType ==
  ASSUME events \in 0..MaxEvents, Event PROVE events' \in 0..MaxEvents
BY CuratorAssumption DEF Event

LEMMA NoWorkType ==
  ASSUME Typed, NEW w \in Worker, NoWork(w)
  PROVE  /\ manual' \subseteq Worker
         /\ scan' \in [Worker -> [Db -> Phases]]
         /\ chosen' \in [Worker -> [Db -> SUBSET Sop]]
         /\ hand' \in [Worker -> [Db -> Sop \cup {None}]]
         /\ left' \in [Worker -> SUBSET Db]
         /\ todo' \in [Worker -> SUBSET Decision]
         /\ late' \in [Worker -> Nat]
<1>1. /\ [d \in Db |-> "waiting"] \in [Db -> Phases]
      /\ [d \in Db |-> {}] \in [Db -> SUBSET Sop]
      /\ [d \in Db |-> None] \in [Db -> Sop \cup {None}]
  BY DEF Phases
<1> QED
  BY <1>1 DEF Typed, NoWork

\* Every step of the loop and of the scan.
LEMMA ScanTyped ==
  ASSUME Typed, NEW w \in Worker, NEW d \in Db, ScanStep(w, d) \/ FailScan(w, d)
  PROVE  Typed'
<1> USE DEF Typed
<1>0. /\ {"select", "lost", "archive", "find", "graduate", "done", "failed"} \subseteq Phases
      /\ {"archived", "graduated"} \subseteq Status
      /\ \A T : Trespass(w, T) => intruded' \in BOOLEAN
  BY DEF Phases, Status, Trespass, Alive
<1>1. CASE StartScan(w, d)
  <2>1. scan' \in [Worker -> [Db -> Phases]]
    BY <1>0, <1>1, PhaseType DEF StartScan
  <2> QED
    BY <1>1, <2>1 DEF StartScan, table, work, tool, history
<1>2. CASE SelectStale(w, d) \/ FindCandidates(w, d)
  <2>1. scan' \in [Worker -> [Db -> Phases]]
    BY <1>0, <1>2, PhaseType DEF SelectStale, FindCandidates
  <2>2. chosen' \in [Worker -> [Db -> SUBSET Sop]]
    <3>1. PICK T \in SUBSET Sop : chosen' = [chosen EXCEPT ![w][d] = T]
      BY <1>2 DEF SelectStale, FindCandidates, Active
    <3> QED
      BY <3>1, NestedType
  <2> QED
    BY <1>2, <2>1, <2>2 DEF SelectStale, FindCandidates, table, tool, history
<1>3. CASE ArchiveStale(w, d)
  <2>1. scan' \in [Worker -> [Db -> Phases]]
    BY <1>0, <1>3, PhaseType DEF ArchiveStale
  <2>2. chosen' \in [Worker -> [Db -> SUBSET Sop]]
    BY <1>3, NestedType DEF ArchiveStale
  <2>3. status' \in [Sop -> Status]
    BY <1>0, <1>3, SetType DEF ArchiveStale
  <2>4. intruded' \in BOOLEAN
    BY <1>0, <1>3 DEF ArchiveStale
  <2> QED
    BY <1>3, <2>1, <2>2, <2>3, <2>4 DEF ArchiveStale, tool
<1>4. ASSUME NEW r \in Sop, WriteSkill(w, d, r) PROVE Typed'
  <2>1. chosen' \in [Worker -> [Db -> SUBSET Sop]]
    <3>1. chosen' = [chosen EXCEPT ![w][d] = chosen[w][d] \ {r}]
      BY <1>4 DEF WriteSkill
    <3>2. chosen[w][d] \ {r} \in SUBSET Sop
      OBVIOUS
    <3> QED
      BY <3>1, <3>2, NestedType
  <2>2. /\ skill' \in [Skill -> Sop \cup {None}]
        /\ hand' \in [Worker -> [Db -> Sop \cup {None}]]
        /\ intruded' \in BOOLEAN
    <3>1. CASE Write(r) /\ hand' = [hand EXCEPT ![w][d] = r] /\ Trespass(w, {r})
      BY <1>0, <3>1, WriteType, NestedType
    <3>2. CASE UNCHANGED <<skill, hand, intruded>>
      BY <3>2
    <3> QED
      BY <1>4, <3>1, <3>2 DEF WriteSkill
  <2> QED
    BY <1>4, <2>1, <2>2 DEF WriteSkill, tool
<1>5. CASE MarkGraduated(w, d)
  <2>1. status' \in [Sop -> Status]
    BY <1>0, <1>5, SetType DEF MarkGraduated
  <2>2. hand' \in [Worker -> [Db -> Sop \cup {None}]]
    BY <1>5, NestedType DEF MarkGraduated
  <2>3. intruded' \in BOOLEAN
    BY <1>0, <1>5 DEF MarkGraduated
  <2> QED
    BY <1>5, <2>1, <2>2, <2>3 DEF MarkGraduated, tool
<1>6. CASE EndScan(w, d)
  <2>1. scan' \in [Worker -> [Db -> Phases]]
    BY <1>0, <1>6, PhaseType DEF EndScan
  <2> QED
    BY <1>6, <2>1 DEF EndScan, table, work, tool, history
<1>7. CASE FailScan(w, d)
  <2>1. scan' \in [Worker -> [Db -> Phases]]
    BY <1>0, <1>7, PhaseType DEF FailScan
  <2>2. chosen' \in [Worker -> [Db -> SUBSET Sop]]
    BY <1>7, NestedType DEF FailScan
  <2>3. hand' \in [Worker -> [Db -> Sop \cup {None}]]
    BY <1>7, NestedType DEF FailScan
  <2>4. events' \in 0..MaxEvents /\ torn' \in BOOLEAN
    BY <1>7, EventType DEF FailScan
  <2> QED
    BY <1>7, <2>1, <2>2, <2>3, <2>4 DEF FailScan, table, tool
<1> QED
  BY <1>1, <1>2, <1>3, <1>4, <1>5, <1>6, <1>7 DEF ScanStep

LEMMA LoopTyped ==
  ASSUME Typed, NEW w \in Worker,
         \/ Want(w) \/ Trigger(w) \/ Acquire(w) \/ Busy(w) \/ Leave(w) \/ Gathered(w)
         \/ LoseLock(w) \/ Crash(w) \/ Expire(w) \/ EndLoop(w) \/ FailAcquire(w)
  PROVE  Typed'
<1> USE DEF Typed
<1>0. {"idle", "wanting", "scan", "permit"} \subseteq Stages
  BY DEF Stages
<1>1. CASE Want(w)
  <2>1. stage' \in [Worker -> Stages]
    BY <1>0, <1>1, GoToType DEF Want
  <2> QED
    BY <1>1, <2>1 DEF Want, table, work, tool, history
<1>2. CASE Trigger(w)
  <2>1. stage' \in [Worker -> Stages] /\ events' \in 0..MaxEvents
    BY <1>0, <1>2, GoToType, EventType DEF Trigger
  <2>2. manual' \subseteq Worker
    BY <1>2 DEF Trigger
  <2> QED
    BY <1>2, <2>1, <2>2 DEF Trigger, table, work, tool
<1>3. CASE Acquire(w)
  <2>1. stage' \in [Worker -> Stages]
    BY <1>0, <1>3, GoToType DEF Acquire
  <2>2. lock' \in Worker \cup {None}
    BY <1>3 DEF Acquire
  <2> QED
    BY <1>3, <2>1, <2>2 DEF Acquire, table, work, tool, history
<1>4. CASE Busy(w)
  <2>1. stage' \in [Worker -> Stages] /\ NoWork(w)
    BY <1>0, <1>4, GoToType DEF Busy
  <2>2. UNCHANGED <<table, lock, due, tool, loops, intruded, torn, events>>
    BY <1>4 DEF Busy
  <2> QED
    BY <2>1, <2>2, NoWorkType DEF table, tool
<1>5. CASE Leave(w)
  <2>1. stage' \in [Worker -> Stages] /\ NoWork(w)
    BY <1>0, <1>5, GoToType DEF Leave
  <2>2. lock' \in Worker \cup {None}
    BY <1>5 DEF Leave
  <2>3. UNCHANGED <<table, due, tool, loops, intruded, torn, events>>
    BY <1>5 DEF Leave
  <2> QED
    BY <2>1, <2>2, <2>3, NoWorkType DEF table, tool
<1>6. CASE Gathered(w)
  <2>1. stage' \in [Worker -> Stages]
    BY <1>0, <1>6, GoToType DEF Gathered
  <2> QED
    BY <1>6, <2>1 DEF Gathered, table, work, tool, history
<1>7. CASE LoseLock(w)
  <2>1. events' \in 0..MaxEvents /\ lock' = None
    BY <1>7, EventType DEF LoseLock
  <2> QED
    BY <1>7, <2>1 DEF LoseLock, table, work, tool
<1>8. CASE Crash(w)
  <2>1. stage' \in [Worker -> Stages] /\ NoWork(w) /\ events' \in 0..MaxEvents
    BY <1>0, <1>8, GoToType, EventType DEF Crash
  <2>2. torn' \in BOOLEAN /\ loops' \subseteq Worker
    BY <1>8 DEF Crash
  <2>3. UNCHANGED <<table, lock, due, tool, intruded>>
    BY <1>8 DEF Crash
  <2> QED
    BY <2>1, <2>2, <2>3, NoWorkType DEF table, tool
<1>9. CASE Expire(w)
  BY <1>9 DEF Expire, table, work, tool, history
<1>10. CASE EndLoop(w)
  BY <1>10 DEF EndLoop, table, work, tool, history
<1>11. CASE FailAcquire(w)
  <2>1. stage' \in [Worker -> Stages] /\ NoWork(w)
    BY <1>0, <1>11, GoToType DEF FailAcquire
  <2>2. lock' \in Worker \cup {None} /\ loops' \subseteq Worker
    BY <1>11 DEF FailAcquire
  <2>3. UNCHANGED <<table, due, tool, intruded, torn, events>>
    BY <1>11 DEF FailAcquire
  <2> QED
    BY <2>1, <2>2, <2>3, NoWorkType DEF table, tool
<1> QED
  BY <1>1, <1>2, <1>3, <1>4, <1>5, <1>6, <1>7, <1>8, <1>9, <1>10, <1>11

LEMMA ReviewTyped ==
  ASSUME Typed, NEW w \in Worker, ReviewStep(w) \/ FailDb(w) \/ FailCycle(w)
  PROVE  Typed'
<1> USE DEF Typed
<1>0. /\ {"markScan", "next", "leave", "ask", "answer", "decide", "promoting", "archiving",
          "markReview", "markBoth"} \subseteq Stages
      /\ {"archived", "graduated"} \subseteq Status
      /\ \A T : Trespass(w, T) => intruded' \in BOOLEAN
  BY DEF Stages, Status, Trespass, Alive
<1>1. CASE Permit(w)
  <2>1. \E s \in {"markScan", "next", "leave"} : GoTo(w, s)
    BY <1>1 DEF Permit
  <2>2. stage' \in [Worker -> Stages]
    BY <1>0, <2>1, GoToType
  <2>3. left' \in [Worker -> SUBSET Db]
    <3>1. UNCHANGED left \/ left' = [left EXCEPT ![w] = Db]
      BY <1>1 DEF Permit
    <3>2. Db \in SUBSET Db
      OBVIOUS
    <3> QED
      BY <3>1, <3>2
  <2> QED
    BY <1>1, <2>2, <2>3 DEF Permit, table, tool, history
<1>2. ASSUME NEW d \in Db, NextDb(w, d) PROVE Typed'
  <2>1. UNCHANGED stage \/ \E s \in {"ask", "leave"} : GoTo(w, s)
    BY <1>2 DEF NextDb
  <2>2. stage' \in [Worker -> Stages]
    BY <1>0, <2>1, GoToType
  <2>3. left' \in [Worker -> SUBSET Db]
    <3>1. UNCHANGED left \/ left' = [left EXCEPT ![w] = left[w] \ {d}]
      BY <1>2 DEF NextDb
    <3>2. left[w] \ {d} \in SUBSET Db
      OBVIOUS
    <3> QED
      BY <3>1, <3>2
  <2>4. PICK T \in SUBSET Sop : chosen' = [chosen EXCEPT ![w][d] = T]
    BY <1>2 DEF NextDb, Active
  <2>5. chosen' \in [Worker -> [Db -> SUBSET Sop]]
    BY <2>4, NestedType
  <2>6. UNCHANGED <<table, lock, due, manual, scan, hand, todo, tool, loops, history>>
    BY <1>2 DEF NextDb
  <2> QED
    BY <2>2, <2>3, <2>5, <2>6 DEF table, tool, history
<1>3. CASE FailDb(w)
  <2>1. stage' \in [Worker -> Stages] /\ events' \in 0..MaxEvents
    BY <1>0, <1>3, GoToType, EventType DEF FailDb
  <2>2. [d \in Db |-> None] \in [Db -> Sop \cup {None}]
    OBVIOUS
  <2>3. hand' \in [Worker -> [Db -> Sop \cup {None}]] /\ todo' \in [Worker -> SUBSET Decision]
    BY <1>3, <2>2 DEF FailDb
  <2>4. torn' \in BOOLEAN
    BY <1>3 DEF FailDb
  <2> QED
    BY <1>3, <2>1, <2>3, <2>4 DEF FailDb, table, tool
<1>4. CASE Ask(w) \/ EndReview(w)
  <2>1. \E s \in {"answer", "leave", "markReview", "markBoth"} : GoTo(w, s)
    BY <1>4 DEF Ask, EndReview
  <2>2. stage' \in [Worker -> Stages]
    BY <1>0, <2>1, GoToType
  <2> QED
    BY <1>4, <2>2 DEF Ask, EndReview, table, work, tool, history
<1>5. ASSUME NEW decisions, Answer(w, decisions) PROVE Typed'
  <2>1. stage' \in [Worker -> Stages]
    BY <1>0, <1>5, GoToType DEF Answer
  <2>2. UNION {chosen[w][d] : d \in Db} \subseteq Sop
    OBVIOUS
  <2>3. decisions \subseteq Decision
    BY <1>5, <2>2 DEF Answer, Parsed, Decision
  <2>4. todo' \in [Worker -> SUBSET Decision]
    BY <1>5, <2>3 DEF Answer
  <2> QED
    BY <1>5, <2>1, <2>4 DEF Answer, table, tool, history
<1>6. ASSUME NEW r \in Sop, Promote(w, r) PROVE Typed'
  <2>1. todo' \in [Worker -> SUBSET Decision]
    BY <1>6 DEF Promote
  <2>2. CASE /\ Write(r) /\ Trespass(w, {r})
             /\ hand' = [hand EXCEPT ![w][Home[r]] = r]
             /\ \E s \in {"promoting", "leave"} : GoTo(w, s)
    <3>1. Home[r] \in Db
      BY CuratorAssumption
    <3>2. hand' \in [Worker -> [Db -> Sop \cup {None}]]
      BY <2>2, <3>1, NestedType
    <3>3. stage' \in [Worker -> Stages]
      BY <1>0, <2>2, GoToType
    <3>4. skill' \in [Skill -> Sop \cup {None}] /\ intruded' \in BOOLEAN
      BY <1>0, <2>2, WriteType
    <3> QED
      BY <1>6, <2>1, <3>2, <3>3, <3>4 DEF Promote, tool
  <2>3. CASE UNCHANGED <<skill, intruded, hand, stage>>
    BY <1>6, <2>1, <2>3 DEF Promote, tool
  <2> QED
    BY <1>6, <2>2, <2>3 DEF Promote
<1>7. ASSUME NEW r \in Sop, Archive(w, r) PROVE Typed'
  <2>1. todo' \in [Worker -> SUBSET Decision]
    BY <1>7 DEF Archive
  <2>2. \E s \in {"archiving", "leave"} : GoTo(w, s)
    BY <1>7 DEF Archive
  <2>3. stage' \in [Worker -> Stages]
    BY <1>0, <2>2, GoToType
  <2>4. Home[r] \in Db
    BY CuratorAssumption
  <2>5. hand' \in [Worker -> [Db -> Sop \cup {None}]]
    BY <1>7, <2>4, NestedType DEF Archive
  <2> QED
    BY <1>7, <2>1, <2>3, <2>5 DEF Archive, table, tool, history
<1>8. ASSUME NEW d \in Db, Mark(w, d) PROVE Typed'
  <2>1. \E s \in {"archived", "graduated"} : Set({hand[w][d]}, s)
    BY <1>8 DEF Mark
  <2>2. status' \in [Sop -> Status]
    BY <1>0, <2>1, SetType
  <2>3. hand' \in [Worker -> [Db -> Sop \cup {None}]]
    BY <1>8, NestedType DEF Mark
  <2>4. stage' \in [Worker -> Stages] /\ intruded' \in BOOLEAN
    BY <1>0, <1>8, GoToType DEF Mark
  <2>5. late' \in [Worker -> Nat]
    BY <1>8 DEF Mark
  <2> QED
    BY <1>8, <2>2, <2>3, <2>4, <2>5 DEF Mark, tool
<1>9. CASE EndDb(w)
  <2>1. stage' \in [Worker -> Stages]
    BY <1>0, <1>9, GoToType DEF EndDb
  <2>2. left' \in [Worker -> SUBSET Db]
    BY <1>9 DEF EndDb
  <2>3. [d \in Db |-> {}] \in [Db -> SUBSET Sop]
    OBVIOUS
  <2>4. chosen' \in [Worker -> [Db -> SUBSET Sop]]
    BY <1>9, <2>3 DEF EndDb
  <2> QED
    BY <1>9, <2>1, <2>2, <2>4 DEF EndDb, table, tool, history
<1>10. CASE MarkScan(w) \/ MarkReview(w)
  <2>1. \E s \in {"markReview", "leave"} : GoTo(w, s)
    BY <1>10 DEF MarkScan, MarkReview
  <2>2. stage' \in [Worker -> Stages]
    BY <1>0, <2>1, GoToType
  <2>3. due' \subseteq {"scan", "review"}
    BY <1>10 DEF MarkScan, MarkReview
  <2> QED
    BY <1>10, <2>2, <2>3 DEF MarkScan, MarkReview, table, work, tool, history
<1>11. CASE FailCycle(w)
  <2>1. stage' \in [Worker -> Stages] /\ events' \in 0..MaxEvents
    BY <1>0, <1>11, GoToType, EventType DEF FailCycle
  <2>2. due' \subseteq {"scan", "review"}
    BY <1>11 DEF FailCycle
  <2> QED
    BY <1>11, <2>1, <2>2 DEF FailCycle, table, work, tool
<1> QED
  BY <1>1, <1>2, <1>3, <1>4, <1>5, <1>6, <1>7, <1>8, <1>9, <1>10, <1>11 DEF ReviewStep

LEMMA OthersTyped == ASSUME Typed, Others PROVE Typed'
<1> USE DEF Typed
<1>0. {"archived", "graduated", "active"} \subseteq Status
  BY DEF Status
<1>1. ASSUME NEW r \in Sop, Use(r) \/ Age(r) PROVE Typed'
  <2>1. events' \in 0..MaxEvents
    BY <1>1, EventType DEF Use, Age
  <2>2. stale' \subseteq Sop /\ ripe' \subseteq Sop
    BY <1>1 DEF Use, Age
  <2> QED
    BY <1>1, <2>1, <2>2 DEF Use, Age, work, tool
<1>2. ASSUME NEW r \in Sop, Forget(r) \/ Restore(r) PROVE Typed'
  <2>1. events' \in 0..MaxEvents
    BY <1>2, EventType DEF Forget, Restore
  <2>2. \E s \in {"archived", "active"} : Set({r}, s)
    BY <1>2 DEF Forget, Restore, Restored
  <2>3. status' \in [Sop -> Status]
    BY <1>0, <2>2, SetType
  <2>4. torn' \in BOOLEAN
    BY <1>2 DEF Forget, Restore, Restored
  <2> QED
    BY <1>2, <2>1, <2>3, <2>4 DEF Forget, Restore, work, tool
<1>3. ASSUME NEW r \in Sop, ToolWrite(r) PROVE Typed'
  <2>1. picked' \subseteq Sop
    BY <1>3 DEF ToolWrite
  <2>2. /\ skill' \in [Skill -> Sop \cup {None}]
        /\ holding' \in Sop \cup {None}
        /\ intruded' \in BOOLEAN
    BY <1>3, WriteType DEF ToolWrite
  <2> QED
    BY <1>3, <2>1, <2>2 DEF ToolWrite, work
<1>4. ASSUME NEW R \in SUBSET Sop, ToolSelect(R) PROVE Typed'
  <2>1. events' \in 0..MaxEvents
    BY <1>4, EventType DEF ToolSelect
  <2> QED
    BY <1>4, <2>1 DEF ToolSelect, table, work
<1>5. CASE ToolMark
  <2>1. status' \in [Sop -> Status]
    BY <1>0, <1>5, SetType DEF ToolMark
  <2> QED
    BY <1>5, <2>1 DEF ToolMark, work, history
<1>6. ASSUME NEW x \in {"scan", "review"}, Interval(x) PROVE Typed'
  <2>1. due' \subseteq {"scan", "review"}
    BY <1>6 DEF Interval
  <2> QED
    BY <1>6, <2>1 DEF Interval, table, work, tool, history
<1> QED
  BY <1>1, <1>2, <1>3, <1>4, <1>5, <1>6 DEF Others

LEMMA NextTyped == ASSUME Typed, [Next]_vars PROVE Typed'
<1>1. CASE UNCHANGED vars
  BY <1>1 DEF Typed, vars, table, work, tool, history
<1> QED
  BY <1>1, ScanTyped, LoopTyped, ReviewTyped, OthersTyped DEF Next, CycleStep

LEMMA InitTyped == ASSUME Init PROVE Typed
<1>1. /\ [d \in Db |-> "waiting"] \in [Db -> Phases]
      /\ [d \in Db |-> {}] \in [Db -> SUBSET Sop]
      /\ [d \in Db |-> None] \in [Db -> Sop \cup {None}]
  BY DEF Phases
<1>2. /\ scan \in [Worker -> [Db -> Phases]]
      /\ chosen \in [Worker -> [Db -> SUBSET Sop]]
      /\ hand \in [Worker -> [Db -> Sop \cup {None}]]
  BY <1>1 DEF Init
<1>3. /\ left \in [Worker -> SUBSET Db]
      /\ todo \in [Worker -> SUBSET Decision]
      /\ late \in [Worker -> Nat]
  BY DEF Init
<1>4. events \in 0..MaxEvents
  BY CuratorAssumption DEF Init
<1>5. stage \in [Worker -> Stages] /\ status \in [Sop -> Status]
  BY DEF Init, Stages, Status
<1> QED
  BY <1>2, <1>3, <1>4, <1>5 DEF Init, Typed

(***************************************************************************)
(* The inductive invariant                                                 *)
(***************************************************************************)
AfterScan == Stages \ {"idle", "wanting", "scan"}
Ended == {"done", "failed", "lost"}

\* The gather is behind every stage after the scan, unless the cycle has none.
ScanInv(w) ==
    /\ stage[w] # "scan" => \A d \in Db : scan[w][d] \in {"waiting"} \cup Ended
    /\ stage[w] \in AfterScan /\ w \notin manual => \A d \in Db : scan[w][d] \in Ended
    /\ w \in manual => stage[w] \notin {"scan", "markScan", "markBoth"}
    /\ \A d \in Db : scan[w][d] = "lost" => ~Alive(w)
    /\ stage[w] \in {"idle", "wanting"} => \A d \in Db : scan[w][d] = "waiting"

\* What is in hand has its skill, and one thing at a time is in hand in a review.
HandInv(w) ==
    /\ stage[w] \notin {"scan", "promoting", "archiving", "leave"} =>
          \A d \in Db : hand[w][d] = None
    /\ stage[w] = "scan" => \A d \in Db : hand[w][d] # None => scan[w][d] = "graduate"
    /\ stage[w] \in {"scan", "promoting"} =>
          \A d \in Db : hand[w][d] # None => skill[Title[hand[w][d]]] = hand[w][d]
    /\ stage[w] \in {"promoting", "archiving"} =>
          \A d, e \in Db : hand[w][d] # None /\ hand[w][e] # None => d = e

LateInv(w) ==
    /\ stage[w] \in {"idle", "wanting"} => late[w] = 0
    /\ late[w] > 0 =>
          late[w] = 1 /\ ~Alive(w) /\ stage[w] \notin {"promoting", "archiving"}

RestInv(w) == stage[w] = "idle" => Idle(w)

WorkerInv(w) == ScanInv(w) /\ HandInv(w) /\ LateInv(w) /\ RestInv(w)

\* About to be followed by the row's mark.
Writing(r) ==
    \E w \in Worker, d \in Db : hand[w][d] = r /\ stage[w] \in {"scan", "promoting"}

RowInv ==
    /\ holding # None => intruded
    /\ ~intruded => \A r \in Sop :
          /\ status[r] = "graduated" => skill[Title[r]] = r
          /\ ~torn /\ skill[Title[r]] = r /\ status[r] = "active" => Writing(r)

CycleInv == Typed /\ (\A w \in Worker : WorkerInv(w)) /\ RowInv

-----------------------------------------------------------------------------
(* A step of one worker, seen by the others.                               *)

Untouched(v) ==
    /\ stage'[v] = stage[v] /\ scan'[v] = scan[v] /\ hand'[v] = hand[v]
    /\ late'[v] = late[v] /\ chosen'[v] = chosen[v] /\ left'[v] = left[v]
    /\ todo'[v] = todo[v]
    /\ v \in manual' <=> v \in manual
    /\ lock' = v => lock = v

\* A SKILL.md is never overwritten.
SkillGrows == \A n \in Skill : skill[n] # None => skill'[n] = skill[n]

LEMMA UntouchedInv ==
  ASSUME Typed, NEW v \in Worker, WorkerInv(v), Untouched(v), SkillGrows
  PROVE  WorkerInv(v)'
<1>1. ScanInv(v)'
  BY DEF WorkerInv, ScanInv, Untouched, Alive
<1>2. HandInv(v)'
  <2>1. \A d \in Db : hand[v][d] # None => hand[v][d] \in Sop /\ Title[hand[v][d]] \in Skill
    BY CuratorAssumption DEF Typed
  <2>2. \A d \in Db : /\ hand[v][d] # None
                      /\ skill[Title[hand[v][d]]] = hand[v][d]
                      => skill'[Title[hand[v][d]]] = hand[v][d]
    BY <2>1 DEF SkillGrows
  <2> QED
    BY <2>2 DEF WorkerInv, HandInv, Untouched
<1>3. LateInv(v)'
  BY DEF WorkerInv, LateInv, Untouched, Alive
<1>4. RestInv(v)'
  BY DEF WorkerInv, RestInv, Untouched, Idle
<1> QED
  BY <1>1, <1>2, <1>3, <1>4 DEF WorkerInv

LEMMA WriteGrows ==
  ASSUME Typed, NEW r \in Sop, Free(r), Write(r)
  PROVE  SkillGrows /\ skill'[Title[r]] = r
BY CuratorAssumption DEF Typed, Free, Write, SkillGrows

LEMMA SkillStays == ASSUME UNCHANGED skill PROVE SkillGrows
BY DEF SkillGrows

LEMMA ScanOthers ==
  ASSUME Typed, NEW w \in Worker, NEW d \in Db, ScanStep(w, d) \/ FailScan(w, d)
  PROVE  SkillGrows /\ \A v \in Worker \ {w} : Untouched(v)
<1> USE SkillStays DEF Untouched, Phase
<1>0. /\ stage \in [Worker -> Stages] /\ scan \in [Worker -> [Db -> Phases]]
      /\ chosen \in [Worker -> [Db -> SUBSET Sop]]
      /\ hand \in [Worker -> [Db -> Sop \cup {None}]]
  BY DEF Typed
<1>1. CASE StartScan(w, d)
  BY <1>0, <1>1 DEF StartScan, table, work, history
<1>2. CASE SelectStale(w, d)
  BY <1>0, <1>2 DEF SelectStale, table, history
<1>3. CASE ArchiveStale(w, d)
  BY <1>0, <1>3 DEF ArchiveStale
<1>4. CASE FindCandidates(w, d)
  BY <1>0, <1>4 DEF FindCandidates, table, history
<1>5. ASSUME NEW r \in Sop, WriteSkill(w, d, r)
      PROVE  SkillGrows /\ \A v \in Worker \ {w} : Untouched(v)
  <2>1. \A v \in Worker \ {w} : hand'[v] = hand[v]
    BY <1>0, <1>5 DEF WriteSkill
  <2>2. SkillGrows
    BY <1>5, WriteGrows DEF WriteSkill
  <2> QED
    BY <1>0, <1>5, <2>1, <2>2 DEF WriteSkill
<1>6. CASE MarkGraduated(w, d)
  BY <1>0, <1>6 DEF MarkGraduated
<1>7. CASE EndScan(w, d)
  BY <1>0, <1>7 DEF EndScan, table, work, history
<1>8. CASE FailScan(w, d)
  BY <1>0, <1>8 DEF FailScan, table
<1> QED
  BY <1>1, <1>2, <1>3, <1>4, <1>5, <1>6, <1>7, <1>8 DEF ScanStep

LEMMA LoopOthers ==
  ASSUME Typed, NEW w \in Worker,
         \/ Want(w) \/ Trigger(w) \/ Acquire(w) \/ Busy(w) \/ Leave(w) \/ Gathered(w)
         \/ LoseLock(w) \/ Crash(w) \/ Expire(w) \/ EndLoop(w) \/ FailAcquire(w)
  PROVE  SkillGrows /\ \A v \in Worker \ {w} : Untouched(v)
<1> USE SkillStays DEF Untouched, GoTo
<1>0. /\ stage \in [Worker -> Stages] /\ scan \in [Worker -> [Db -> Phases]]
      /\ chosen \in [Worker -> [Db -> SUBSET Sop]]
      /\ hand \in [Worker -> [Db -> Sop \cup {None}]]
      /\ left \in [Worker -> SUBSET Db] /\ todo \in [Worker -> SUBSET Decision]
      /\ late \in [Worker -> Nat] /\ None \notin Worker
  BY CuratorAssumption DEF Typed
<1>1. CASE Want(w)
  BY <1>0, <1>1 DEF Want, table, work, history
<1>2. CASE Trigger(w)
  BY <1>0, <1>2 DEF Trigger, table, work
<1>3. CASE Acquire(w)
  BY <1>0, <1>3 DEF Acquire, table, work, history
<1>4. CASE Busy(w)
  BY <1>0, <1>4 DEF Busy, NoWork, table
<1>5. CASE Leave(w)
  BY <1>0, <1>5 DEF Leave, NoWork, table
<1>6. CASE Gathered(w)
  BY <1>0, <1>6 DEF Gathered, table, work, history
<1>7. CASE LoseLock(w)
  BY <1>0, <1>7 DEF LoseLock, table, work
<1>8. CASE Crash(w)
  BY <1>0, <1>8 DEF Crash, NoWork, table
<1>9. CASE Expire(w)
  BY <1>0, <1>9 DEF Expire, table, work, history
<1>10. CASE EndLoop(w)
  BY <1>10 DEF EndLoop, table, work, history
<1>11. CASE FailAcquire(w)
  BY <1>0, <1>11 DEF FailAcquire, NoWork, table
<1> QED
  BY <1>1, <1>2, <1>3, <1>4, <1>5, <1>6, <1>7, <1>8, <1>9, <1>10, <1>11

LEMMA ReviewOthers ==
  ASSUME Typed, NEW w \in Worker, ReviewStep(w) \/ FailDb(w) \/ FailCycle(w)
  PROVE  SkillGrows /\ \A v \in Worker \ {w} : Untouched(v)
<1> USE SkillStays DEF Untouched, GoTo
<1>0. /\ stage \in [Worker -> Stages]
      /\ chosen \in [Worker -> [Db -> SUBSET Sop]]
      /\ hand \in [Worker -> [Db -> Sop \cup {None}]]
      /\ left \in [Worker -> SUBSET Db] /\ todo \in [Worker -> SUBSET Decision]
      /\ late \in [Worker -> Nat]
  BY DEF Typed
<1>1. CASE Permit(w)
  <2>1. \A v \in Worker \ {w} : stage'[v] = stage[v] /\ left'[v] = left[v]
    BY <1>0, <1>1 DEF Permit
  <2> QED
    BY <1>1, <2>1 DEF Permit, table, history
<1>2. ASSUME NEW d \in Db, NextDb(w, d)
      PROVE  SkillGrows /\ \A v \in Worker \ {w} : Untouched(v)
  <2>1. \A v \in Worker \ {w} : stage'[v] = stage[v] /\ left'[v] = left[v]
    BY <1>0, <1>2 DEF NextDb
  <2>2. \A v \in Worker \ {w} : chosen'[v] = chosen[v]
    BY <1>0, <1>2 DEF NextDb
  <2> QED
    BY <1>2, <2>1, <2>2 DEF NextDb, table, history
<1>3. CASE FailDb(w)
  BY <1>0, <1>3 DEF FailDb, table
<1>4. CASE Ask(w) \/ EndReview(w)
  BY <1>0, <1>4 DEF Ask, EndReview, table, work, history
<1>5. ASSUME NEW decisions, Answer(w, decisions)
      PROVE  SkillGrows /\ \A v \in Worker \ {w} : Untouched(v)
  BY <1>0, <1>5 DEF Answer, table, history
<1>6. ASSUME NEW r \in Sop, Promote(w, r)
      PROVE  SkillGrows /\ \A v \in Worker \ {w} : Untouched(v)
  <2>1. SkillGrows
    BY <1>6, WriteGrows DEF Promote
  <2>2. \A v \in Worker \ {w} : stage'[v] = stage[v] /\ hand'[v] = hand[v]
    BY <1>0, <1>6 DEF Promote
  <2> QED
    BY <1>0, <1>6, <2>1, <2>2 DEF Promote
<1>7. ASSUME NEW r \in Sop, Archive(w, r)
      PROVE  SkillGrows /\ \A v \in Worker \ {w} : Untouched(v)
  BY <1>0, <1>7 DEF Archive, table, history
<1>8. ASSUME NEW d \in Db, Mark(w, d)
      PROVE  SkillGrows /\ \A v \in Worker \ {w} : Untouched(v)
  <2>1. \A v \in Worker \ {w} : late'[v] = late[v]
    BY <1>0, <1>8 DEF Mark
  <2> QED
    BY <1>0, <1>8, <2>1 DEF Mark
<1>9. CASE EndDb(w)
  BY <1>0, <1>9 DEF EndDb, table, history
<1>10. CASE MarkScan(w) \/ MarkReview(w)
  BY <1>0, <1>10 DEF MarkScan, MarkReview, table, work, history
<1>11. CASE FailCycle(w)
  BY <1>0, <1>11 DEF FailCycle, table, work
<1> QED
  BY <1>1, <1>2, <1>3, <1>4, <1>5, <1>6, <1>7, <1>8, <1>9, <1>10, <1>11 DEF ReviewStep

LEMMA OthersOthers ==
  ASSUME Typed, Others
  PROVE  SkillGrows /\ \A v \in Worker : Untouched(v)
<1> USE SkillStays DEF Untouched
<1>1. ASSUME NEW r \in Sop, ToolWrite(r)
      PROVE  SkillGrows /\ \A v \in Worker : Untouched(v)
  <2>1. SkillGrows
    BY <1>1, WriteGrows DEF ToolWrite
  <2> QED
    BY <1>1, <2>1 DEF ToolWrite, work
<1>2. ASSUME NEW r \in Sop, Use(r) \/ Age(r) \/ Forget(r) \/ Restore(r)
      PROVE  SkillGrows /\ \A v \in Worker : Untouched(v)
  BY <1>2 DEF Use, Age, Forget, Restore, work
<1>3. ASSUME NEW R \in SUBSET Sop, ToolSelect(R)
      PROVE  SkillGrows /\ \A v \in Worker : Untouched(v)
  BY <1>3 DEF ToolSelect, table, work
<1>4. CASE ToolMark
  BY <1>4 DEF ToolMark, work, history
<1>5. ASSUME NEW x \in {"scan", "review"}, Interval(x)
      PROVE  SkillGrows /\ \A v \in Worker : Untouched(v)
  BY <1>5 DEF Interval, table, work, history
<1> QED
  BY <1>1, <1>2, <1>3, <1>4, <1>5 DEF Others

-----------------------------------------------------------------------------
(* The worker whose step it is.                                            *)

\* A scan that is under way is the stage of its worker.
LEMMA ScanStage ==
  ASSUME NEW w \in Worker, WorkerInv(w), NEW d \in Db, ScanStep(w, d) \/ FailScan(w, d)
  PROVE  /\ stage[w] = "scan"
         /\ UNCHANGED <<stage, lock, due, manual, left, todo, late, holding>>
<1>1. scan[w][d] \in {"select", "archive", "find", "graduate"} => stage[w] = "scan"
  BY DEF WorkerInv, ScanInv, Ended
<1>2. stage[w] = "scan"
  BY <1>1 DEF ScanStep, FailScan, StartScan, SelectStale, ArchiveStale, FindCandidates,
              WriteSkill, MarkGraduated, EndScan
<1>3. UNCHANGED <<stage, lock, due, manual, left, todo, late, holding>>
  <2>1. CASE StartScan(w, d)
    BY <2>1 DEF StartScan, work, tool, history
  <2>2. CASE SelectStale(w, d) \/ FindCandidates(w, d)
    BY <2>2 DEF SelectStale, FindCandidates, tool, history
  <2>3. CASE ArchiveStale(w, d) \/ MarkGraduated(w, d)
    BY <2>3 DEF ArchiveStale, MarkGraduated, tool
  <2>4. ASSUME NEW r \in Sop, WriteSkill(w, d, r)
        PROVE  UNCHANGED <<stage, lock, due, manual, left, todo, late, holding>>
    BY <2>4 DEF WriteSkill, tool
  <2>5. CASE EndScan(w, d)
    BY <2>5 DEF EndScan, work, tool, history
  <2>6. CASE FailScan(w, d)
    BY <2>6 DEF FailScan, tool
  <2> QED
    BY <2>1, <2>2, <2>3, <2>4, <2>5, <2>6 DEF ScanStep
<1> QED
  BY <1>2, <1>3

LEMMA ScanOwn ==
  ASSUME Typed, NEW w \in Worker, WorkerInv(w), NEW d \in Db,
         ScanStep(w, d) \/ FailScan(w, d)
  PROVE  WorkerInv(w)'
<1>0. /\ scan \in [Worker -> [Db -> Phases]]
      /\ hand \in [Worker -> [Db -> Sop \cup {None}]]
  BY DEF Typed
<1>1. /\ stage[w] = "scan"
      /\ UNCHANGED <<stage, lock, manual, left, todo, late>>
  BY ScanStage
<1>2. \A e \in Db : hand[w][e] # None =>
          scan[w][e] = "graduate" /\ skill[Title[hand[w][e]]] = hand[w][e]
  BY <1>1 DEF WorkerInv, HandInv
<1>3. \A e \in Db : scan[w][e] = "lost" => ~Alive(w)
  BY DEF WorkerInv, ScanInv
<1>4. SUFFICES /\ \A e \in Db : scan'[w][e] = "lost" => ~Alive(w)
               /\ \A e \in Db : hand'[w][e] # None =>
                     scan'[w][e] = "graduate" /\ skill'[Title[hand'[w][e]]] = hand'[w][e]
  BY <1>1 DEF WorkerInv, ScanInv, HandInv, LateInv, RestInv, AfterScan, Alive
<1> DEFINE Goal == /\ \A e \in Db : scan'[w][e] = "lost" => ~Alive(w)
                   /\ \A e \in Db : hand'[w][e] # None =>
                     scan'[w][e] = "graduate" /\ skill'[Title[hand'[w][e]]] = hand'[w][e]
<1>5. CASE StartScan(w, d)
  <2>1. /\ scan[w][d] = "waiting"
        /\ scan' = [scan EXCEPT ![w][d] = IF Alive(w) THEN "select" ELSE "lost"]
        /\ UNCHANGED <<hand, skill>>
    BY <1>5 DEF StartScan, Phase, table, work
  <2> QED
    BY <1>0, <1>2, <1>3, <2>1
<1>6. CASE SelectStale(w, d) \/ ArchiveStale(w, d) \/ FindCandidates(w, d) \/ EndScan(w, d)
  <2>1. PICK s \in {"archive", "find", "graduate", "done"} :
          /\ hand[w][d] # None => scan[w][d] # "graduate"
          /\ scan' = [scan EXCEPT ![w][d] = s]
          /\ UNCHANGED <<hand, skill>>
    BY <1>6 DEF SelectStale, ArchiveStale, FindCandidates, EndScan, Phase, table, work
  <2> QED
    BY <1>0, <1>2, <1>3, <2>1
<1>7. ASSUME NEW r \in Sop, WriteSkill(w, d, r) PROVE Goal
  <2>1. scan[w][d] = "graduate" /\ UNCHANGED scan
    BY <1>7 DEF WriteSkill
  <2>2. CASE Free(r) /\ Write(r) /\ hand' = [hand EXCEPT ![w][d] = r]
    <3>1. SkillGrows /\ skill'[Title[r]] = r
      BY <2>2, WriteGrows
    <3>2. \A e \in Db : hand[w][e] # None => skill'[Title[hand[w][e]]] = hand[w][e]
      BY <1>0, <1>2, <3>1, CuratorAssumption DEF SkillGrows
    <3> QED
      BY <1>0, <1>2, <1>3, <2>1, <2>2, <3>1, <3>2
  <2>3. CASE UNCHANGED <<skill, hand>>
    BY <1>2, <1>3, <2>1, <2>3
  <2> QED
    BY <1>7, <2>2, <2>3 DEF WriteSkill
<1>8. CASE MarkGraduated(w, d)
  <2>1. hand' = [hand EXCEPT ![w][d] = None] /\ UNCHANGED <<scan, skill>>
    BY <1>8 DEF MarkGraduated
  <2> QED
    BY <1>0, <1>2, <1>3, <2>1
<1>9. CASE FailScan(w, d)
  <2>1. /\ hand' = [hand EXCEPT ![w][d] = None]
        /\ scan' = [scan EXCEPT ![w][d] = "failed"]
        /\ UNCHANGED skill
    BY <1>9 DEF FailScan, Phase, table
  <2> QED
    BY <1>0, <1>2, <1>3, <2>1
<1> QED
  BY <1>5, <1>6, <1>7, <1>8, <1>9 DEF ScanStep

\* The stages behind the scan in which nothing is in hand, and the last one.
Later == {"permit", "next", "ask", "answer", "decide", "markScan", "markBoth",
          "markReview", "leave"}

\* Most steps behind the scan only go on to another such stage.
Moves(w) ==
    \E s \in Later :
        /\ stage[w] \in Later \ {"leave"}
        /\ stage' = [stage EXCEPT ![w] = s]
        /\ s \in {"markScan", "markBoth"} => w \notin manual
        /\ UNCHANGED <<status, skill, lock, manual, scan, hand, holding, intruded, torn, late>>

LEMMA MovesOwn ==
  ASSUME Typed, NEW w \in Worker, WorkerInv(w), Moves(w)
  PROVE  WorkerInv(w)'
<1>0. stage \in [Worker -> Stages]
  BY DEF Typed
<1>1. PICK s \in Later : /\ stage[w] \in Later \ {"leave"}
                         /\ stage'[w] = s
                         /\ s \in {"markScan", "markBoth"} => w \notin manual
                         /\ UNCHANGED <<skill, lock, manual, scan, hand, late>>
  BY <1>0 DEF Moves
<1>2. \A d \in Db : hand[w][d] = None
  BY <1>1 DEF WorkerInv, HandInv, Later
<1>3. ScanInv(w)'
  BY <1>1 DEF WorkerInv, ScanInv, AfterScan, Stages, Later, Alive
<1>4. HandInv(w)'
  BY <1>1, <1>2 DEF HandInv
<1>5. LateInv(w)' /\ RestInv(w)'
  BY <1>1 DEF WorkerInv, LateInv, RestInv, Later, Alive
<1> QED
  BY <1>3, <1>4, <1>5 DEF WorkerInv

LEMMA ReviewMoves ==
  ASSUME Typed, NEW w \in Worker,
         \/ Permit(w) \/ Ask(w) \/ EndDb(w) \/ EndReview(w) \/ MarkScan(w) \/ MarkReview(w)
         \/ FailCycle(w)
         \/ \E d \in Db : NextDb(w, d)
         \/ \E decisions \in SUBSET Decision : Answer(w, decisions)
  PROVE  Moves(w)
<1>0. stage \in [Worker -> Stages]
  BY DEF Typed
<1> USE DEF Moves, Later, GoTo
<1>1. CASE Permit(w)
  <2>2. \/ GoTo(w, "markScan") /\ w \notin manual
        \/ GoTo(w, "next")
        \/ GoTo(w, "leave")
    BY <1>1 DEF Permit, MayReview
  <2>3. stage[w] = "permit"
    BY <1>1 DEF Permit
  <2>4. UNCHANGED <<status, skill, lock, manual, scan, hand, holding, intruded, torn, late>>
    BY <1>1 DEF Permit, table, tool, history
  <2> QED
    BY <2>2, <2>3, <2>4
<1>2. ASSUME NEW d \in Db, NextDb(w, d) PROVE Moves(w)
  <2>1. GoTo(w, "next") \/ GoTo(w, "ask") \/ GoTo(w, "leave")
    <3>1. CASE Alive(w) /\ Active(d) = {}
      <4>1. stage[w] = "next" /\ stage' = stage
        BY <1>2, <3>1 DEF NextDb
      <4>2. stage = [stage EXCEPT ![w] = "next"]
        BY <1>0, <4>1
      <4> QED
        BY <4>1, <4>2
    <3> QED
      BY <1>2, <3>1 DEF NextDb
  <2>2. stage[w] = "next"
    BY <1>2 DEF NextDb
  <2>3. UNCHANGED <<status, skill, lock, manual, scan, hand, holding, intruded, torn, late>>
    BY <1>2 DEF NextDb, table, tool, history
  <2> QED
    BY <2>1, <2>2, <2>3
<1>3. CASE Ask(w)
  <2>1. GoTo(w, "answer") \/ GoTo(w, "leave")
    BY <1>3 DEF Ask
  <2>2. stage[w] = "ask"
    BY <1>3 DEF Ask
  <2>3. UNCHANGED <<status, skill, lock, manual, scan, hand, holding, intruded, torn, late>>
    BY <1>3 DEF Ask, table, work, tool, history
  <2> QED
    BY <2>1, <2>2, <2>3
<1>4. CASE EndDb(w)
  BY <1>4 DEF EndDb, table, tool, history
<1>5. CASE EndReview(w)
  <2>1. GoTo(w, "markReview") \/ (GoTo(w, "markBoth") /\ w \notin manual)
    BY <1>5 DEF EndReview
  <2>2. stage[w] = "next"
    BY <1>5 DEF EndReview
  <2>3. UNCHANGED <<status, skill, lock, manual, scan, hand, holding, intruded, torn, late>>
    BY <1>5 DEF EndReview, table, work, tool, history
  <2> QED
    BY <2>1, <2>2, <2>3
<1>6. CASE MarkScan(w)
  <2>1. GoTo(w, "markReview") \/ GoTo(w, "leave")
    BY <1>6 DEF MarkScan
  <2>2. stage[w] \in {"markScan", "markBoth"}
    BY <1>6 DEF MarkScan
  <2>3. UNCHANGED <<status, skill, lock, manual, scan, hand, holding, intruded, torn, late>>
    BY <1>6 DEF MarkScan, table, work, tool, history
  <2> QED
    BY <2>1, <2>2, <2>3
<1>7. CASE MarkReview(w)
  BY <1>7 DEF MarkReview, table, work, tool, history
<1>8. ASSUME NEW decisions, Answer(w, decisions) PROVE Moves(w)
  BY <1>8 DEF Answer, table, tool, history
<1>9. CASE FailCycle(w)
  BY <1>9 DEF FailCycle, table, work, tool
<1> QED
  BY <1>1, <1>2, <1>3, <1>4, <1>5, <1>6, <1>7, <1>8, <1>9

LEMMA LoopOwn ==
  ASSUME Typed, NEW w \in Worker, WorkerInv(w),
         \/ Want(w) \/ Trigger(w) \/ Acquire(w) \/ Busy(w) \/ Leave(w) \/ Gathered(w)
         \/ LoseLock(w) \/ Crash(w) \/ Expire(w) \/ EndLoop(w) \/ FailAcquire(w)
  PROVE  WorkerInv(w)'
<1>0. stage \in [Worker -> Stages] /\ late \in [Worker -> Nat] /\ None \notin Worker
  BY CuratorAssumption DEF Typed
<1> USE DEF WorkerInv, Alive
\* Without an object of the cycle nothing is left to be wrong.
<1>1. ASSUME NoWork(w), GoTo(w, "idle") PROVE WorkerInv(w)'
  <2>1. /\ stage'[w] = "idle" /\ w \notin manual' /\ late'[w] = 0
        /\ left'[w] = {} /\ todo'[w] = {}
        /\ \A d \in Db : /\ scan'[w][d] = "waiting" /\ hand'[w][d] = None
                         /\ chosen'[w][d] = {}
    BY <1>0, <1>1 DEF NoWork, GoTo, Typed
  <2>2. ScanInv(w)'
    BY <2>1 DEF ScanInv, AfterScan
  <2>3. HandInv(w)'
    BY <2>1 DEF HandInv
  <2>4. LateInv(w)' /\ RestInv(w)'
    BY <2>1 DEF LateInv, RestInv, Idle
  <2> QED
    BY <2>2, <2>3, <2>4
<1>2. CASE Busy(w) \/ Leave(w) \/ Crash(w) \/ FailAcquire(w)
  BY <1>1, <1>2 DEF Busy, Leave, Crash, FailAcquire
<1>3. CASE Want(w) \/ Trigger(w)
  <2>1. /\ stage[w] = "idle" /\ stage'[w] = "wanting"
        /\ UNCHANGED <<lock, scan, hand, late>>
    BY <1>0, <1>3 DEF Want, Trigger, GoTo, work, history
  <2>2. ScanInv(w)'
    BY <2>1 DEF ScanInv, AfterScan
  <2>3. HandInv(w)'
    BY <2>1 DEF HandInv
  <2>4. LateInv(w)' /\ RestInv(w)'
    BY <2>1 DEF LateInv, RestInv
  <2> QED
    BY <2>2, <2>3, <2>4
<1>4. CASE Acquire(w)
  <2>1. /\ stage[w] = "wanting" /\ UNCHANGED <<scan, hand, late, manual>>
        /\ stage'[w] = IF w \in manual THEN "permit" ELSE "scan"
    BY <1>0, <1>4 DEF Acquire, GoTo, work, history
  <2>2. \A d \in Db : scan[w][d] = "waiting" /\ hand[w][d] = None
    BY <2>1 DEF ScanInv, HandInv
  <2>3. ScanInv(w)'
    BY <2>1, <2>2 DEF ScanInv, AfterScan
  <2>4. HandInv(w)'
    BY <2>1, <2>2 DEF HandInv
  <2>5. LateInv(w)' /\ RestInv(w)'
    BY <2>1 DEF LateInv, RestInv
  <2> QED
    BY <2>3, <2>4, <2>5
<1>5. CASE Gathered(w)
  <2>1. /\ stage[w] = "scan" /\ stage'[w] = "permit"
        /\ \A d \in Db : scan[w][d] \in Ended
        /\ UNCHANGED <<lock, scan, hand, late, manual>>
    BY <1>0, <1>5 DEF Gathered, GoTo, work, history, Ended
  <2>2. \A d \in Db : hand[w][d] = None
    BY <2>1 DEF HandInv, Ended
  <2>3. ScanInv(w)'
    BY <2>1 DEF ScanInv, AfterScan
  <2>4. HandInv(w)'
    BY <2>1, <2>2 DEF HandInv
  <2>5. LateInv(w)' /\ RestInv(w)'
    BY <2>1 DEF LateInv, RestInv
  <2> QED
    BY <2>3, <2>4, <2>5
<1>6. CASE LoseLock(w) \/ Expire(w)
  <2>1. /\ lock' = None
        /\ UNCHANGED <<stage, scan, hand, late, manual, chosen, left, todo, skill>>
    BY <1>6 DEF LoseLock, Expire, table, work, history
  <2>2. ScanInv(w)'
    BY <1>0, <2>1 DEF ScanInv
  <2>3. HandInv(w)'
    BY <2>1 DEF HandInv
  <2>4. LateInv(w)' /\ RestInv(w)'
    BY <1>0, <2>1 DEF LateInv, RestInv, Idle
  <2> QED
    BY <2>2, <2>3, <2>4
<1>7. CASE EndLoop(w)
  BY <1>7 DEF EndLoop, table, work, history, ScanInv, HandInv, LateInv, RestInv, Idle
<1> QED
  BY <1>2, <1>3, <1>4, <1>5, <1>6, <1>7

LEMMA ReviewOwn ==
  ASSUME Typed, NEW w \in Worker, WorkerInv(w), ReviewStep(w) \/ FailDb(w) \/ FailCycle(w)
  PROVE  WorkerInv(w)'
<1>0. /\ stage \in [Worker -> Stages] /\ late \in [Worker -> Nat]
      /\ hand \in [Worker -> [Db -> Sop \cup {None}]]
      /\ Home \in [Sop -> Db]
      /\ None \notin Sop
  BY CuratorAssumption DEF Typed
<1> USE DEF WorkerInv, Alive
\* From a stage behind the scan to another one.
<1>1. ASSUME stage[w] \in AfterScan, stage'[w] \in AfterScan,
             stage'[w] \notin {"markScan", "markBoth"},
             UNCHANGED <<scan, manual, lock>>
      PROVE  ScanInv(w)' /\ RestInv(w)'
  BY <1>1 DEF ScanInv, RestInv, AfterScan
<1>2. CASE FailDb(w)
  <2>1. /\ stage[w] \in {"ask", "promoting", "archiving"} /\ stage'[w] = "decide"
        /\ \A d \in Db : hand'[w][d] = None
        /\ UNCHANGED <<scan, manual, lock, late>>
    BY <1>0, <1>2 DEF FailDb, GoTo
  <2>2. ScanInv(w)' /\ RestInv(w)'
    BY <1>1, <2>1 DEF AfterScan, Stages
  <2>3. HandInv(w)'
    BY <2>1 DEF HandInv
  <2>4. LateInv(w)'
    BY <2>1 DEF LateInv
  <2> QED
    BY <2>2, <2>3, <2>4
<1>3. ASSUME NEW r \in Sop, Promote(w, r) PROVE WorkerInv(w)'
  <2>1. stage[w] = "decide" /\ UNCHANGED <<scan, manual, lock, late>>
    BY <1>3 DEF Promote
  <2>2. \A d \in Db : hand[w][d] = None
    BY <2>1 DEF HandInv
  <2>3. CASE Free(r)
    <3>1. /\ stage'[w] = IF Alive(w) THEN "promoting" ELSE "leave"
          /\ hand' = [hand EXCEPT ![w][Home[r]] = r]
          /\ skill'[Title[r]] = r
      BY <1>0, <1>3, <2>3, WriteGrows DEF Promote, GoTo
    <3>2. \A d \in Db : hand'[w][d] # None => d = Home[r] /\ hand'[w][d] = r
      BY <1>0, <2>2, <3>1
    <3>3. ScanInv(w)' /\ RestInv(w)'
      BY <1>1, <2>1, <3>1 DEF AfterScan, Stages
    <3>4. HandInv(w)'
      BY <3>1, <3>2 DEF HandInv
    <3>5. LateInv(w)'
      BY <2>1, <3>1 DEF LateInv
    <3> QED
      BY <3>3, <3>4, <3>5
  <2>4. CASE ~Free(r)
    <3>1. stage'[w] = "decide" /\ hand' = hand
      BY <1>3, <2>1, <2>4 DEF Promote
    <3>2. ScanInv(w)' /\ RestInv(w)'
      BY <1>1, <2>1, <3>1 DEF AfterScan, Stages
    <3>3. HandInv(w)'
      BY <2>2, <3>1 DEF HandInv
    <3>4. LateInv(w)'
      BY <2>1, <3>1 DEF LateInv
    <3> QED
      BY <3>2, <3>3, <3>4
  <2> QED
    BY <2>3, <2>4
<1>4. ASSUME NEW r \in Sop, Archive(w, r) PROVE WorkerInv(w)'
  <2>1. /\ stage[w] = "decide" /\ UNCHANGED <<scan, manual, lock, late, skill>>
        /\ stage'[w] = IF Alive(w) THEN "archiving" ELSE "leave"
        /\ hand' = [hand EXCEPT ![w][Home[r]] = r]
    BY <1>0, <1>4 DEF Archive, GoTo, table, history
  <2>2. \A d \in Db : hand[w][d] = None
    BY <2>1 DEF HandInv
  <2>3. \A d \in Db : hand'[w][d] # None => d = Home[r]
    BY <1>0, <2>1, <2>2
  <2>4. ScanInv(w)' /\ RestInv(w)'
    BY <1>1, <2>1 DEF AfterScan, Stages
  <2>5. HandInv(w)'
    BY <2>1, <2>3 DEF HandInv
  <2>6. LateInv(w)'
    BY <2>1 DEF LateInv
  <2> QED
    BY <2>4, <2>5, <2>6
<1>5. ASSUME NEW d \in Db, Mark(w, d) PROVE WorkerInv(w)'
  <2>1. /\ stage[w] \in {"promoting", "archiving"} /\ stage'[w] = "decide"
        /\ hand[w][d] # None /\ hand' = [hand EXCEPT ![w][d] = None]
        /\ UNCHANGED <<scan, manual, lock>>
    BY <1>0, <1>5 DEF Mark, GoTo
  <2>2. \A e \in Db : hand'[w][e] = None
    BY <1>0, <2>1 DEF HandInv
  <2>3. late[w] = 0
    BY <1>0, <2>1 DEF LateInv
  <2>4. late'[w] = IF Alive(w) THEN 0 ELSE 1
    BY <1>0, <1>5, <2>3 DEF Mark
  <2>5. ScanInv(w)' /\ RestInv(w)'
    BY <1>1, <2>1 DEF AfterScan, Stages
  <2>6. HandInv(w)'
    BY <2>1, <2>2 DEF HandInv
  <2>7. LateInv(w)'
    BY <2>1, <2>4 DEF LateInv
  <2> QED
    BY <2>5, <2>6, <2>7
<1>6. ASSUME Moves(w) PROVE WorkerInv(w)'
  BY <1>6, MovesOwn
<1> QED
  BY <1>2, <1>3, <1>4, <1>5, <1>6, ReviewMoves DEF ReviewStep

-----------------------------------------------------------------------------
(* Rows and their skills.                                                  *)

WritingStays == \A r \in Sop : Writing(r) => Writing(r)'

LEMMA WritingKept ==
  ASSUME NEW w \in Worker, \A v \in Worker \ {w} : Untouched(v), None \notin Sop,
         \A d \in Db : hand[w][d] # None /\ stage[w] \in {"scan", "promoting"} =>
             hand'[w][d] = hand[w][d] /\ stage'[w] \in {"scan", "promoting"}
  PROVE  WritingStays
<1> SUFFICES ASSUME NEW r \in Sop, NEW v \in Worker, NEW d \in Db,
                    hand[v][d] = r, stage[v] \in {"scan", "promoting"}
             PROVE  hand'[v][d] = r /\ stage'[v] \in {"scan", "promoting"}
  BY DEF WritingStays, Writing
<1> QED
  BY DEF Untouched

\* No mark, and no skill.
LEMMA RowsKept ==
  ASSUME Typed, RowInv, WritingStays, UNCHANGED skill,
         \A r \in Sop : status'[r] \in {status[r], "archived"},
         intruded => intruded', torn => torn', holding' # None => holding' = holding
  PROVE  RowInv'
BY DEF RowInv, WritingStays

\* The writer died or failed.
LEMMA RowsTorn ==
  ASSUME RowInv, torn', UNCHANGED <<status, skill, holding, intruded>>
  PROVE  RowInv'
BY DEF RowInv

\* Somebody wrote without the lock.
LEMMA RowsIntruded ==
  ASSUME intruded' PROVE RowInv'
BY DEF RowInv

\* A skill is written and its row will be marked.
LEMMA RowsWritten ==
  ASSUME Typed, RowInv, WritingStays, NEW r \in Sop, Free(r), Write(r), Writing(r)',
         UNCHANGED <<status, holding, torn>>, intruded => intruded'
  PROVE  RowInv'
<1>1. SkillGrows /\ skill' = [skill EXCEPT ![Title[r]] = r]
  BY WriteGrows DEF Write
<1>2. \A q \in Sop : Title[q] \in Skill /\ q # None
  BY CuratorAssumption
<1>3. \A q \in Sop : skill[Title[q]] = q => skill'[Title[q]] = q
  BY <1>1, <1>2 DEF SkillGrows
<1>4. \A q \in Sop : skill'[Title[q]] = q => skill[Title[q]] = q \/ q = r
  BY <1>1, <1>2 DEF Typed
<1> QED
  BY <1>3, <1>4 DEF RowInv, WritingStays

\* The row whose skill was written is marked.
LEMMA RowsMarked ==
  ASSUME Typed, RowInv, NEW r \in Sop, skill[Title[r]] = r, Set({r}, "graduated"),
         \A q \in Sop \ {r} : Writing(q) => Writing(q)',
         UNCHANGED <<skill, holding, torn>>, intruded => intruded'
  PROVE  RowInv'
<1>1. status'[r] = "graduated" /\ \A q \in Sop \ {r} : status'[q] = status[q]
  BY DEF Set
<1> QED
  BY <1>1 DEF RowInv

LEMMA TrespassKeeps == ASSUME Typed, NEW w, NEW R, Trespass(w, R) PROVE intruded => intruded'
BY DEF Trespass, Typed

LEMMA ScanRows ==
  ASSUME Typed, RowInv, NEW w \in Worker, WorkerInv(w), NEW d \in Db,
         ScanStep(w, d) \/ FailScan(w, d)
  PROVE  RowInv'
<1>0. /\ scan \in [Worker -> [Db -> Phases]]
      /\ hand \in [Worker -> [Db -> Sop \cup {None}]]
      /\ None \notin Sop
      /\ status \in [Sop -> Status]
  BY CuratorAssumption DEF Typed
<1>1. stage[w] = "scan" /\ UNCHANGED <<stage, lock, holding>>
  BY ScanStage
<1>2. \A e \in Db : hand[w][e] # None =>
          scan[w][e] = "graduate" /\ skill[Title[hand[w][e]]] = hand[w][e]
  BY <1>1 DEF WorkerInv, HandInv
<1>3. \A v \in Worker \ {w} : Untouched(v)
  BY ScanOthers
<1>4. ASSUME NEW s, UNCHANGED <<hand, skill>>, Trespass(w, s) \/ UNCHANGED intruded,
             UNCHANGED torn, \A r \in Sop : status'[r] \in {status[r], "archived"}
      PROVE  RowInv'
  <2>1. WritingStays
    BY <1>0, <1>1, <1>3, <1>4, WritingKept
  <2>2. intruded => intruded'
    BY <1>4, TrespassKeeps
  <2> QED
    BY <1>1, <1>4, <2>1, <2>2, RowsKept
<1>5. CASE StartScan(w, d) \/ SelectStale(w, d) \/ FindCandidates(w, d) \/ EndScan(w, d)
  <2>1. UNCHANGED <<hand, skill, intruded, torn, status>>
    BY <1>5 DEF StartScan, SelectStale, FindCandidates, EndScan, table, work, history
  <2> QED
    BY <1>4, <2>1
<1>6. CASE ArchiveStale(w, d)
  <2>1. /\ UNCHANGED <<hand, skill, torn>> /\ Trespass(w, chosen[w][d])
        /\ \A r \in Sop : status'[r] \in {status[r], "archived"}
    BY <1>6 DEF ArchiveStale, Set
  <2> QED
    BY <1>4, <2>1
<1>7. ASSUME NEW r \in Sop, WriteSkill(w, d, r) PROVE RowInv'
  <2>1. CASE Free(r)
    <3>1. /\ Write(r) /\ hand' = [hand EXCEPT ![w][d] = r] /\ Trespass(w, {r})
          /\ hand[w][d] = None /\ UNCHANGED <<status, torn>>
      BY <1>7, <2>1 DEF WriteSkill
    <3>2. hand'[w][d] = r /\ \A e \in Db : hand[w][e] # None => hand'[w][e] = hand[w][e]
      BY <1>0, <3>1
    <3>3. WritingStays
      BY <1>0, <1>1, <1>3, <3>2, WritingKept
    <3>4. Writing(r)'
      BY <1>1, <3>2 DEF Writing
    <3>5. intruded => intruded'
      BY <3>1, TrespassKeeps
    <3> QED
      BY <1>1, <2>1, <3>1, <3>3, <3>4, <3>5, RowsWritten
  <2>2. CASE ~Free(r)
    <3>1. UNCHANGED <<hand, skill, intruded, torn, status>>
      BY <1>7, <2>2 DEF WriteSkill
    <3> QED
      BY <1>4, <3>1
  <2> QED
    BY <2>1, <2>2
<1>8. CASE MarkGraduated(w, d)
  <2>1. /\ hand[w][d] # None /\ hand[w][d] \in Sop
        /\ Set({hand[w][d]}, "graduated") /\ hand' = [hand EXCEPT ![w][d] = None]
        /\ Trespass(w, {hand[w][d]}) /\ UNCHANGED <<skill, torn>>
    BY <1>0, <1>8 DEF MarkGraduated
  <2>2. \A q \in Sop \ {hand[w][d]} : Writing(q) => Writing(q)'
    BY <1>0, <1>1, <1>3, <2>1 DEF Writing, Untouched
  <2>3. intruded => intruded'
    BY <2>1, TrespassKeeps
  <2> QED
    BY <1>1, <1>2, <2>1, <2>2, <2>3, RowsMarked
<1>9. CASE FailScan(w, d)
  <2>1. /\ hand' = [hand EXCEPT ![w][d] = None] /\ torn' = (torn \/ hand[w][d] # None)
        /\ UNCHANGED <<status, skill, intruded>>
    BY <1>9 DEF FailScan, table
  <2>2. CASE hand[w][d] # None
    BY <1>1, <2>1, <2>2, RowsTorn
  <2>3. CASE hand[w][d] = None
    <3>1. \A e \in Db : hand'[w][e] = hand[w][e]
      BY <1>0, <2>1, <2>3
    <3>2. WritingStays
      BY <1>0, <1>1, <1>3, <3>1, WritingKept
    <3> QED
      BY <1>1, <2>1, <3>2, RowsKept
  <2> QED
    BY <2>2, <2>3
<1> QED
  BY <1>5, <1>6, <1>7, <1>8, <1>9 DEF ScanStep

LEMMA LoopRows ==
  ASSUME Typed, RowInv, NEW w \in Worker, WorkerInv(w),
         \/ Want(w) \/ Trigger(w) \/ Acquire(w) \/ Busy(w) \/ Leave(w) \/ Gathered(w)
         \/ LoseLock(w) \/ Crash(w) \/ Expire(w) \/ EndLoop(w) \/ FailAcquire(w)
  PROVE  RowInv'
<1>0. /\ stage \in [Worker -> Stages] /\ None \notin Sop
      /\ hand \in [Worker -> [Db -> Sop \cup {None}]]
  BY CuratorAssumption DEF Typed
<1>1. \A v \in Worker \ {w} : Untouched(v)
  BY LoopOthers
<1>2. UNCHANGED <<status, skill, holding, intruded>>
  BY DEF Want, Trigger, Acquire, Busy, Leave, Gathered, LoseLock, Crash, Expire, EndLoop,
         FailAcquire, table, tool, history
<1>3. ASSUME UNCHANGED torn,
             stage[w] \in {"scan", "promoting"} =>
                 \/ \A d \in Db : hand[w][d] = None
                 \/ UNCHANGED <<stage, hand>>
      PROVE  RowInv'
  <2>1. WritingStays
    BY <1>0, <1>1, <1>3, WritingKept
  <2> QED
    BY <1>2, <1>3, <2>1, RowsKept
<1>4. CASE Want(w) \/ Trigger(w) \/ Acquire(w) \/ Busy(w) \/ Leave(w) \/ FailAcquire(w)
  <2>1. stage[w] \notin {"scan", "promoting"} /\ UNCHANGED torn
    BY <1>4 DEF Want, Trigger, Acquire, Busy, Leave, FailAcquire, history
  <2> QED
    BY <1>3, <2>1
<1>5. CASE Gathered(w)
  <2>1. UNCHANGED torn /\ \A d \in Db : hand[w][d] = None
    BY <1>5 DEF Gathered, WorkerInv, HandInv, history
  <2> QED
    BY <1>3, <2>1
<1>6. CASE LoseLock(w) \/ Expire(w) \/ EndLoop(w)
  BY <1>3, <1>6 DEF LoseLock, Expire, EndLoop, work, history
<1>7. CASE Crash(w)
  <2>1. torn' = (torn \/ \E d \in Db : hand[w][d] # None)
    BY <1>7 DEF Crash
  <2>2. CASE \E d \in Db : hand[w][d] # None
    BY <1>2, <2>1, <2>2, RowsTorn
  <2>3. CASE \A d \in Db : hand[w][d] = None
    <3>1. torn' = torn
      BY <2>1, <2>3 DEF Typed
    <3> QED
      BY <1>3, <2>3, <3>1
  <2> QED
    BY <2>2, <2>3
<1> QED
  BY <1>4, <1>5, <1>6, <1>7

LEMMA ReviewRows ==
  ASSUME Typed, RowInv, NEW w \in Worker, WorkerInv(w),
         ReviewStep(w) \/ FailDb(w) \/ FailCycle(w)
  PROVE  RowInv'
<1>0. /\ stage \in [Worker -> Stages] /\ None \notin Sop
      /\ hand \in [Worker -> [Db -> Sop \cup {None}]]
      /\ Home \in [Sop -> Db]
      /\ status \in [Sop -> Status]
      /\ torn \in BOOLEAN
  BY CuratorAssumption DEF Typed
<1>1. \A v \in Worker \ {w} : Untouched(v)
  BY ReviewOthers
<1>2. ASSUME UNCHANGED <<skill, holding, torn>>, intruded => intruded',
             \A r \in Sop : status'[r] \in {status[r], "archived"},
             stage[w] \notin {"scan", "promoting"}
      PROVE  RowInv'
  <2>1. WritingStays
    BY <1>0, <1>1, <1>2, WritingKept
  <2> QED
    BY <1>2, <2>1, RowsKept
<1>3. CASE Moves(w)
  <2>1. /\ UNCHANGED <<status, skill, holding, intruded, torn>>
        /\ stage[w] \notin {"scan", "promoting"}
    BY <1>3 DEF Moves, Later
  <2> QED
    BY <1>2, <2>1
<1>4. CASE FailDb(w)
  <2>1. /\ UNCHANGED <<status, skill, holding, intruded>>
        /\ torn' = (torn \/ stage[w] = "promoting")
        /\ stage[w] \in {"ask", "promoting", "archiving"}
    BY <1>4 DEF FailDb, table, tool
  <2>2. CASE stage[w] = "promoting"
    BY <2>1, <2>2, RowsTorn
  <2>3. CASE stage[w] # "promoting"
    <3>1. torn' = torn
      BY <1>0, <2>1, <2>3
    <3> QED
      BY <1>2, <2>1, <2>3, <3>1
  <2> QED
    BY <2>2, <2>3
<1>5. ASSUME NEW r \in Sop, Promote(w, r) PROVE RowInv'
  <2>1. stage[w] = "decide" /\ UNCHANGED <<status, holding, torn>>
    BY <1>5 DEF Promote, tool
  <2>2. CASE ~Free(r)
    <3>1. UNCHANGED <<skill, intruded>>
      BY <1>5, <2>2 DEF Promote
    <3> QED
      BY <1>2, <2>1, <3>1
  <2>3. CASE Free(r) /\ Alive(w)
    <3>1. /\ Write(r) /\ Trespass(w, {r})
          /\ hand' = [hand EXCEPT ![w][Home[r]] = r]
          /\ stage'[w] = "promoting"
      BY <1>0, <1>5, <2>3 DEF Promote, GoTo
    <3>2. hand'[w][Home[r]] = r /\ Home[r] \in Db
      BY <1>0, <3>1
    <3>3. Writing(r)'
      BY <3>1, <3>2 DEF Writing
    <3>4. WritingStays
      BY <1>0, <1>1, <2>1, WritingKept
    <3>5. intruded => intruded'
      BY <3>1, TrespassKeeps
    <3> QED
      BY <2>1, <2>3, <3>1, <3>3, <3>4, <3>5, RowsWritten
  <2>4. CASE Free(r) /\ ~Alive(w)
    <3>1. Trespass(w, {r})
      BY <1>5, <2>4 DEF Promote
    <3>2. intruded'
      BY <2>4, <3>1 DEF Trespass
    <3> QED
      BY <3>2, RowsIntruded
  <2> QED
    BY <2>2, <2>3, <2>4
<1>6. ASSUME NEW r \in Sop, Archive(w, r) PROVE RowInv'
  <2>1. /\ UNCHANGED <<status, skill, holding, intruded, torn>>
        /\ stage[w] \notin {"scan", "promoting"}
    BY <1>6 DEF Archive, table, tool, history
  <2> QED
    BY <1>2, <2>1
<1>7. ASSUME NEW d \in Db, Mark(w, d) PROVE RowInv'
  <2>1. /\ hand[w][d] # None /\ hand[w][d] \in Sop
        /\ hand' = [hand EXCEPT ![w][d] = None]
        /\ Trespass(w, {hand[w][d]}) /\ UNCHANGED <<skill, holding, torn>>
    BY <1>0, <1>7 DEF Mark, tool
  <2>2. intruded => intruded'
    BY <2>1, TrespassKeeps
  <2>3. CASE stage[w] = "promoting"
    <3>1. Set({hand[w][d]}, "graduated")
      BY <1>7, <2>3 DEF Mark
    <3>2. /\ skill[Title[hand[w][d]]] = hand[w][d]
          /\ \A e \in Db : hand[w][e] # None => e = d
      BY <2>1, <2>3 DEF WorkerInv, HandInv
    <3>3. \A q \in Sop \ {hand[w][d]} : Writing(q) => Writing(q)'
      BY <1>0, <1>1, <3>2 DEF Writing, Untouched
    <3> QED
      BY <2>1, <2>2, <3>1, <3>2, <3>3, RowsMarked
  <2>4. CASE stage[w] = "archiving"
    <3>1. Set({hand[w][d]}, "archived")
      BY <1>7, <2>4 DEF Mark
    <3>2. \A r \in Sop : status'[r] \in {status[r], "archived"}
      BY <3>1 DEF Set
    <3> QED
      BY <1>2, <2>1, <2>2, <2>4, <3>2
  <2> QED
    BY <1>7, <2>3, <2>4 DEF Mark
<1> QED
  BY <1>3, <1>4, <1>5, <1>6, <1>7, ReviewMoves DEF ReviewStep

LEMMA OthersRows == ASSUME Typed, RowInv, Others PROVE RowInv'
<1>0. status \in [Sop -> Status] /\ torn \in BOOLEAN /\ None \notin Sop
  BY CuratorAssumption DEF Typed
<1>1. WritingStays
  BY OthersOthers DEF WritingStays, Writing, Untouched
<1>2. ASSUME NEW r \in Sop, Use(r) \/ Age(r) \/ Forget(r) PROVE RowInv'
  <2>1. /\ UNCHANGED <<skill, holding, intruded, torn>>
        /\ \A q \in Sop : status'[q] \in {status[q], "archived"}
    BY <1>2 DEF Use, Age, Forget, Set, tool
  <2> QED
    BY <1>1, <2>1, RowsKept
<1>3. ASSUME NEW r \in Sop, Restore(r) PROVE RowInv'
  <2>1. /\ UNCHANGED <<skill, holding, intruded>>
        /\ torn' = (torn \/ skill[Title[r]] = r)
        /\ status'[r] = "active" /\ \A q \in Sop \ {r} : status'[q] = status[q]
    BY <1>3 DEF Restore, Restored, Set, tool
  <2> QED
    BY <1>0, <1>1, <2>1 DEF RowInv, WritingStays
<1>4. ASSUME NEW r \in Sop, ToolWrite(r) PROVE RowInv'
  <2>1. CASE Free(r)
    BY <1>4, <2>1, RowsIntruded DEF ToolWrite
  <2>2. CASE ~Free(r)
    <3>1. UNCHANGED <<skill, holding, intruded, torn, status>>
      BY <1>4, <2>2 DEF ToolWrite
    <3> QED
      BY <1>1, <3>1, RowsKept
  <2> QED
    BY <2>1, <2>2
<1>5. CASE ToolMark
  <2>1. intruded'
    BY <1>5 DEF ToolMark, RowInv, history
  <2> QED
    BY <2>1, RowsIntruded
<1>6. ASSUME NEW R \in SUBSET Sop, ToolSelect(R) PROVE RowInv'
  <2>1. UNCHANGED <<skill, holding, intruded, torn, status>>
    BY <1>6 DEF ToolSelect, table
  <2> QED
    BY <1>1, <2>1, RowsKept
<1>7. ASSUME NEW x \in {"scan", "review"}, Interval(x) PROVE RowInv'
  <2>1. UNCHANGED <<skill, holding, intruded, torn, status>>
    BY <1>7 DEF Interval, table, tool, history
  <2> QED
    BY <1>1, <2>1, RowsKept
<1> QED
  BY <1>2, <1>3, <1>4, <1>5, <1>6, <1>7 DEF Others

-----------------------------------------------------------------------------

LEMMA InitInv == ASSUME Init PROVE CycleInv
<1>0. None \notin Worker /\ None \notin Sop
  BY CuratorAssumption
<1>1. ASSUME NEW w \in Worker PROVE WorkerInv(w)
  <2>1. /\ stage[w] = "idle" /\ manual = {} /\ late[w] = 0 /\ left[w] = {} /\ todo[w] = {}
        /\ \A d \in Db : /\ scan[w][d] = "waiting" /\ hand[w][d] = None
                         /\ chosen[w][d] = {}
    BY DEF Init
  <2>2. ScanInv(w)
    BY <2>1 DEF ScanInv, AfterScan
  <2>3. HandInv(w)
    BY <2>1 DEF HandInv
  <2>4. LateInv(w) /\ RestInv(w)
    BY <2>1 DEF LateInv, RestInv, Idle
  <2> QED
    BY <2>2, <2>3, <2>4 DEF WorkerInv
<1>2. RowInv
  <2>1. holding = None /\ \A r \in Sop : status[r] = "active" /\ skill[Title[r]] # r
    BY <1>0, CuratorAssumption DEF Init
  <2> QED
    BY <2>1 DEF RowInv
<1> QED
  BY <1>1, <1>2, InitTyped DEF CycleInv

LEMMA NextInv == ASSUME CycleInv, [Next]_vars PROVE CycleInv'
<1>0. Typed /\ RowInv /\ \A w \in Worker : WorkerInv(w)
  BY DEF CycleInv
<1>1. Typed'
  BY <1>0, NextTyped
<1>2. ASSUME NEW w \in Worker, SkillGrows, \A v \in Worker \ {w} : Untouched(v), WorkerInv(w)'
      PROVE  \A v \in Worker : WorkerInv(v)'
  BY <1>0, <1>2, UntouchedInv
<1>3. ASSUME NEW w \in Worker, NEW d \in Db, ScanStep(w, d) \/ FailScan(w, d)
      PROVE  CycleInv'
  BY <1>0, <1>1, <1>2, <1>3, ScanOthers, ScanOwn, ScanRows DEF CycleInv
<1>4. ASSUME NEW w \in Worker,
             \/ Want(w) \/ Trigger(w) \/ Acquire(w) \/ Busy(w) \/ Leave(w) \/ Gathered(w)
             \/ LoseLock(w) \/ Crash(w) \/ Expire(w) \/ EndLoop(w) \/ FailAcquire(w)
      PROVE  CycleInv'
  BY <1>0, <1>1, <1>2, <1>4, LoopOthers, LoopOwn, LoopRows DEF CycleInv
<1>5. ASSUME NEW w \in Worker, ReviewStep(w) \/ FailDb(w) \/ FailCycle(w) PROVE CycleInv'
  BY <1>0, <1>1, <1>2, <1>5, ReviewOthers, ReviewOwn, ReviewRows DEF CycleInv
<1>6. CASE Others
  BY <1>0, <1>1, <1>6, OthersOthers, UntouchedInv, OthersRows DEF CycleInv
<1>7. CASE UNCHANGED vars
  <2>1. SkillGrows /\ WritingStays /\ \A w \in Worker : Untouched(w)
    BY <1>7 DEF SkillGrows, WritingStays, Writing, Untouched, vars, table, work, history
  <2>2. RowInv'
    BY <1>0, <1>7, <2>1, RowsKept DEF vars, table, tool, history
  <2> QED
    BY <1>0, <1>1, <2>1, <2>2, UntouchedInv DEF CycleInv
<1> QED
  BY <1>3, <1>4, <1>5, <1>6, <1>7 DEF Next, CycleStep

\* The inductive invariant: what each worker has in hand at each stage of its
\* cycle, and which rows have the skill file they are named for.
THEOREM Invariance == Spec => []CycleInv
BY InitInv, NextInv, PTL DEF Spec

\* Whatever crashes, fails or intrudes: a row that is marked as graduated has its
\* own SKILL.md while only the lock's holder writes (graduate_single_sop), and a
\* review changes at most one row after it lost the lock (run_llm_review).
THEOREM SafeGraduation == Spec => []GraduationIsSafe
<1>1. ASSUME CycleInv PROVE GraduationIsSafe
  <2>1. TypeOK
    BY <1>1 DEF CycleInv, Typed, Status, WorkerInv, RestInv, TypeOK
  <2>2. SkillsMatchRows
    BY <1>1 DEF CycleInv, RowInv, Writing, InHand, SkillsMatchRows
  <2>3. OneLateRow
    <3>1. \A w \in Worker : late[w] \in Nat /\ (late[w] > 0 => late[w] = 1)
      BY <1>1 DEF CycleInv, Typed, WorkerInv, LateInv
    <3> QED
      BY <3>1 DEF OneLateRow
  <2> QED
    BY <2>1, <2>2, <2>3 DEF GraduationIsSafe
<1> QED
  BY <1>1, Invariance, PTL

\* A worker that marks the scan complete has scanned every database to its end,
\* or seen it fail, unless it lost the lock in between (run_curator_cycle).
THEOREM MarkedIsScanned == Spec => ScanMarkedMeansScanned
<1> DEFINE Scanned ==
      \E w \in Worker :
        /\ stage[w] \in {"markScan", "markBoth"}
        /\ \A d \in Db : \/ scan[w][d] \in {"done", "failed"}
                         \/ scan[w][d] = "lost" /\ ~Alive(w)
<1>1. ASSUME CycleInv, [Next]_vars, "scan" \in due, "scan" \notin due'
      PROVE  Scanned
  <2>1. ASSUME NEW w \in Worker, MarkScan(w) \/ FailCycle(w) PROVE Scanned
    <3>1. stage[w] \in {"markScan", "markBoth"} /\ ScanInv(w)
      BY <1>1, <2>1 DEF CycleInv, WorkerInv, MarkScan, FailCycle
    <3>2. \A d \in Db : scan[w][d] \in Ended
      BY <3>1 DEF ScanInv, AfterScan, Stages
    <3>3. \A d \in Db : \/ scan[w][d] \in {"done", "failed"}
                        \/ scan[w][d] = "lost" /\ ~Alive(w)
      BY <3>1, <3>2 DEF ScanInv, Ended
    <3> QED
      BY <3>1, <3>3
  <2>2. ASSUME NEW w \in Worker, NEW d \in Db, ScanStep(w, d) \/ FailScan(w, d)
        PROVE  FALSE
    BY <1>1, <2>2, ScanStage DEF CycleInv
  <2>3. ASSUME NEW w \in Worker, ReviewStep(w) \/ FailDb(w), ~MarkScan(w) PROVE FALSE
    BY <1>1, <2>3 DEF ReviewStep, FailDb, Permit, Ask, EndDb, EndReview, MarkReview, NextDb,
                      Mark, Answer, Promote, Archive
  <2>4. ASSUME NEW w \in Worker,
               \/ Want(w) \/ Trigger(w) \/ Acquire(w) \/ Busy(w) \/ Leave(w) \/ Gathered(w)
               \/ LoseLock(w) \/ Crash(w) \/ Expire(w) \/ EndLoop(w) \/ FailAcquire(w)
        PROVE  FALSE
    BY <1>1, <2>4 DEF Want, Trigger, Acquire, Busy, Leave, Gathered, LoseLock, Crash, Expire,
                      EndLoop, FailAcquire
  <2>5. ~Others
    BY <1>1 DEF Others, Use, Age, Forget, Restore, ToolWrite, ToolSelect, ToolMark, Interval
  <2>6. ~UNCHANGED vars
    BY <1>1 DEF vars
  <2> QED
    BY <1>1, <2>1, <2>2, <2>3, <2>4, <2>5, <2>6 DEF Next, CycleStep
<1>2. CycleInv /\ [Next]_vars =>
        [("scan" \in due /\ "scan" \notin due')
          => \E w \in Worker :
              /\ stage[w] \in {"markScan", "markBoth"}
              /\ \A d \in Db : \/ scan[w][d] \in {"done", "failed"}
                               \/ scan[w][d] = "lost" /\ ~Alive(w)]_vars
  BY <1>1
<1> QED
  BY <1>2, Invariance, PTL DEF Spec, ScanMarkedMeansScanned
=============================================================================

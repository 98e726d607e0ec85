------------------------ MODULE SopExtraction_proofs ------------------------
(***************************************************************************)
(* Theorems about SopExtraction, for any tasks, sessions, turns and bounds.*)
(***************************************************************************)
EXTENDS SopExtraction, FiniteSetTheorems, WellFoundedInduction, TLAPS

(***************************************************************************)
(* The inductive invariant                                                 *)
(***************************************************************************)
\* Tasks that may hold a session's lock, or believe they do.
Extracting(c) == stage[c] \notin Outside

\* Types, and: a task has a session exactly while it is at work; what it has
\* read was recorded; every overrun is an event.
Typed ==
    /\ TypeOK
    /\ \A c \in Client : stage[c] # "idle" => of[c] \in Session
    /\ \A c \in Client : seen[c] \subseteq recorded
    /\ \A s \in Session : overruns[s] <= events

\* The lock of a session stands for one extraction, every overrun for one more.
LockInv ==
    \A s \in Session :
        Cardinality(Inside(s)) <= overruns[s] + (IF s \in lock THEN 1 ELSE 0)

\* What a task has read is accounted for by the time it deletes the records.
SeenInv ==
    \A c \in Client :
        /\ stage[c] \in {"ask", "dedup", "store"} => seen[c] \cap Synthetic \subseteq dropped
        /\ stage[c] \in {"dedup", "store", "clean"} => seen[c] \subseteq shown \cup dropped

\* Without an overlap one task is at work, of all sessions; and without a
\* failed search the procedure it is about to store has no row.
AloneInv ==
    overlap \/ \A c, d \in Client : Extracting(c) /\ Extracting(d) => c = d

HandInv ==
    overlap \/ blind \/
        \A c \in Client : stage[c] = "store" => \A k \in hand[c] : sops[k] = 0

\* Only the turn that was recorded last may exceed the bound.
RoomInv ==
    unevicted \/
        \A s \in Session :
            Cardinality(Candidates(s)) <= MaxCandidates + (IF s \in tracking THEN 1 ELSE 0)

SopInv ==
    /\ Typed /\ LockInv /\ SeenInv /\ NothingDroppedUnseen
    /\ AloneInv /\ HandInv /\ NoTwins /\ RoomInv

LEMMA Constants ==
    /\ IsFiniteSet(Client)
    /\ NoSession \notin Session
    /\ Turns \in Nat /\ In \in [Turn -> Session] /\ Synthetic \subseteq Turn
    /\ About \in [Turn -> Kind]
    /\ MaxCandidates \in Nat /\ EvictionBatch \in Nat /\ EvictionBatch > 0
    /\ MaxExtractions \in Nat /\ MaxEvents \in Nat
BY SopAssumption DEF SopAssumption

(***************************************************************************)
(* Types                                                                   *)
(***************************************************************************)
\* The three parts of Typed: the tasks, the stores, the counters.
TaskTyped ==
    /\ stage \in [Client -> Stages]
    /\ of \in [Client -> Session \cup {NoSession}]
    /\ byUser \subseteq Client
    /\ seen \in [Client -> SUBSET Turn]
    /\ answer \in [Client -> SUBSET Kind]
    /\ hand \in [Client -> SUBSET Kind]
    /\ \A d \in Client : stage[d] # "idle" => of[d] \in Session
    /\ \A d \in Client : seen[d] \subseteq recorded

StoreTyped ==
    /\ recorded \subseteq Turn
    /\ candidates \subseteq recorded
    /\ tracking \subseteq Session
    /\ lock \subseteq Session
    /\ limited \in BOOLEAN
    /\ sops \in [Kind -> Nat]
    /\ shown \subseteq recorded
    /\ dropped \subseteq recorded
    /\ overlap \in BOOLEAN /\ blind \in BOOLEAN /\ unevicted \in BOOLEAN

CountTyped ==
    /\ overruns \in [Session -> 0..MaxEvents]
    /\ extractions \in 0..MaxExtractions
    /\ events \in 0..MaxEvents
    /\ \A s \in Session : overruns[s] <= events

LEMMA TypedParts == Typed <=> TaskTyped /\ StoreTyped /\ CountTyped
BY DEF Typed, TypeOK, TaskTyped, StoreTyped, CountTyped

LEMMA InitInv == Init => SopInv
<1> SUFFICES ASSUME Init PROVE SopInv
  OBVIOUS
<1>1. \A s \in Session : Inside(s) = {} /\ Candidates(s) = {}
  BY DEF Init, Inside, Candidates, Outside
<1>2. Typed
  <2>1. MaxExtractions \in Nat /\ MaxEvents \in Nat
    BY Constants
  <2>2. "idle" \in Stages
    BY DEF Stages, Outside
  <2>3. sops \in [Kind -> Nat]
    BY DEF Init
  <2>5. overruns \in [Session -> 0 .. MaxEvents] /\ \A s \in Session : overruns[s] = 0
    <3>1. 0 \in 0 .. MaxEvents
      BY <2>1
    <3> QED
      BY <3>1 DEF Init
  <2>6. extractions \in 0 .. MaxExtractions /\ events \in 0 .. MaxEvents /\ events = 0
    BY <2>1 DEF Init
  <2>4. stage \in [Client -> Stages] /\ of \in [Client -> Session \cup {NoSession}]
        /\ seen \in [Client -> SUBSET Turn] /\ answer \in [Client -> SUBSET Kind]
        /\ hand \in [Client -> SUBSET Kind]
    BY <2>2 DEF Init
  <2>7. TaskTyped
    BY <2>4 DEF Init, TaskTyped
  <2>8. StoreTyped
    BY <2>3 DEF Init, StoreTyped
  <2>9. CountTyped
    BY <2>5, <2>6 DEF CountTyped
  <2> QED
    BY <2>7, <2>8, <2>9, TypedParts
<1>3. LockInv /\ RoomInv
  <2>1. MaxCandidates \in Nat /\ Cardinality({}) = 0
    BY Constants, FS_EmptySet
  <2> QED
    BY <1>1, <2>1 DEF Init, LockInv, RoomInv
<1>4. SeenInv /\ NothingDroppedUnseen /\ AloneInv /\ HandInv /\ NoTwins
  BY DEF Init, SeenInv, NothingDroppedUnseen, AloneInv, Extracting, HandInv, NoTwins, Outside
<1> QED
  BY <1>2, <1>3, <1>4 DEF SopInv

\* A task that is left alone keeps its types, and one that changes its stage,
\* ends, begins or reads does.
LEMMA SameTask ==
  ASSUME TaskTyped, UNCHANGED task, recorded \subseteq recorded'
  PROVE  TaskTyped'
BY DEF TaskTyped, task

LEMMA GoToTypes ==
  ASSUME TaskTyped, NEW c \in Client, NEW st \in Stages, stage[c] # "idle",
         GoTo(c, st), UNCHANGED recorded
  PROVE  TaskTyped'
BY DEF GoTo, TaskTyped

LEMMA ReturnTypes ==
  ASSUME TaskTyped, NEW c \in Client, Return(c), UNCHANGED recorded
  PROVE  TaskTyped'
<1>1. "idle" \in Stages
  BY DEF Stages, Outside
<1> QED
  BY <1>1 DEF Return, TaskTyped

LEMMA BeginTypes ==
  ASSUME TaskTyped, NEW c \in Client, NEW s \in Session, Begin(c, s), UNCHANGED recorded,
         byUser' \subseteq Client
  PROVE  TaskTyped'
<1>1. "count" \in Stages
  BY DEF Stages, Outside
<1> QED
  BY <1>1 DEF Begin, TaskTyped

LEMMA TaskTypedStep ==
  ASSUME Typed, [Next]_vars
  PROVE  TaskTyped'
<1>0. TaskTyped /\ recorded \subseteq Turn /\ candidates \subseteq recorded
  BY TypedParts DEF StoreTyped
<1>1. ASSUME NEW t \in Turn, Record(t) PROVE TaskTyped'
  BY <1>0, <1>1, SameTask DEF Record
<1>2. ASSUME NEW s \in Session, Evict(s) \/ FailEvict(s) PROVE TaskTyped'
  BY <1>0, <1>2, SameTask DEF Evict, FailEvict
<1>3. ASSUME NEW c \in Client, NEW s \in Session, Trigger(c, s) \/ Request(c, s)
      PROVE  TaskTyped'
  <2>1. Begin(c, s) /\ UNCHANGED recorded /\ byUser' \subseteq Client
    BY <1>0, <1>3 DEF Trigger, Request, TaskTyped
  <2> QED
    BY <1>0, <2>1, BeginTypes
<1>4. ASSUME LimitExpires PROVE TaskTyped'
  BY <1>0, <1>4, SameTask DEF LimitExpires
<1>5. ASSUME NEW c \in Client, Count(c) PROVE TaskTyped'
  <2>1. UNCHANGED recorded /\ (GoTo(c, "acquire") \/ Return(c)) /\ stage[c] # "idle"
    BY <1>5 DEF Count
  <2>2. "acquire" \in Stages
    BY DEF Stages, Outside
  <2> QED
    BY <1>0, <2>1, <2>2, GoToTypes, ReturnTypes
<1>6. ASSUME NEW c \in Client, Acquire(c) PROVE TaskTyped'
  <2>1. /\ UNCHANGED recorded /\ stage[c] # "idle"
        /\ GoTo(c, "read") \/ GoTo(c, "spawn") \/ Return(c)
    BY <1>6 DEF Acquire
  <2>2. "read" \in Stages /\ "spawn" \in Stages
    BY DEF Stages
  <2> QED
    BY <1>0, <2>1, <2>2, GoToTypes, ReturnTypes
<1>7. ASSUME NEW c \in Client, Spawn(c) \/ LoadTree(c) \/ AskInVain(c) \/ Clean(c) \/ Abandon(c)
      PROVE  TaskTyped'
  <2>1. /\ UNCHANGED recorded /\ stage[c] # "idle"
        /\ GoTo(c, "read") \/ GoTo(c, "clean") \/ GoTo(c, "ask") \/ GoTo(c, "release")
    BY <1>7 DEF Spawn, LoadTree, AskInVain, Clean, Abandon, Outside
  <2>2. "read" \in Stages /\ "clean" \in Stages /\ "ask" \in Stages /\ "release" \in Stages
    BY DEF Stages
  <2> QED
    BY <1>0, <2>1, <2>2, GoToTypes
<1>8. ASSUME NEW c \in Client, Read(c) PROVE TaskTyped'
  <2>1. "release" \in Stages /\ "load" \in Stages
    BY DEF Stages
  <2>2. Candidates(of[c]) \subseteq recorded /\ Candidates(of[c]) \subseteq Turn
    BY <1>0 DEF Candidates
  <2> QED
    BY <1>0, <1>8, <2>1, <2>2 DEF Read, TaskTyped
<1>9. ASSUME NEW c \in Client, Ask(c) PROVE TaskTyped'
  <2> DEFINE kinds == {About[t] : t \in seen[c] \ Synthetic}
  <2>1. "clean" \in Stages /\ "dedup" \in Stages
    BY DEF Stages
  <2>2. kinds \subseteq Kind
    BY <1>0, Constants DEF TaskTyped
  <2>3. PICK S \in SUBSET kinds :
          /\ answer' = [answer EXCEPT ![c] = S]
          /\ stage' = [stage EXCEPT ![c] = IF S = {} THEN "clean" ELSE "dedup"]
    BY <1>9 DEF Ask
  <2>4. UNCHANGED <<recorded, of, byUser, seen, hand>> /\ stage[c] # "idle"
    BY <1>9 DEF Ask
  <2>5. answer' \in [Client -> SUBSET Kind]
    BY <1>0, <2>2, <2>3 DEF TaskTyped
  <2>6. stage' \in [Client -> Stages]
    BY <1>0, <2>1, <2>3 DEF TaskTyped
  <2> QED
    BY <1>0, <2>3, <2>4, <2>5, <2>6 DEF TaskTyped
<1>10. ASSUME NEW c \in Client, NEW k \in Kind, Dedup(c, k) PROVE TaskTyped'
  <2>1. "clean" \in Stages /\ "dedup" \in Stages /\ "store" \in Stages
    BY DEF Stages
  <2>2. PICK st \in {"clean", "dedup", "store"} : stage' = [stage EXCEPT ![c] = st]
    BY <1>10 DEF Dedup, AfterSop
  <2>3. answer' = [answer EXCEPT ![c] = @ \ {k}] /\ stage[c] # "idle"
        /\ UNCHANGED <<recorded, of, byUser, seen>>
        /\ (UNCHANGED hand \/ hand' = [hand EXCEPT ![c] = {k}])
    BY <1>10 DEF Dedup
  <2>4. hand' \in [Client -> SUBSET Kind]
    BY <1>0, <2>3 DEF TaskTyped
  <2>5. answer' \in [Client -> SUBSET Kind]
    BY <1>0, <2>3 DEF TaskTyped
  <2> QED
    BY <1>0, <2>1, <2>2, <2>3, <2>4, <2>5 DEF TaskTyped
<1>11. ASSUME NEW c \in Client, Store(c) PROVE TaskTyped'
  <2>1. "clean" \in Stages /\ "dedup" \in Stages
    BY DEF Stages
  <2> QED
    BY <1>0, <1>11, <2>1 DEF Store, TaskTyped
<1>12. ASSUME NEW c \in Client, Release(c) \/ GiveUp(c) \/ Vanish(c) PROVE TaskTyped'
  <2>1. UNCHANGED recorded /\ Return(c)
    BY <1>12 DEF Release, GiveUp, Vanish
  <2> QED
    BY <1>0, <2>1, ReturnTypes
<1>13. ASSUME NEW s \in Session, LockExpires(s) PROVE TaskTyped'
  BY <1>0, <1>13, SameTask DEF LockExpires
<1>14. ASSUME UNCHANGED vars PROVE TaskTyped'
  BY <1>0, <1>14, SameTask DEF vars
<1> QED
  BY <1>1, <1>2, <1>3, <1>4, <1>5, <1>6, <1>7, <1>8, <1>9, <1>10, <1>11, <1>12, <1>13, <1>14
     DEF Next, Step

LEMMA StoreTypedStep ==
  ASSUME Typed, [Next]_vars
  PROVE  StoreTyped'
<1>0. /\ StoreTyped
      /\ \A d \in Client : seen[d] \subseteq recorded
      /\ \A d \in Client : stage[d] # "idle" => of[d] \in Session
      /\ \A s \in Session : Candidates(s) \subseteq recorded
  BY TypedParts DEF TaskTyped, StoreTyped, Candidates
<1>1. ASSUME NEW t \in Turn, Record(t) PROVE StoreTyped'
  <2>1. In[t] \in Session
    BY Constants
  <2> QED
    BY <1>0, <1>1, <2>1 DEF Record, StoreTyped, history
<1>2. ASSUME NEW s \in Session, Evict(s) PROVE StoreTyped'
  <2>1. PICK old \in SUBSET Candidates(s) :
          candidates' = candidates \ old /\ dropped' = dropped \cup old
    BY <1>2 DEF Evict, Oldest
  <2> QED
    BY <1>0, <1>2, <2>1 DEF Evict, StoreTyped
<1>3. ASSUME NEW s \in Session, FailEvict(s) PROVE StoreTyped'
  BY <1>0, <1>3 DEF FailEvict, StoreTyped, redis
<1>4. ASSUME NEW c \in Client, NEW s \in Session, Trigger(c, s) \/ Request(c, s)
      PROVE  StoreTyped'
  BY <1>0, <1>4 DEF Trigger, Request, StoreTyped, redis, history
<1>5. ASSUME LimitExpires PROVE StoreTyped'
  BY <1>0, <1>5 DEF LimitExpires, StoreTyped, history
<1>6. ASSUME NEW c \in Client,
             Count(c) \/ Spawn(c) \/ Read(c) \/ Abandon(c) \/ Vanish(c)
      PROVE  StoreTyped'
  BY <1>0, <1>6 DEF Count, Spawn, Read, Abandon, Vanish, StoreTyped, redis, history
<1>7. ASSUME NEW c \in Client, Acquire(c) PROVE StoreTyped'
  <2>1. lock' \subseteq Session
    <3>1. of[c] \in Session
      BY <1>0, <1>7 DEF Acquire
    <3> QED
      BY <1>0, <1>7, <3>1 DEF Acquire, StoreTyped
  <2>2. overlap' \in BOOLEAN
    BY <1>0, <1>7 DEF Acquire, StoreTyped
  <2>3. UNCHANGED <<recorded, tracking, candidates, limited, sops, shown, dropped, blind, unevicted>>
    BY <1>7 DEF Acquire
  <2> QED
    BY <1>0, <2>1, <2>2, <2>3 DEF StoreTyped
<1>8. ASSUME NEW c \in Client, LoadTree(c) PROVE StoreTyped'
  BY <1>0, <1>8 DEF LoadTree, StoreTyped, redis
<1>9. ASSUME NEW c \in Client, Ask(c) \/ AskInVain(c) PROVE StoreTyped'
  BY <1>0, <1>9 DEF Ask, AskInVain, StoreTyped, redis
<1>10. ASSUME NEW c \in Client, NEW k \in Kind, Dedup(c, k) PROVE StoreTyped'
  BY <1>0, <1>10 DEF Dedup, StoreTyped, redis
<1>11. ASSUME NEW c \in Client, Store(c) PROVE StoreTyped'
  <2>1. \/ sops' = [k \in Kind |-> IF k \in hand[c] THEN sops[k] + 1 ELSE sops[k]]
        \/ UNCHANGED sops
    BY <1>11 DEF Store
  <2>2. sops' \in [Kind -> Nat]
    BY <1>0, <2>1 DEF StoreTyped
  <2>3. UNCHANGED <<recorded, tracking, redis, history>>
    BY <1>11 DEF Store
  <2> QED
    BY <1>0, <2>2, <2>3 DEF StoreTyped, redis, history
<1>12. ASSUME NEW c \in Client, Clean(c) PROVE StoreTyped'
  <2>1. Candidates(of[c]) \subseteq recorded
    BY <1>0, <1>12 DEF Clean
  <2> QED
    BY <1>0, <1>12, <2>1 DEF Clean, StoreTyped
<1>13. ASSUME NEW c \in Client, Release(c) \/ GiveUp(c) PROVE StoreTyped'
  <2>1. lock' \subseteq Session
    BY <1>0, <1>13 DEF Release, GiveUp, StoreTyped
  <2> QED
    BY <1>0, <1>13, <2>1 DEF Release, GiveUp, StoreTyped, history
<1>14. ASSUME NEW s \in Session, LockExpires(s) PROVE StoreTyped'
  BY <1>0, <1>14 DEF LockExpires, StoreTyped
<1>15. ASSUME UNCHANGED vars PROVE StoreTyped'
  BY <1>0, <1>15 DEF vars, StoreTyped, redis, history
<1> QED
  BY <1>1, <1>2, <1>3, <1>4, <1>5, <1>6, <1>7, <1>8, <1>9, <1>10, <1>11, <1>12, <1>13, <1>14,
     <1>15 DEF Next, Step

\* A step counts an event or not, and an overrun only with an event.
LEMMA CountStep ==
  ASSUME [Next]_vars
  PROVE  \/ UNCHANGED <<overruns, extractions, events>>
         \/ Event /\ UNCHANGED overruns
         \/ extractions < MaxExtractions /\ extractions' = extractions + 1
            /\ UNCHANGED <<overruns, events>>
         \/ \E s \in Session : Event /\ overruns' = [overruns EXCEPT ![s] = @ + 1]
<1> DEFINE Quiet == UNCHANGED <<overruns, extractions, events>>
           Eventful == Event /\ UNCHANGED overruns
<1>1. ASSUME NEW t \in Turn, Record(t) PROVE Quiet
  BY <1>1 DEF Record, history, bounds
<1>2. ASSUME NEW s \in Session, Evict(s) PROVE Quiet
  BY <1>2 DEF Evict, bounds
<1>3. ASSUME NEW s \in Session, FailEvict(s) PROVE Eventful
  BY <1>3 DEF FailEvict
<1>4. ASSUME NEW c \in Client, NEW s \in Session, Trigger(c, s) \/ Request(c, s)
      PROVE  extractions < MaxExtractions /\ extractions' = extractions + 1
             /\ UNCHANGED <<overruns, events>>
  BY <1>4 DEF Trigger, Request, Begin, history
<1>5. ASSUME LimitExpires PROVE Quiet
  BY <1>5 DEF LimitExpires, history, bounds
<1>6. ASSUME NEW c \in Client,
             Count(c) \/ Acquire(c) \/ Spawn(c) \/ Read(c) \/ LoadTree(c) \/ Ask(c) \/ Clean(c)
                \/ Release(c)
      PROVE  Quiet
  BY <1>6 DEF Count, Acquire, Spawn, Read, LoadTree, Ask, Clean, Release, history, bounds
<1>7. ASSUME NEW c \in Client, AskInVain(c) \/ Abandon(c) \/ GiveUp(c) \/ Vanish(c)
      PROVE  Eventful
  BY <1>7 DEF AskInVain, Abandon, GiveUp, Vanish, history
<1>8. ASSUME NEW c \in Client, NEW k \in Kind, Dedup(c, k) PROVE Quiet \/ Eventful
  BY <1>8 DEF Dedup, bounds
<1>9. ASSUME NEW c \in Client, Store(c) PROVE Quiet \/ Eventful
  BY <1>9 DEF Store, bounds, history
<1>10. ASSUME NEW s \in Session, LockExpires(s)
       PROVE  Quiet \/ (Event /\ overruns' = [overruns EXCEPT ![s] = @ + 1])
  BY <1>10 DEF LockExpires, bounds
<1>11. ASSUME UNCHANGED vars PROVE Quiet
  BY <1>11 DEF vars, history, bounds
<1> QED
  BY <1>1, <1>2, <1>3, <1>4, <1>5, <1>6, <1>7, <1>8, <1>9, <1>10, <1>11 DEF Next, Step

LEMMA CountTypedStep ==
  ASSUME Typed, [Next]_vars
  PROVE  CountTyped'
<1>0. CountTyped /\ MaxExtractions \in Nat /\ MaxEvents \in Nat
  BY TypedParts, Constants
<1>1. CASE UNCHANGED <<overruns, extractions, events>>
  BY <1>0, <1>1 DEF CountTyped
<1>2. CASE Event /\ UNCHANGED overruns
  BY <1>0, <1>2 DEF CountTyped, Event
<1>3. CASE extractions < MaxExtractions /\ extractions' = extractions + 1
           /\ UNCHANGED <<overruns, events>>
  BY <1>0, <1>3 DEF CountTyped
<1>4. ASSUME NEW s \in Session, Event, overruns' = [overruns EXCEPT ![s] = @ + 1]
      PROVE  CountTyped'
  <2>1. overruns[s] \in Nat /\ overruns[s] + 1 <= events' /\ events' \in 0..MaxEvents
        /\ events <= events' /\ UNCHANGED extractions
    BY <1>0, <1>4 DEF CountTyped, Event
  <2>2. overruns[s] + 1 \in 0..MaxEvents
    BY <1>0, <2>1
  <2>3. overruns' \in [Session -> 0..MaxEvents]
    BY <1>0, <1>4, <2>2 DEF CountTyped
  <2>4. ASSUME NEW r \in Session PROVE overruns'[r] <= events'
    BY <1>0, <1>4, <2>1 DEF CountTyped
  <2> QED
    BY <1>0, <2>1, <2>3, <2>4 DEF CountTyped
<1> QED
  BY <1>1, <1>2, <1>3, <1>4, CountStep

LEMMA TypedStep ==
  ASSUME Typed, [Next]_vars
  PROVE  Typed'
<1>1. TaskTyped' /\ StoreTyped' /\ CountTyped'
  BY TaskTypedStep, StoreTypedStep, CountTypedStep
<1> QED
  BY <1>1 DEF Typed, TypeOK, TaskTyped, StoreTyped, CountTyped

(***************************************************************************)
(* The lock                                                                *)
(***************************************************************************)
\* The step in which a task takes the lock and may go on.
Enter(c) ==
    /\ stage[c] = "acquire"
    /\ of[c] \in Session \ lock
    /\ lock' = lock \cup {of[c]}
    /\ overlap' = (overlap \/ \E s \in Session : Inside(s) # {})
    /\ UNCHANGED <<of, overruns>>
    /\ \A d \in Client : Extracting(d)' => Extracting(d) \/ d = c

NoneEnters ==
    /\ UNCHANGED overlap
    /\ \A d \in Client : Extracting(d)' => Extracting(d) /\ of'[d] = of[d]

\* No other step lets a task extract.
LEMMA EnterStep ==
  ASSUME Typed, [Next]_vars
  PROVE  NoneEnters \/ \E c \in Client : Enter(c)
<1>0. /\ stage \in [Client -> Stages] /\ of \in [Client -> Session \cup {NoSession}]
      /\ \A c \in Client : stage[c] # "idle" => of[c] \in Session
  BY DEF Typed, TypeOK
<1>1. ASSUME NEW c \in Client, NEW st \in Stages, GoTo(c, st), UNCHANGED overlap,
             Extracting(c) \/ st \in Outside
      PROVE  NoneEnters
  BY <1>0, <1>1 DEF GoTo, NoneEnters, Extracting
<1>2. ASSUME NEW c \in Client, Return(c), UNCHANGED overlap PROVE NoneEnters
  BY <1>0, <1>2 DEF Return, NoneEnters, Extracting, Outside
<1>3. ASSUME UNCHANGED <<stage, of, overlap>> PROVE NoneEnters
  BY <1>3 DEF NoneEnters, Extracting
<1>4. ASSUME NEW c \in Client, NEW st \in Stages, Extracting(c), UNCHANGED <<of, overlap>>,
             stage' = [stage EXCEPT ![c] = st]
      PROVE  NoneEnters
  BY <1>0, <1>4 DEF NoneEnters, Extracting
<1>5. ASSUME NEW t \in Turn, Record(t) PROVE NoneEnters
  BY <1>3, <1>5 DEF Record, task, history
<1>6. ASSUME NEW s \in Session, Evict(s) \/ FailEvict(s) \/ LockExpires(s) PROVE NoneEnters
  BY <1>3, <1>6 DEF Evict, FailEvict, LockExpires, task
<1>7. ASSUME NEW c \in Client, NEW s \in Session, Trigger(c, s) \/ Request(c, s)
      PROVE  NoneEnters
  BY <1>0, <1>7 DEF Trigger, Request, Begin, NoneEnters, Extracting, Outside, history
<1>8. ASSUME LimitExpires PROVE NoneEnters
  BY <1>3, <1>8 DEF LimitExpires, task, history
<1>9. ASSUME NEW c \in Client, Count(c) PROVE NoneEnters
  <2>1. "acquire" \in Stages \cap Outside
    BY DEF Stages, Outside
  <2>2. UNCHANGED overlap /\ (GoTo(c, "acquire") \/ Return(c))
    BY <1>9 DEF Count, history
  <2> QED
    BY <1>1, <1>2, <2>1, <2>2
<1>10. ASSUME NEW c \in Client, Acquire(c) PROVE NoneEnters \/ Enter(c)
  <2>1. CASE of[c] \in lock
    BY <1>2, <1>10, <2>1 DEF Acquire
  <2>2. CASE of[c] \notin lock
    <3>1. /\ stage[c] = "acquire" /\ of[c] \in Session
          /\ lock' = lock \cup {of[c]}
          /\ overlap' = (overlap \/ \E s \in Session : Inside(s) # {})
          /\ UNCHANGED overruns
          /\ GoTo(c, IF c \in byUser THEN "read" ELSE "spawn")
      BY <1>0, <1>10, <2>2 DEF Acquire
    <3> QED
      BY <1>0, <2>2, <3>1 DEF Enter, GoTo, Extracting
  <2> QED
    BY <2>1, <2>2
<1>11. ASSUME NEW c \in Client, Spawn(c) \/ LoadTree(c) \/ AskInVain(c) \/ Clean(c) \/ Abandon(c)
       PROVE  NoneEnters
  <2>1. /\ UNCHANGED overlap /\ Extracting(c)
        /\ GoTo(c, "read") \/ GoTo(c, "clean") \/ GoTo(c, "ask") \/ GoTo(c, "release")
    BY <1>11 DEF Spawn, LoadTree, AskInVain, Clean, Abandon, Extracting, Outside, history
  <2>2. "read" \in Stages /\ "clean" \in Stages /\ "ask" \in Stages /\ "release" \in Stages
    BY DEF Stages
  <2> QED
    BY <1>1, <2>1, <2>2
<1>12. ASSUME NEW c \in Client, Read(c) \/ Ask(c) \/ Store(c) \/ \E k \in Kind : Dedup(c, k)
       PROVE  NoneEnters
  <2>1. Extracting(c) /\ UNCHANGED <<of, overlap>>
    BY <1>12 DEF Read, Ask, Store, Dedup, Extracting, Outside, history
  <2>2. \E st \in {"release", "load", "clean", "dedup", "store"} : stage' = [stage EXCEPT ![c] = st]
    BY <1>12 DEF Read, Ask, Store, Dedup, AfterSop
  <2>3. {"release", "load", "clean", "dedup", "store"} \subseteq Stages
    BY DEF Stages
  <2> QED
    BY <1>4, <2>1, <2>2, <2>3
<1>13. ASSUME NEW c \in Client, Release(c) \/ GiveUp(c) \/ Vanish(c) PROVE NoneEnters
  BY <1>2, <1>13 DEF Release, GiveUp, Vanish, history
<1>14. ASSUME UNCHANGED vars PROVE NoneEnters
  BY <1>3, <1>14 DEF vars, task, history
<1> QED
  BY <1>5, <1>6, <1>7, <1>8, <1>9, <1>10, <1>11, <1>12, <1>13, <1>14 DEF Next, Step

\* What becomes of the locks while no task enters.
LEMMA LockStep ==
  ASSUME Typed, [Next]_vars
  PROVE  \/ lock \subseteq lock' /\ UNCHANGED overruns
         \/ \E c \in Client : Release(c)
         \/ \E s \in Session : LockExpires(s)
<1> DEFINE Kept == lock \subseteq lock' /\ UNCHANGED overruns
<1>1. ASSUME NEW t \in Turn, Record(t) PROVE Kept
  BY <1>1 DEF Record, history
<1>2. ASSUME NEW s \in Session, Evict(s) \/ FailEvict(s) PROVE Kept
  BY <1>2 DEF Evict, FailEvict, redis
<1>3. ASSUME NEW c \in Client, NEW s \in Session, Trigger(c, s) \/ Request(c, s) PROVE Kept
  BY <1>3 DEF Trigger, Request, redis, history
<1>4. ASSUME LimitExpires PROVE Kept
  BY <1>4 DEF LimitExpires, history
<1>5. ASSUME NEW c \in Client,
             Count(c) \/ Acquire(c) \/ Spawn(c) \/ Read(c) \/ LoadTree(c) \/ Ask(c)
      PROVE  Kept
  BY <1>5 DEF Count, Acquire, Spawn, Read, LoadTree, Ask, redis, history
<1>6. ASSUME NEW c \in Client,
             AskInVain(c) \/ Store(c) \/ Clean(c) \/ Abandon(c) \/ GiveUp(c) \/ Vanish(c)
      PROVE  Kept
  BY <1>6 DEF AskInVain, Store, Clean, Abandon, GiveUp, Vanish, redis, history
<1>7. ASSUME NEW c \in Client, NEW k \in Kind, Dedup(c, k) PROVE Kept
  BY <1>7 DEF Dedup, redis
<1>8. ASSUME UNCHANGED vars PROVE Kept
  BY <1>8 DEF vars, redis, history
<1> QED
  BY <1>1, <1>2, <1>3, <1>4, <1>5, <1>6, <1>7, <1>8 DEF Next, Step

LEMMA InsideFinite ==
  ASSUME NEW s, NEW S \in SUBSET Inside(s)
  PROVE  /\ IsFiniteSet(Inside(s)) /\ IsFiniteSet(S)
         /\ Cardinality(Inside(s)) \in Nat /\ Cardinality(S) \in Nat
         /\ Cardinality(S) <= Cardinality(Inside(s))
<1>1. Inside(s) \subseteq Client /\ IsFiniteSet(Client)
  BY Constants DEF Inside
<1>2. IsFiniteSet(Inside(s))
  BY <1>1, FS_Subset
<1> QED
  BY <1>2, FS_Subset, FS_CardinalityType

LEMMA LockInvStep ==
  ASSUME Typed, Typed', LockInv, [Next]_vars
  PROVE  LockInv'
<1>0. overruns \in [Session -> Nat] /\ overruns' \in [Session -> Nat]
  BY Constants DEF Typed, TypeOK
<1>1. SUFFICES ASSUME NEW s \in Session
               PROVE  Cardinality(Inside(s)') <= overruns'[s] + (IF s \in lock' THEN 1 ELSE 0)
  BY DEF LockInv
<1>2. Cardinality(Inside(s)) <= overruns[s] + (IF s \in lock THEN 1 ELSE 0)
  BY DEF LockInv
<1>3. Cardinality(Inside(s)) \in Nat
  BY InsideFinite
<1>4. CASE NoneEnters
  <2>1. Inside(s)' \subseteq Inside(s)
    BY <1>4 DEF NoneEnters, Inside, Extracting
  <2>2. Cardinality(Inside(s)') \in Nat /\ Cardinality(Inside(s)') <= Cardinality(Inside(s))
    BY <2>1, InsideFinite
  <2>3. CASE lock \subseteq lock' /\ UNCHANGED overruns
    BY <1>0, <1>2, <1>3, <2>2, <2>3
  <2>4. ASSUME NEW c \in Client, Release(c) PROVE Cardinality(Inside(s)') <= overruns'[s] + (IF s \in lock' THEN 1 ELSE 0)
    <3>1. UNCHANGED overruns /\ lock' = lock \ {of[c]} /\ stage[c] = "release"
      BY <2>4 DEF Release, history
    <3>2. CASE of[c] # s
      BY <1>0, <1>2, <1>3, <2>2, <3>1, <3>2
    <3>3. CASE of[c] = s
      <4>1. c \in Inside(s)
        BY <3>1, <3>3 DEF Inside, Outside
      <4>2. c \notin Inside(s)'
        BY <2>4 DEF Release, Return, Inside, Outside, Typed, TypeOK
      <4>3. Inside(s)' \subseteq Inside(s) \ {c}
        BY <2>1, <4>2
      <4>4. Cardinality(Inside(s) \ {c}) = Cardinality(Inside(s)) - 1 /\ IsFiniteSet(Inside(s) \ {c})
        BY <4>1, InsideFinite, FS_RemoveElement
      <4>5. Cardinality(Inside(s)') <= Cardinality(Inside(s)) - 1
        BY <4>3, <4>4, FS_Subset
      <4> QED
        BY <1>0, <1>2, <1>3, <2>2, <3>1, <4>5
    <3> QED
      BY <3>2, <3>3
  <2>5. ASSUME NEW r \in Session, LockExpires(r) PROVE Cardinality(Inside(s)') <= overruns'[s] + (IF s \in lock' THEN 1 ELSE 0)
    <3>1. lock' = lock \ {r}
      BY <2>5 DEF LockExpires
    <3>2. CASE Inside(r) = {} /\ UNCHANGED overruns
      <4>1. Cardinality({}) = 0
        BY FS_EmptySet
      <4> QED
        BY <1>0, <1>2, <1>3, <2>2, <3>1, <3>2, <4>1
    <3>3. CASE overruns' = [overruns EXCEPT ![r] = @ + 1]
      BY <1>0, <1>2, <1>3, <2>2, <3>1, <3>3
    <3> QED
      BY <2>5, <3>2, <3>3 DEF LockExpires
  <2> QED
    BY <2>3, <2>4, <2>5, LockStep
<1>5. ASSUME NEW c \in Client, Enter(c)
      PROVE  Cardinality(Inside(s)') <= overruns'[s] + (IF s \in lock' THEN 1 ELSE 0)
  <2>1. UNCHANGED overruns /\ lock' = lock \cup {of[c]} /\ of[c] \notin lock
    BY <1>5 DEF Enter
  <2>2. CASE of[c] # s
    <3>1. Inside(s)' \subseteq Inside(s)
      BY <1>5, <2>2 DEF Enter, Inside, Extracting
    <3> QED
      BY <1>0, <1>2, <1>3, <2>1, <2>2, <3>1, InsideFinite
  <2>3. CASE of[c] = s
    <3>1. Inside(s)' \subseteq Inside(s) \cup {c}
      BY <1>5 DEF Enter, Inside, Extracting
    <3>2. IsFiniteSet(Inside(s))
      BY InsideFinite
    <3>3. IsFiniteSet(Inside(s) \cup {c}) /\ Cardinality(Inside(s) \cup {c}) <= Cardinality(Inside(s)) + 1
      BY <1>3, <3>2, FS_AddElement
    <3>4. Cardinality(Inside(s)') <= Cardinality(Inside(s) \cup {c}) /\ Cardinality(Inside(s)') \in Nat
          /\ Cardinality(Inside(s) \cup {c}) \in Nat
      BY <3>1, <3>3, FS_Subset, FS_CardinalityType
    <3> QED
      BY <1>0, <1>2, <1>3, <2>1, <2>3, <3>3, <3>4
  <2> QED
    BY <2>2, <2>3
<1> QED
  BY <1>4, <1>5, EnterStep

LEMMA AloneInvStep ==
  ASSUME Typed, AloneInv, [Next]_vars
  PROVE  AloneInv'
<1>1. CASE NoneEnters
  BY <1>1 DEF NoneEnters, AloneInv
<1>2. ASSUME NEW c \in Client, Enter(c), ~overlap' PROVE AloneInv'
  <2>1. \A s \in Session : Inside(s) = {}
    BY <1>2 DEF Enter
  <2>2. \A d \in Client : ~Extracting(d)
    BY <2>1 DEF Extracting, Inside, Outside, Typed
  <2> QED
    BY <1>2, <2>2 DEF Enter, AloneInv
<1> QED
  BY <1>1, <1>2, EnterStep DEF AloneInv

(***************************************************************************)
(* What was recorded                                                       *)
(***************************************************************************)
\* What a model has answered for, or was given up, stays so.
LEMMA AccountsGrow ==
  ASSUME [Next]_vars
  PROVE  shown \subseteq shown' /\ dropped \subseteq dropped'
<1> DEFINE Grow == shown \subseteq shown' /\ dropped \subseteq dropped'
<1>1. ASSUME NEW t \in Turn, Record(t) PROVE Grow
  BY <1>1 DEF Record, history
<1>2. ASSUME NEW s \in Session, Evict(s) \/ FailEvict(s) \/ LockExpires(s) PROVE Grow
  BY <1>2 DEF Evict, FailEvict, LockExpires
<1>3. ASSUME NEW c \in Client, NEW s \in Session, Trigger(c, s) \/ Request(c, s) PROVE Grow
  BY <1>3 DEF Trigger, Request, history
<1>4. ASSUME LimitExpires PROVE Grow
  BY <1>4 DEF LimitExpires, history
<1>5. ASSUME NEW c \in Client, Count(c) \/ Acquire(c) \/ Spawn(c) \/ Read(c) \/ LoadTree(c) PROVE Grow
  BY <1>5 DEF Count, Acquire, Spawn, Read, LoadTree, history
<1>6. ASSUME NEW c \in Client, Ask(c) \/ AskInVain(c) \/ Store(c) \/ Clean(c) \/ Release(c) PROVE Grow
  BY <1>6 DEF Ask, AskInVain, Store, Clean, Release, history
<1>7. ASSUME NEW c \in Client, NEW k \in Kind, Dedup(c, k) PROVE Grow
  BY <1>7 DEF Dedup
<1>8. ASSUME NEW c \in Client, Abandon(c) \/ GiveUp(c) \/ Vanish(c) PROVE Grow
  BY <1>8 DEF Abandon, GiveUp, Vanish, history
<1>9. ASSUME UNCHANGED vars PROVE Grow
  BY <1>9 DEF vars, history
<1> QED
  BY <1>1, <1>2, <1>3, <1>4, <1>5, <1>6, <1>7, <1>8, <1>9 DEF Next, Step

\* SeenInv for one task.
SeenOK(c) ==
    /\ stage[c] \in {"ask", "dedup", "store"} => seen[c] \cap Synthetic \subseteq dropped
    /\ stage[c] \in {"dedup", "store", "clean"} => seen[c] \subseteq shown \cup dropped

LEMMA SeenInvStep ==
  ASSUME Typed, SeenInv, [Next]_vars
  PROVE  SeenInv'
<1>0. /\ stage \in [Client -> Stages] /\ seen \in [Client -> SUBSET Turn]
      /\ shown \subseteq shown' /\ dropped \subseteq dropped'
      /\ \A c \in Client : SeenOK(c)
  BY AccountsGrow DEF Typed, TypeOK, SeenInv, SeenOK
<1> SUFFICES \A d \in Client : SeenOK(d)'
  BY DEF SeenInv, SeenOK
<1>1. ASSUME NEW d \in Client, stage'[d] = stage[d], seen'[d] = seen[d] PROVE SeenOK(d)'
  BY <1>0, <1>1 DEF SeenOK
<1>2. ASSUME NEW d \in Client, stage'[d] \notin {"ask", "dedup", "store", "clean"} PROVE SeenOK(d)'
  BY <1>2 DEF SeenOK
<1>3. ASSUME UNCHANGED <<stage, seen>> PROVE \A d \in Client : SeenOK(d)'
  BY <1>1, <1>3
<1>4. ASSUME NEW c \in Client, NEW st \in Stages, stage' = [stage EXCEPT ![c] = st],
             \A d \in Client \ {c} : seen'[d] = seen[d], SeenOK(c)'
      PROVE  \A d \in Client : SeenOK(d)'
  BY <1>0, <1>1, <1>4
<1>5. ASSUME NEW t \in Turn, Record(t) PROVE \A d \in Client : SeenOK(d)'
  BY <1>3, <1>5 DEF Record, task
<1>6. ASSUME NEW s \in Session, Evict(s) \/ FailEvict(s) \/ LockExpires(s)
      PROVE  \A d \in Client : SeenOK(d)'
  BY <1>3, <1>6 DEF Evict, FailEvict, LockExpires, task
<1>7. ASSUME NEW c \in Client, NEW s \in Session, Begin(c, s) PROVE \A d \in Client : SeenOK(d)'
  <2>1. stage'[c] = "count" /\ \A d \in Client : d # c => stage'[d] = stage[d] /\ seen'[d] = seen[d]
    BY <1>0, <1>7 DEF Begin
  <2> QED
    BY <1>1, <1>2, <2>1
<1>8. ASSUME LimitExpires PROVE \A d \in Client : SeenOK(d)'
  BY <1>3, <1>8 DEF LimitExpires, task
<1>9. ASSUME NEW c \in Client, Return(c) PROVE \A d \in Client : SeenOK(d)'
  <2>1. stage'[c] = "idle" /\ \A d \in Client : d # c => stage'[d] = stage[d] /\ seen'[d] = seen[d]
    BY <1>0, <1>9 DEF Return
  <2> QED
    BY <1>1, <1>2, <2>1
<1>10. ASSUME NEW c \in Client, NEW st \in Stages, GoTo(c, st), SeenOK(c)'
       PROVE  \A d \in Client : SeenOK(d)'
  BY <1>4, <1>10 DEF GoTo
<1>11. ASSUME NEW c \in Client, NEW st \in {"acquire", "spawn", "read", "release"}, GoTo(c, st)
       PROVE  \A d \in Client : SeenOK(d)'
  <2>1. stage'[c] = st /\ st \in Stages
    BY <1>0, <1>11 DEF GoTo, Stages, Outside
  <2> QED
    BY <1>2, <1>10, <1>11, <2>1
<1>12. ASSUME NEW c \in Client, Count(c) \/ Acquire(c) \/ Spawn(c) \/ Abandon(c)
       PROVE  \A d \in Client : SeenOK(d)'
  <2>1. \/ GoTo(c, "acquire") \/ GoTo(c, "spawn") \/ GoTo(c, "read") \/ GoTo(c, "release")
        \/ Return(c)
    BY <1>12 DEF Count, Acquire, Spawn, Abandon
  <2> QED
    BY <1>9, <1>11, <2>1
<1>13. ASSUME NEW c \in Client, Read(c) PROVE \A d \in Client : SeenOK(d)'
  <2>1. PICK st \in {"release", "load"} : stage' = [stage EXCEPT ![c] = st]
    BY <1>13 DEF Read
  <2>2. stage'[c] = st /\ \A d \in Client \ {c} : seen'[d] = seen[d]
    BY <1>0, <1>13, <2>1 DEF Read
  <2> QED
    BY <1>2, <1>4, <2>1, <2>2 DEF Stages
<1>14. ASSUME NEW c \in Client, LoadTree(c) PROVE \A d \in Client : SeenOK(d)'
  <2>1. dropped' = dropped \cup (seen[c] \cap Synthetic) /\ UNCHANGED shown
    BY <1>14 DEF LoadTree
  <2>2. CASE seen[c] \ Synthetic = {}
    <3>1. GoTo(c, "clean") /\ "clean" \in Stages
      BY <1>14, <2>2 DEF LoadTree, Stages
    <3>2. SeenOK(c)'
      BY <1>0, <2>1, <2>2, <3>1 DEF GoTo, SeenOK
    <3> QED
      BY <1>10, <3>1, <3>2
  <2>3. CASE seen[c] \ Synthetic # {}
    <3>1. GoTo(c, "ask") /\ "ask" \in Stages
      BY <1>14, <2>3 DEF LoadTree, Stages
    <3>2. SeenOK(c)'
      BY <1>0, <2>1, <3>1 DEF GoTo, SeenOK
    <3> QED
      BY <1>10, <3>1, <3>2
  <2> QED
    BY <2>2, <2>3
<1>15. ASSUME NEW c \in Client, Ask(c) PROVE \A d \in Client : SeenOK(d)'
  <2>1. PICK st \in {"clean", "dedup"} : stage' = [stage EXCEPT ![c] = st]
    BY <1>15 DEF Ask
  <2>2. stage[c] = "ask" /\ shown' = shown \cup (seen[c] \ Synthetic) /\ UNCHANGED <<seen, dropped>>
    BY <1>15 DEF Ask
  <2>3. seen[c] \cap Synthetic \subseteq dropped
    BY <1>0, <2>2 DEF SeenOK
  <2>4. SeenOK(c)'
    BY <1>0, <2>1, <2>2, <2>3 DEF SeenOK
  <2> QED
    BY <1>4, <2>1, <2>2, <2>4 DEF Stages
<1>16. ASSUME NEW c \in Client, AskInVain(c) PROVE \A d \in Client : SeenOK(d)'
  <2>1. GoTo(c, "clean") /\ dropped' = dropped \cup seen[c] /\ "clean" \in Stages
    BY <1>16 DEF AskInVain, Stages
  <2>2. SeenOK(c)'
    BY <1>0, <2>1 DEF GoTo, SeenOK
  <2> QED
    BY <1>10, <2>1, <2>2
<1>17. ASSUME NEW c \in Client, Store(c) \/ \E k \in Kind : Dedup(c, k)
       PROVE  \A d \in Client : SeenOK(d)'
  <2>1. PICK st \in {"clean", "dedup", "store"} : stage' = [stage EXCEPT ![c] = st]
    BY <1>17 DEF Store, Dedup, AfterSop
  <2>2. stage[c] \in {"dedup", "store"} /\ UNCHANGED seen
    BY <1>17 DEF Store, Dedup
  <2>3. SeenOK(c)'
    BY <1>0, <2>1, <2>2 DEF SeenOK
  <2> QED
    BY <1>4, <2>1, <2>2, <2>3 DEF Stages
<1>18. ASSUME NEW c \in Client, Clean(c) PROVE \A d \in Client : SeenOK(d)'
  BY <1>11, <1>18 DEF Clean
<1>19. ASSUME UNCHANGED vars PROVE \A d \in Client : SeenOK(d)'
  BY <1>3, <1>19 DEF vars, task
<1> QED
  BY <1>5, <1>6, <1>7, <1>8, <1>9, <1>12, <1>13, <1>14, <1>15, <1>16, <1>17, <1>18, <1>19
     DEF Next, Step, Trigger, Request, Release, GiveUp, Vanish

\* The hash changes when a turn is recorded, at an eviction and at the end of
\* an extraction.
LEMMA HashStep ==
  ASSUME [Next]_vars
  PROVE  \/ UNCHANGED <<recorded, candidates, tracking, unevicted>>
         \/ \E t \in Turn : Record(t)
         \/ \E s \in Session : Evict(s)
         \/ UNCHANGED <<recorded, candidates>> /\ unevicted'
         \/ \E c \in Client : Clean(c)
<1> DEFINE Same == UNCHANGED <<recorded, candidates, tracking, unevicted>>
<1>1. ASSUME NEW s \in Session, FailEvict(s) PROVE UNCHANGED <<recorded, candidates>> /\ unevicted'
  BY <1>1 DEF FailEvict, redis
<1>2. ASSUME NEW c \in Client, NEW s \in Session, Trigger(c, s) \/ Request(c, s) PROVE Same
  BY <1>2 DEF Trigger, Request, redis, history
<1>3. ASSUME LimitExpires PROVE Same
  BY <1>3 DEF LimitExpires, history
<1>4. ASSUME NEW c \in Client, Count(c) \/ Acquire(c) \/ Spawn(c) \/ Read(c) \/ LoadTree(c) PROVE Same
  BY <1>4 DEF Count, Acquire, Spawn, Read, LoadTree, redis, history
<1>5. ASSUME NEW c \in Client, Ask(c) \/ AskInVain(c) \/ Store(c) \/ Release(c) PROVE Same
  BY <1>5 DEF Ask, AskInVain, Store, Release, redis, history
<1>6. ASSUME NEW c \in Client, NEW k \in Kind, Dedup(c, k) PROVE Same
  BY <1>6 DEF Dedup, redis
<1>7. ASSUME NEW c \in Client, Abandon(c) \/ GiveUp(c) \/ Vanish(c) PROVE Same
  BY <1>7 DEF Abandon, GiveUp, Vanish, redis, history
<1>8. ASSUME NEW s \in Session, LockExpires(s) PROVE Same
  BY <1>8 DEF LockExpires
<1>9. ASSUME UNCHANGED vars PROVE Same
  BY <1>9 DEF vars, redis, history
<1> QED
  BY <1>1, <1>2, <1>3, <1>4, <1>5, <1>6, <1>7, <1>8, <1>9 DEF Next, Step

LEMMA NothingDroppedStep ==
  ASSUME Typed, SeenInv, NothingDroppedUnseen, [Next]_vars
  PROVE  NothingDroppedUnseen'
<1>0. shown \subseteq shown' /\ dropped \subseteq dropped'
  BY AccountsGrow
<1>1. CASE UNCHANGED <<recorded, candidates>>
  BY <1>0, <1>1 DEF NothingDroppedUnseen
<1>2. ASSUME NEW t \in Turn, Record(t) PROVE NothingDroppedUnseen'
  BY <1>0, <1>2 DEF Record, NothingDroppedUnseen
<1>3. ASSUME NEW s \in Session, Evict(s) PROVE NothingDroppedUnseen'
  <2>1. PICK old : candidates' = candidates \ old /\ dropped' = dropped \cup old
    BY <1>3 DEF Evict
  <2> QED
    BY <1>0, <1>3, <2>1 DEF Evict, NothingDroppedUnseen
<1>4. ASSUME NEW c \in Client, Clean(c) PROVE NothingDroppedUnseen'
  <2>1. seen[c] \subseteq shown \cup dropped
    BY <1>4 DEF Clean, SeenInv
  <2> QED
    BY <1>0, <1>4, <2>1 DEF Clean, NothingDroppedUnseen
<1> QED
  BY <1>1, <1>2, <1>3, <1>4, HashStep

(***************************************************************************)
(* What is stored                                                          *)
(***************************************************************************)
\* No other step than Dedup and Store touches the procedures, or brings a task
\* to its store.
LEMMA SopsStep ==
  ASSUME Typed, [Next]_vars
  PROVE  \/ /\ UNCHANGED sops /\ (overlap => overlap') /\ (blind => blind')
            /\ \A d \in Client : stage'[d] = "store" => stage[d] = "store" /\ hand'[d] = hand[d]
         \/ \E c \in Client, k \in Kind : Dedup(c, k)
         \/ \E c \in Client : Store(c)
<1> DEFINE Keeps == \A d \in Client : stage'[d] = "store" => stage[d] = "store" /\ hand'[d] = hand[d]
           Same == UNCHANGED sops /\ (overlap => overlap') /\ (blind => blind') /\ Keeps
<1>0. stage \in [Client -> Stages] /\ hand \in [Client -> SUBSET Kind]
  BY DEF Typed, TypeOK
<1>1. ASSUME UNCHANGED <<stage, hand>> PROVE Keeps
  BY <1>1
<1>2. ASSUME NEW c \in Client, NEW st, st # "store", stage' = [stage EXCEPT ![c] = st], UNCHANGED hand
      PROVE  Keeps
  BY <1>0, <1>2
<1>3. ASSUME NEW c \in Client, Return(c) PROVE Keeps
  BY <1>0, <1>3 DEF Return
<1>4. ASSUME NEW t \in Turn, Record(t) PROVE Same
  BY <1>1, <1>4 DEF Record, task, history
<1>5. ASSUME NEW s \in Session, Evict(s) \/ FailEvict(s) \/ LockExpires(s) PROVE Same
  BY <1>1, <1>5 DEF Evict, FailEvict, LockExpires, task
<1>6. ASSUME NEW c \in Client, NEW s \in Session, Trigger(c, s) \/ Request(c, s) PROVE Same
  BY <1>2, <1>6 DEF Trigger, Request, Begin, history
<1>7. ASSUME LimitExpires PROVE Same
  BY <1>1, <1>7 DEF LimitExpires, task, history
<1>8. ASSUME NEW c \in Client, Count(c) \/ Release(c) \/ GiveUp(c) \/ Vanish(c) PROVE Same
  <2>1. Return(c) \/ GoTo(c, "acquire")
    BY <1>8 DEF Count, Release, GiveUp, Vanish
  <2>2. Keeps
    BY <1>2, <1>3, <2>1 DEF GoTo
  <2> QED
    BY <1>8, <2>2 DEF Count, Release, GiveUp, Vanish, history
<1>9. ASSUME NEW c \in Client, Acquire(c) PROVE Same
  <2>1. Return(c) \/ GoTo(c, "read") \/ GoTo(c, "spawn")
    BY <1>9 DEF Acquire
  <2>2. Keeps
    BY <1>2, <1>3, <2>1 DEF GoTo
  <2>3. UNCHANGED <<sops, blind>> /\ (overlap => overlap')
    BY <1>9 DEF Acquire
  <2> QED
    BY <2>2, <2>3
<1>10. ASSUME NEW c \in Client, Spawn(c) \/ LoadTree(c) \/ AskInVain(c) \/ Clean(c) \/ Abandon(c)
       PROVE  Same
  <2>1. GoTo(c, "read") \/ GoTo(c, "clean") \/ GoTo(c, "ask") \/ GoTo(c, "release")
    BY <1>10 DEF Spawn, LoadTree, AskInVain, Clean, Abandon
  <2>2. Keeps
    BY <1>2, <2>1 DEF GoTo
  <2> QED
    BY <1>10, <2>2 DEF Spawn, LoadTree, AskInVain, Clean, Abandon, history
<1>11. ASSUME NEW c \in Client, Read(c) \/ Ask(c) PROVE Same
  <2>1. PICK st \in {"release", "load", "clean", "dedup"} : stage' = [stage EXCEPT ![c] = st]
    BY <1>11 DEF Read, Ask
  <2>2. UNCHANGED <<sops, hand, overlap, blind>>
    BY <1>11 DEF Read, Ask, history
  <2> QED
    BY <1>2, <2>1, <2>2
<1>12. ASSUME UNCHANGED vars PROVE Same
  BY <1>1, <1>12 DEF vars, task, history
<1> QED
  BY <1>4, <1>5, <1>6, <1>7, <1>8, <1>9, <1>10, <1>11, <1>12 DEF Next, Step

LEMMA HandInvStep ==
  ASSUME Typed, AloneInv, HandInv, NoTwins, [Next]_vars
  PROVE  HandInv' /\ NoTwins'
<1>0. /\ stage \in [Client -> Stages] /\ hand \in [Client -> SUBSET Kind]
      /\ sops \in [Kind -> Nat] /\ answer \in [Client -> SUBSET Kind]
  BY DEF Typed, TypeOK
<1>1. CASE /\ UNCHANGED sops /\ (overlap => overlap') /\ (blind => blind')
           /\ \A d \in Client : stage'[d] = "store" => stage[d] = "store" /\ hand'[d] = hand[d]
  BY <1>1 DEF HandInv, NoTwins
<1>2. ASSUME NEW c \in Client, NEW k \in Kind, Dedup(c, k) PROVE HandInv' /\ NoTwins'
  <2>1. UNCHANGED <<sops, overlap>> /\ (blind => blind')
    BY <1>2 DEF Dedup
  <2>2. \/ \E st \in {"clean", "dedup"} : stage' = [stage EXCEPT ![c] = st] /\ UNCHANGED hand
        \/ /\ stage' = [stage EXCEPT ![c] = "store"] /\ hand' = [hand EXCEPT ![c] = {k}]
           /\ sops[k] = 0 \/ blind'
    BY <1>2 DEF Dedup, AfterSop
  <2>3. CASE \E st \in {"clean", "dedup"} : stage' = [stage EXCEPT ![c] = st] /\ UNCHANGED hand
    BY <1>0, <2>1, <2>3 DEF HandInv, NoTwins
  <2>4. CASE /\ stage' = [stage EXCEPT ![c] = "store"] /\ hand' = [hand EXCEPT ![c] = {k}]
             /\ sops[k] = 0 \/ blind'
    BY <1>0, <2>1, <2>4 DEF HandInv, NoTwins
  <2> QED
    BY <2>2, <2>3, <2>4
<1>3. ASSUME NEW c \in Client, Store(c) PROVE HandInv' /\ NoTwins'
  <2>1. UNCHANGED <<overlap, blind>> /\ stage[c] = "store"
    BY <1>3 DEF Store, history
  <2>2. \/ sops' = [k \in Kind |-> IF k \in hand[c] THEN sops[k] + 1 ELSE sops[k]]
        \/ UNCHANGED sops
    BY <1>3 DEF Store
  <2>3. \A d \in Client : stage'[d] = "store" => d # c /\ stage[d] = "store"
    BY <1>0, <1>3 DEF Store
  <2>4. CASE overlap \/ blind
    BY <2>1, <2>4 DEF HandInv, NoTwins
  <2>5. CASE ~overlap /\ ~blind
    <3>1. \A d \in Client : stage[d] = "store" => d = c
      BY <2>1, <2>5 DEF AloneInv, Extracting, Outside
    <3>2. HandInv'
      BY <2>3, <3>1 DEF HandInv
    <3>3. \A k \in hand[c] : sops[k] = 0
      BY <2>1, <2>5 DEF HandInv
    <3>4. \A k \in Kind : sops[k] <= 1
      BY <2>5 DEF NoTwins
    <3>5. \A k \in Kind : sops'[k] <= 1
      BY <1>0, <2>2, <3>3, <3>4
    <3> QED
      BY <3>2, <3>5 DEF NoTwins
  <2> QED
    BY <2>4, <2>5
<1> QED
  BY <1>1, <1>2, <1>3, SopsStep

(***************************************************************************)
(* The bound of the hash                                                   *)
(***************************************************************************)
\* An eviction removes something.
LEMMA OldestExists ==
  ASSUME NEW S, S \subseteq Turn, S # {}, NEW n \in Nat, n > 0
  PROVE  Oldest(S, n) \subseteq S /\ Oldest(S, n) # {}
<1>1. S \subseteq Nat
  BY Constants DEF Turn
<1>2. PICK m \in S : \A u \in S : ~(<<u, m>> \in OpToRel(<, Nat))
  BY <1>1, NatLessThanWellFounded, WFMin
<1>3. \A u \in S : ~(u < m)
  BY <1>1, <1>2 DEF OpToRel
<1>4. {u \in S : u < m} = {}
  BY <1>3
<1>5. Cardinality({u \in S : u < m}) < n
  BY <1>4, FS_EmptySet
<1> QED
  BY <1>5 DEF Oldest

LEMMA CandidatesFinite ==
  ASSUME Typed, NEW s, NEW S \in SUBSET Candidates(s)
  PROVE  /\ IsFiniteSet(Candidates(s)) /\ IsFiniteSet(S)
         /\ Cardinality(Candidates(s)) \in Nat /\ Cardinality(S) \in Nat
         /\ Cardinality(S) <= Cardinality(Candidates(s))
<1>1. Candidates(s) \subseteq Turn
  BY DEF Typed, TypeOK, Candidates
<1>2. IsFiniteSet(Turn)
  <2>1. 1 \in Int /\ Turns \in Int
    BY Constants
  <2> QED
    BY <2>1, FS_Interval DEF Turn
<1>3. IsFiniteSet(Candidates(s))
  BY <1>1, <1>2, FS_Subset
<1> QED
  BY <1>3, FS_Subset, FS_CardinalityType

LEMMA RoomInvStep ==
  ASSUME Typed, Typed', RoomInv, [Next]_vars
  PROVE  RoomInv'
<1>0. MaxCandidates \in Nat /\ EvictionBatch \in Nat /\ EvictionBatch > 0
      /\ In \in [Turn -> Session]
  BY Constants
<1>1. CASE UNCHANGED <<recorded, candidates, tracking, unevicted>>
  BY <1>1 DEF RoomInv, Candidates
<1>2. CASE unevicted'
  BY <1>2 DEF RoomInv
<1>3. ASSUME NEW t \in Turn, Record(t), ~unevicted', NEW s \in Session
      PROVE  Cardinality(Candidates(s)') <= MaxCandidates + (IF s \in tracking' THEN 1 ELSE 0)
  <2>1. /\ ~unevicted /\ candidates' = candidates \cup {t} /\ tracking' = tracking \cup {In[t]}
        /\ In[t] \notin tracking
    BY <1>3 DEF Record, history
  <2>2. /\ Cardinality(Candidates(s)) <= MaxCandidates + (IF s \in tracking THEN 1 ELSE 0)
        /\ Cardinality(Candidates(s)) \in Nat /\ IsFiniteSet(Candidates(s))
    BY <2>1, CandidatesFinite DEF RoomInv
  <2>3. CASE In[t] # s
    <3>1. Candidates(s)' = Candidates(s)
      BY <2>1, <2>3 DEF Candidates
    <3> QED
      BY <2>1, <2>2, <2>3, <3>1
  <2>4. CASE In[t] = s
    <3>1. Candidates(s)' = Candidates(s) \cup {t}
      BY <2>1, <2>4 DEF Candidates
    <3>2. IsFiniteSet(Candidates(s) \cup {t})
          /\ (Cardinality(Candidates(s) \cup {t}) = Cardinality(Candidates(s))
              \/ Cardinality(Candidates(s) \cup {t}) = Cardinality(Candidates(s)) + 1)
      BY <2>2, FS_AddElement
    <3> QED
      BY <1>0, <2>1, <2>2, <2>4, <3>1, <3>2
  <2> QED
    BY <2>3, <2>4
<1>4. ASSUME NEW r \in Session, Evict(r), ~unevicted', NEW s \in Session
      PROVE  Cardinality(Candidates(s)') <= MaxCandidates + (IF s \in tracking' THEN 1 ELSE 0)
  <2> DEFINE over == Cardinality(Candidates(r)) > MaxCandidates
             old == IF over THEN Oldest(Candidates(r), EvictionBatch) ELSE {}
  <2>1. /\ ~unevicted /\ candidates' = candidates \ old /\ tracking' = tracking \ {r}
        /\ r \in tracking
    BY <1>4 DEF Evict
  <2>2. /\ \A q \in Session :
             Cardinality(Candidates(q)) <= MaxCandidates + (IF q \in tracking THEN 1 ELSE 0)
        /\ Cardinality(Candidates(s)) \in Nat
    BY <2>1, CandidatesFinite DEF RoomInv
  <2>3. Candidates(s)' \subseteq Candidates(s)
    BY <2>1 DEF Candidates
  <2>4. Cardinality(Candidates(s)') <= Cardinality(Candidates(s)) /\ Cardinality(Candidates(s)') \in Nat
    BY <2>3, CandidatesFinite
  <2>5. CASE s # r
    <3>1. s \in tracking' <=> s \in tracking
      BY <2>1, <2>5
    <3> QED
      BY <1>0, <2>2, <2>4, <3>1
  <2>6. CASE s = r /\ ~over
    BY <1>0, <2>1, <2>2, <2>4, <2>6
  <2>7. CASE s = r /\ over
    <3>1. Candidates(r) \subseteq Turn
      BY DEF Typed, TypeOK, Candidates
    <3>2. Candidates(r) # {}
      BY <1>0, <2>7, FS_EmptySet
    <3>3. PICK m \in Candidates(r) : m \in old
      BY <1>0, <2>7, <3>1, <3>2, OldestExists
    <3>4. Candidates(s)' \subseteq Candidates(s) \ {m}
      BY <2>1, <2>3, <3>3 DEF Candidates
    <3>5. IsFiniteSet(Candidates(s))
      BY CandidatesFinite
    <3>6. Cardinality(Candidates(s) \ {m}) = Cardinality(Candidates(s)) - 1
          /\ IsFiniteSet(Candidates(s) \ {m})
      BY <2>7, <3>3, <3>5, FS_RemoveElement
    <3>7. Cardinality(Candidates(s)') <= Cardinality(Candidates(s)) - 1
      BY <3>4, <3>6, FS_Subset
    <3> QED
      BY <1>0, <2>1, <2>2, <2>4, <2>7, <3>7
  <2> QED
    BY <2>5, <2>6, <2>7
<1>5. ASSUME NEW c \in Client, Clean(c), ~unevicted', NEW s \in Session
      PROVE  Cardinality(Candidates(s)') <= MaxCandidates + (IF s \in tracking' THEN 1 ELSE 0)
  <2>1. UNCHANGED <<tracking, unevicted>> /\ Candidates(s)' \subseteq Candidates(s)
    BY <1>5 DEF Clean, Candidates
  <2>2. Cardinality(Candidates(s)') <= Cardinality(Candidates(s)) /\ Cardinality(Candidates(s)') \in Nat
        /\ Cardinality(Candidates(s)) \in Nat
    BY <2>1, CandidatesFinite
  <2> QED
    BY <1>0, <1>5, <2>1, <2>2 DEF RoomInv
<1> QED
  BY <1>1, <1>2, <1>3, <1>4, <1>5, HashStep DEF RoomInv

(***************************************************************************)
(* The theorems                                                            *)
(***************************************************************************)
LEMMA InvStep == SopInv /\ [Next]_vars => SopInv'
<1> SUFFICES ASSUME SopInv, [Next]_vars PROVE SopInv'
  OBVIOUS
<1>1. Typed'
  BY TypedStep DEF SopInv
<1>2. LockInv' /\ RoomInv'
  BY <1>1, LockInvStep, RoomInvStep DEF SopInv
<1>3. SeenInv' /\ NothingDroppedUnseen'
  BY SeenInvStep, NothingDroppedStep DEF SopInv
<1>4. AloneInv' /\ HandInv' /\ NoTwins'
  BY AloneInvStep, HandInvStep DEF SopInv
<1> QED
  BY <1>1, <1>2, <1>3, <1>4 DEF SopInv

\* Every reachable state satisfies the inductive invariant.
THEOREM Invariance == Spec => []SopInv
<1>1. Init => SopInv
  BY InitInv
<1>2. SopInv /\ [Next]_vars => SopInv'
  BY InvStep
<1> QED
  BY <1>1, <1>2, PTL DEF Spec

LEMMA InvBoundsExtractions == SopInv => ExtractionsBounded
<1> SUFFICES ASSUME SopInv, NEW s \in Session
             PROVE  Cardinality(Inside(s)) <= 1 + overruns[s]
  BY DEF ExtractionsBounded
<1>1. Cardinality(Inside(s)) <= overruns[s] + (IF s \in lock THEN 1 ELSE 0)
  BY DEF SopInv, LockInv
<1>2. Cardinality(Inside(s)) \in Nat /\ overruns[s] \in Nat
  BY InsideFinite, Constants DEF SopInv, Typed, TypeOK
<1> QED
  BY <1>1, <1>2

LEMMA InvIsSafe == SopInv => ExtractionIsSafe
<1> SUFFICES ASSUME SopInv PROVE ExtractionIsSafe
  OBVIOUS
<1>1. TypeOK /\ NothingDroppedUnseen /\ NoTwins
  BY DEF SopInv, Typed
<1>2. CandidatesBounded
  <2>1. \A s \in Session : Cardinality(Candidates(s)) \in Nat
    BY CandidatesFinite DEF SopInv
  <2> QED
    BY <2>1, Constants DEF SopInv, RoomInv, CandidatesBounded
<1> QED
  BY <1>1, <1>2 DEF ExtractionIsSafe

\* However tasks are refused the lock, cancelled or killed (extract_sops_sync,
\* _extract_then_reset), a session has at most one extraction under way, and
\* one more for every lock whose TTL ran out under one.
THEOREM OneExtraction == Spec => []ExtractionsBounded
BY Invariance, InvBoundsExtractions, PTL

\* However extractions meet, no recorded turn is deleted unseen but for the
\* known reasons, no procedure is stored twice but after an overlap or a blind
\* search, and the hash stays within its bound (_cleanup, _is_duplicate,
\* _maybe_evict).
THEOREM SafeExtraction == Spec => []ExtractionIsSafe
BY Invariance, InvIsSafe, PTL

=============================================================================

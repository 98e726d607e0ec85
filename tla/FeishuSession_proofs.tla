------------------------ MODULE FeishuSession_proofs ------------------------
(***************************************************************************)
(* Theorems about FeishuSession, for any events and any number of          *)
(* sessions.                                                               *)
(***************************************************************************)
EXTENDS FeishuSession, TLAPS

(***************************************************************************)
(* The inductive invariant                                                 *)
(***************************************************************************)
\* Where a handler stands before it knows its session.
Sessionless == {"unsent", "resolve", "create", "ignored"}

\* The variables have their types; the current session is the latest one.
Typed ==
    /\ current = created
    /\ created \in 0 .. MaxSessions
    /\ age \in [Session -> {"none", "recent", "old"}]
    /\ step \in [Message -> Steps]
    /\ kind \in [Message -> {"text", "reaction", "new", "stop"}]
    /\ sid \in [Message -> 0 .. created]
    /\ old \in [Message -> 0 .. created]
    /\ resetting \subseteq Message
    /\ queue \in [Session -> Seq(Message)]
    /\ entries \subseteq Session
    /\ consumers = entries
    /\ busy \subseteq Session
    /\ rc \in [Session -> [active : BOOLEAN, abort : BOOLEAN]]

\* A handler past resolution has a session.
HasSession(m) == step[m] \notin Sessionless => sid[m] \in Session

\* m waits in the queue of s, at place i.
Holds(s, i, m) == i \in 1 .. Len(queue[s]) /\ queue[s][i] = m

\* Whoever waits is in the queue of its session; whatever is in a queue waits
\* there, once, and has a consumer.
QueueInv ==
    /\ \A m \in Message : step[m] = "queued" => \E i \in Nat : Holds(sid[m], i, m)
    /\ \A s \in Session : \A i \in 1 .. Len(queue[s]) :
           s \in entries /\ step[queue[s][i]] = "queued" /\ sid[queue[s][i]] = s
    /\ \A s \in Session : \A i, j \in 1 .. Len(queue[s]) :
           queue[s][i] = queue[s][j] => i = j

\* A session has one run in hand at most.
OneRun ==
    \A m, n \in Message :
        step[m] \in Running /\ step[n] \in Running /\ sid[m] = sid[n] => m = n

\* What a rotation cleans up was left before; only such a session's runs
\* unwind; and the current session's run has its busy flag.
BusyInv ==
    \A m \in Message :
        /\ step[m] = "clean" => old[m] < created
        /\ step[m] = "unwinding" => sid[m] < created
        /\ step[m] \in Running /\ sid[m] = created => sid[m] \in busy

\* Only a heeded /stop sets an abort event.
StopInv ==
    /\ \A s \in Session :
           rc[s].abort => \E n \in Message : step[n] = "stopped" /\ sid[n] = s
    /\ StopStaysInSession

TypeInv == Typed /\ \A m \in Message : HasSession(m)

SessionInv == TypeInv /\ QueueInv /\ OneRun /\ BusyInv

LEMMA InitInv == Init => SessionInv /\ StopInv
BY FeishuAssumption
   DEF Init, SessionInv, TypeInv, Typed, HasSession, QueueInv, Holds, OneRun, BusyInv,
       StopInv, StopStaysInSession, NewControl, Steps, Running, Terminal, Results,
       Replies, Losses, Handling, Sessionless, NoSession, Session

(***************************************************************************)
(* Types                                                                   *)
(***************************************************************************)
LEMMA SeqFacts ==
  ASSUME NEW S, NEW q \in Seq(S)
  PROVE  /\ \A x \in S : Append(q, x) \in Seq(S) /\ Len(Append(q, x)) = Len(q) + 1
         /\ \A x \in S : Append(q, x)[Len(q) + 1] = x
         /\ \A x \in S : \A i \in 1 .. Len(q) : Append(q, x)[i] = q[i]
         /\ Len(q) > 0 =>
              /\ Tail(q) \in Seq(S) /\ Len(Tail(q)) = Len(q) - 1
              /\ Head(q) = q[1]
              /\ \A i \in 1 .. Len(Tail(q)) : Tail(q)[i] = q[i + 1]
         /\ Len(q) \in Nat
         /\ q = <<>> <=> Len(q) = 0
OBVIOUS

\* A queued message's session has a queue that is not empty.
LEMMA QueueOfQueued ==
  ASSUME TypeInv, QueueInv, NEW m \in Message, step[m] = "queued"
  PROVE  sid[m] \in Session /\ queue[sid[m]] \in Seq(Message) /\ Len(queue[sid[m]]) > 0
<1>1. sid[m] \in Session
  BY DEF TypeInv, HasSession, Sessionless
<1>2. queue[sid[m]] \in Seq(Message)
  BY <1>1 DEF TypeInv, Typed
<1>3. Len(queue[sid[m]]) > 0
  BY <1>2 DEF QueueInv, Holds
<1> QED
  BY <1>1, <1>2, <1>3

LEMMA ControlType ==
  ASSUME rc \in [Session -> [active : BOOLEAN, abort : BOOLEAN]],
         NEW s \in Session, NEW b \in BOOLEAN
  PROVE  /\ [rc EXCEPT ![s].active = b] \in [Session -> [active : BOOLEAN, abort : BOOLEAN]]
         /\ [rc EXCEPT ![s].abort = b] \in [Session -> [active : BOOLEAN, abort : BOOLEAN]]
<1>1. rc[s] \in [active : BOOLEAN, abort : BOOLEAN]
  OBVIOUS
<1>2. /\ [rc[s] EXCEPT !.active = b] \in [active : BOOLEAN, abort : BOOLEAN]
      /\ [rc[s] EXCEPT !.abort = b] \in [active : BOOLEAN, abort : BOOLEAN]
  BY <1>1
<1> QED
  BY <1>2

LEMMA TypeHandling ==
  ASSUME TypeInv, QueueInv, NEW m \in Message,
         Resolve(m) \/ Create(m) \/ Check(m) \/ Rotate(m) \/ Swap(m) \/ Follow(m)
  PROVE  TypeInv'
<1> USE FeishuAssumption
    DEF TypeInv, Typed, HasSession, Sessionless, Goto, Session, NoSession, registry
<1>0. /\ {"check", "rotate", "swap", "clean", "act", "follow", "rotated"} \subseteq Steps
      /\ {"create", "ignored"} \subseteq Steps
  BY DEF Steps, Handling, Terminal, Replies
<1>1. CASE Resolve(m)
  <2>1. PICK x \in {"act", "check", "ignored", "create"} :
           /\ step' = [step EXCEPT ![m] = x]
           /\ x \in {"act", "check"} => current \in Session
    BY <1>1 DEF Resolve
  <2>2. step' \in [Message -> Steps] /\ sid' \in [Message -> 0 .. created]
    BY <1>0, <1>1, <2>1 DEF Resolve
  <2>3. \A n \in Message : step'[n] \notin Sessionless => sid'[n] \in Session
    BY <1>1, <2>1 DEF Resolve
  <2> QED
    BY <1>1, <2>2, <2>3 DEF Resolve
<1>2. CASE Create(m)
  <2>1. created' = created + 1 /\ current' = created' /\ created' \in Session
    BY <1>2 DEF Create, Open
  <2>2. /\ step' \in [Message -> Steps]
        /\ sid' \in [Message -> 0 .. created']
        /\ old' \in [Message -> 0 .. created']
    BY <1>0, <1>2, <2>1 DEF Create
  <2>3. \A n \in Message : step'[n] \notin Sessionless => sid'[n] \in Session
    BY <1>2, <2>1 DEF Create
  <2> QED
    <3>1. UNCHANGED <<age, kind, resetting, queue, entries, consumers, busy, rc>>
      BY <1>2 DEF Create
    <3>2. created' \in 0 .. MaxSessions /\ current' = created'
      BY <2>1
    <3>3. Typed'
      BY <2>2, <3>1, <3>2
    <3> QED
      BY <2>3, <3>3
<1>3. CASE Check(m)
  BY <1>0, <1>3 DEF Check
<1>4. CASE Rotate(m)
  BY <1>0, <1>4 DEF Rotate
<1>5. CASE Swap(m)
  BY <1>0, <1>5 DEF Swap, Open
<1>6. CASE Follow(m)
  <2>1. PICK x \in {"rotated", "act"} : step' = [step EXCEPT ![m] = x]
    BY <1>6 DEF Follow
  <2>2. step[m] = "follow" /\ sid[m] \in Session
    BY <1>6 DEF Follow
  <2>6. current \in Session
    BY <2>2
  <2>3. \/ UNCHANGED <<kind, sid>>
        \/ /\ kind' = [kind EXCEPT ![m] = "text"]
           /\ sid' = [sid EXCEPT ![m] = current]
    BY <1>6 DEF Follow
  <2>4. /\ step' \in [Message -> Steps]
        /\ sid' \in [Message -> 0 .. created]
        /\ kind' \in [Message -> {"text", "reaction", "new", "stop"}]
    <3>1. step' \in [Message -> Steps]
      BY <1>0, <2>1
    <3>2. sid' \in [Message -> 0 .. created]
      <4>1. CASE sid' = sid
        BY <4>1
      <4>2. CASE sid' = [sid EXCEPT ![m] = current]
        <5>1. current \in 0 .. created
          OBVIOUS
        <5> QED
          BY <4>2, <5>1
      <4> QED
        BY <2>3, <4>1, <4>2
    <3>3. kind' \in [Message -> {"text", "reaction", "new", "stop"}]
      BY <2>3
    <3> QED
      BY <3>1, <3>2, <3>3
  <2>5. \A n \in Message : step'[n] \notin Sessionless => sid'[n] \in Session
    BY <2>1, <2>2, <2>3, <2>6
  <2> QED
    <3>1. UNCHANGED <<current, created, age, old, resetting, queue, entries, consumers,
                      busy, rc>>
      BY <1>6 DEF Follow
    <3> QED
      BY <2>4, <2>5, <3>1
<1> QED
  BY <1>1, <1>2, <1>3, <1>4, <1>5, <1>6

LEMMA TypeActing ==
  ASSUME TypeInv, QueueInv, NEW m \in Message,
         Clean(m) \/ Enqueue(m) \/ Stop(m) \/ NewCommand(m)
  PROVE  TypeInv'
<1> USE FeishuAssumption
    DEF TypeInv, Typed, HasSession, Sessionless, Goto, Session, NoSession, registry
<1>0. {"act", "follow", "dropped", "unwinding", "queued", "stopped", "nothing",
       "refused", "rotate"} \subseteq Steps
  BY DEF Steps, Handling, Terminal, Replies, Losses
<1>1. CASE Clean(m)
  <2>1. step' \in [Message -> Steps]
    BY <1>0, <1>1 DEF Clean, CleanUp, Cancelled
  <2>2. \A n \in Message : step'[n] \notin Sessionless => step[n] \notin Sessionless
    BY <1>1 DEF Clean, CleanUp, Casualties, Running
  <2>3. rc' \in [Session -> [active : BOOLEAN, abort : BOOLEAN]]
    BY <1>1 DEF Clean, CleanUp, NewControl
  <2> QED
    <3>1. /\ old' \in [Message -> 0 .. created]
          /\ queue' \in [Session -> Seq(Message)]
          /\ consumers' = entries' /\ entries' \subseteq Session
          /\ busy' \subseteq Session
          /\ resetting' \subseteq Message
      <4>1. /\ old' = [old EXCEPT ![m] = 0]
            /\ queue' = [queue EXCEPT ![old[m]] = <<>>]
            /\ entries' = entries \ {old[m]}
            /\ consumers' = consumers \ {old[m]}
            /\ busy' = busy \ {old[m]}
            /\ resetting' = resetting \ {m}
        BY <1>1 DEF Clean, CleanUp
      <4>2. /\ old' \in [Message -> 0 .. created]
            /\ queue' \in [Session -> Seq(Message)]
        <5>1. 0 \in 0 .. created /\ <<>> \in Seq(Message)
          OBVIOUS
        <5> QED
          BY <4>1, <5>1
      <4> QED
        BY <4>1, <4>2
    <3>2. UNCHANGED <<current, created, age, kind, sid>>
      BY <1>1 DEF Clean
    <3> QED
      BY <2>1, <2>2, <2>3, <3>1, <3>2
<1>2. CASE Enqueue(m)
  <2>1. sid[m] \in Session
    BY <1>2 DEF Enqueue, Acts
  <2>2. queue' \in [Session -> Seq(Message)]
    <3>1. Append(queue[sid[m]], m) \in Seq(Message)
      BY <2>1, SeqFacts
    <3> QED
      BY <1>2, <2>1, <3>1 DEF Enqueue
  <2>3. consumers' = entries' /\ entries' \subseteq Session
    BY <1>2, <2>1 DEF Enqueue
  <2> QED
    BY <1>0, <1>2, <2>1, <2>2, <2>3 DEF Enqueue
<1>3. CASE Stop(m)
  <2>1. sid[m] \in Session
    BY <1>3 DEF Stop, Acts
  <2>2. rc' \in [Session -> [active : BOOLEAN, abort : BOOLEAN]]
    <3>1. \/ rc' = rc
          \/ rc' = [rc EXCEPT ![sid[m]].abort = TRUE]
      BY <1>3 DEF Stop
    <3>2. [rc EXCEPT ![sid[m]].abort = TRUE] \in [Session -> [active : BOOLEAN, abort : BOOLEAN]]
      BY <2>1, ControlType
    <3> QED
      BY <3>1, <3>2
  <2>3. step' \in [Message -> Steps]
    BY <1>0, <1>3 DEF Stop
  <2>4. \A n \in Message : step'[n] \notin Sessionless /\ n # m => step[n] \notin Sessionless
    BY <1>3 DEF Stop
  <2> QED
    BY <1>3, <2>1, <2>2, <2>3, <2>4 DEF Stop
<1>4. CASE NewCommand(m)
  BY <1>0, <1>4 DEF NewCommand, Acts
<1> QED
  BY <1>1, <1>2, <1>3, <1>4

\* The end of a run, whatever it ends with.
LEMMA TypeReturn ==
  ASSUME TypeInv, NEW m \in Message, NEW end \in Steps, step[m] \notin Sessionless,
         Return(m, end),
         age' \in [Session -> {"none", "recent", "old"}],
         rc' \in [Session -> [active : BOOLEAN, abort : BOOLEAN]]
  PROVE  TypeInv'
BY DEF TypeInv, Typed, HasSession, Return, Goto

LEMMA TypeRunning ==
  ASSUME TypeInv, QueueInv, NEW m \in Message, Run(m)
  PROVE  TypeInv'
<1>0. {"dispatch", "model", "reported", "aborted", "failed", "cancelled"} \subseteq Steps
  BY DEF Steps, Running, Terminal, Results, Losses
<1>1. CASE Start(m)
  <2>1. sid[m] \in Session /\ Tail(queue[sid[m]]) \in Seq(Message)
    BY <1>1, QueueOfQueued, SeqFacts DEF Start
  <2>2. queue' \in [Session -> Seq(Message)]
    BY <1>1, <2>1 DEF Start, TypeInv, Typed
  <2> QED
    BY <1>0, <1>1, <2>1, <2>2 DEF Start, Goto, TypeInv, Typed, HasSession, Sessionless
<1>2. ASSUME step[m] \in {"dispatch", "model", "unwinding"}
      PROVE  step[m] \notin Sessionless /\ sid[m] \in Session
  BY <1>2 DEF TypeInv, HasSession, Sessionless
<1>3. ASSUME NEW how \in {"reported", "aborted"}, EndRun(m, how), step[m] \in Running
      PROVE  TypeInv'
  <2>1. rc' \in [Session -> [active : BOOLEAN, abort : BOOLEAN]]
    BY <1>2, <1>3 DEF EndRun, TypeInv, Typed, Running
  <2>2. age' \in [Session -> {"none", "recent", "old"}]
    BY <1>3 DEF EndRun, TypeInv, Typed
  <2> QED
    BY <1>0, <1>2, <1>3, <2>1, <2>2, TypeReturn DEF EndRun, Running
<1>4. ASSUME Fail(m), step[m] \in Running
      PROVE  TypeInv'
  <2>1. rc' \in [Session -> [active : BOOLEAN, abort : BOOLEAN]]
    BY <1>2, <1>4 DEF Fail, TypeInv, Typed, Running
  <2> QED
    BY <1>0, <1>2, <1>4, <2>1, TypeReturn DEF Fail, Running, TypeInv, Typed
<1>5. CASE Dispatch(m)
  <2>1. CASE ~rc[sid[m]].abort /\ Goto(m, "model")
    <3>1. rc' \in [Session -> [active : BOOLEAN, abort : BOOLEAN]]
      <4>1. \/ rc' = [rc EXCEPT ![sid[m]].active = TRUE]
            \/ rc' = [rc EXCEPT ![sid[m]].active = FALSE]
        BY <1>5 DEF Dispatch, EndRun, Fail
      <4>2. sid[m] \in Session /\ rc \in [Session -> [active : BOOLEAN, abort : BOOLEAN]]
        BY <1>2, <1>5 DEF Dispatch, TypeInv, Typed
      <4> QED
        <5>1. \A b \in BOOLEAN : [rc EXCEPT ![sid[m]].active = b]
                                   \in [Session -> [active : BOOLEAN, abort : BOOLEAN]]
          BY <4>2, ControlType
        <5> QED
          BY <4>1, <5>1
    <3> QED
      BY <1>0, <1>2, <1>5, <2>1, <3>1
         DEF Dispatch, EndRun, Fail, Return, Goto, TypeInv, Typed, HasSession, Sessionless
  <2> QED
    BY <1>3, <1>4, <1>5, <2>1 DEF Dispatch, Running
<1>6. CASE Work(m)
  BY <1>3, <1>4, <1>6 DEF Work, Running
<1>7. CASE Unwound(m)
  BY <1>0, <1>2, <1>7, TypeReturn DEF Unwound, TypeInv, Typed
<1> QED
  BY <1>1, <1>5, <1>6, <1>7 DEF Run

LEMMA TypeStep ==
  ASSUME TypeInv, QueueInv, [Next]_vars
  PROVE  TypeInv'
<1>1. ASSUME NEW m \in Message, NEW k \in Kinds[m], Arrive(m, k)
      PROVE  TypeInv'
  <2>1. "resolve" \in Steps /\ k \in {"text", "reaction", "new", "stop"}
    BY <1>1, FeishuAssumption DEF Steps, Handling
  <2> QED
    BY <1>1, <2>1 DEF Arrive, Goto, TypeInv, Typed, HasSession, Sessionless, registry
<1>2. ASSUME NEW s \in Session, GrowOld(s)
      PROVE  TypeInv'
  BY <1>2 DEF GrowOld, TypeInv, Typed, HasSession, handlers, registry
<1>3. ASSUME UNCHANGED vars
      PROVE  TypeInv'
  BY <1>3 DEF vars, TypeInv, Typed, HasSession, handlers, registry
<1> QED
  BY <1>1, <1>2, <1>3, TypeHandling, TypeActing, TypeRunning DEF Next, Handle

(***************************************************************************)
(* Queues, runs and busy flags                                             *)
(***************************************************************************)
Engaged == Running \cup {"queued", "unwinding"}
Apart   == {"unsent"} \cup Handling \cup Replies

\* A step of m's handler that leaves the registry's queues alone.
Quiet(m) ==
    /\ UNCHANGED <<queue, entries, busy>>
    /\ created' \in {created, created + 1}
    /\ \E x \in Steps :
         /\ step' = [step EXCEPT ![m] = x]
         /\ step[m] \in Apart
         /\ x \in Apart
         /\ x = "clean" => old'[m] < created'
    /\ \A n \in Message : n # m => sid'[n] = sid[n] /\ old'[n] = old[n]

LEMMA QuietSteps ==
  ASSUME TypeInv, NEW m \in Message,
         \/ Resolve(m) \/ Create(m) \/ Check(m) \/ Rotate(m) \/ Swap(m)
         \/ Stop(m) \/ NewCommand(m) \/ Follow(m)
         \/ \E k \in Kinds[m] : Arrive(m, k)
  PROVE  Quiet(m)
<1> USE DEF Goto, Apart, Handling, Replies, registry
<1>0. /\ {"check", "rotate", "swap", "clean", "act", "follow", "rotated", "resolve"} \subseteq Steps
      /\ {"create", "ignored", "stopped", "nothing", "refused"} \subseteq Steps
  BY DEF Steps, Handling, Terminal, Replies
<1>a. created \in Nat /\ current = created /\ old \in [Message -> 0 .. created]
      /\ sid \in [Message -> 0 .. created]
  BY FeishuAssumption DEF TypeInv, Typed
<1>1. CASE Resolve(m)
  BY <1>0, <1>a, <1>1 DEF Resolve, Quiet
<1>2. CASE Create(m)
  BY <1>0, <1>a, <1>2 DEF Create, Open, Quiet
<1>3. CASE Check(m)
  BY <1>0, <1>a, <1>3 DEF Check, Quiet
<1>4. CASE Rotate(m)
  BY <1>0, <1>a, <1>4 DEF Rotate, Quiet
<1>5. CASE Swap(m)
  <2>1. old'[m] < created'
    BY <1>a, <1>5 DEF Swap, Open
  <2> QED
    BY <1>0, <1>a, <1>5, <2>1 DEF Swap, Open, Quiet
<1>6. CASE Stop(m)
  BY <1>0, <1>a, <1>6 DEF Stop, Acts, Quiet
<1>7. CASE NewCommand(m)
  BY <1>0, <1>a, <1>7 DEF NewCommand, Acts, Quiet
<1>8. CASE Follow(m)
  BY <1>0, <1>a, <1>8 DEF Follow, Quiet
<1>9. CASE \E k \in Kinds[m] : Arrive(m, k)
  BY <1>0, <1>a, <1>9 DEF Arrive, Quiet
<1> QED
  BY <1>1, <1>2, <1>3, <1>4, <1>5, <1>6, <1>7, <1>8, <1>9

LEMMA QuietKeeps ==
  ASSUME SessionInv, TypeInv', NEW m \in Message, Quiet(m)
  PROVE  SessionInv'
<1> USE DEF SessionInv
<1>1. /\ \A n \in Message : step'[n] \in Engaged \/ step[n] \in Engaged =>
           n # m /\ step'[n] = step[n] /\ sid'[n] = sid[n]
      /\ \A n \in Message : n # m => step'[n] = step[n] /\ old'[n] = old[n]
      /\ UNCHANGED <<queue, entries, busy>>
      /\ created' \in Nat /\ created \in Nat /\ created <= created'
      /\ step'[m] = "clean" => old'[m] < created'
  BY FeishuAssumption
     DEF Quiet, Apart, Handling, Replies, Engaged, Running, TypeInv, Typed
<1>2. QueueInv'
  <2>1. ASSUME NEW n \in Message, step'[n] = "queued"
        PROVE  \E i \in Nat : Holds(sid[n], i, n)'
    BY <1>1, <2>1 DEF QueueInv, Holds, Engaged
  <2>2. ASSUME NEW s \in Session, NEW i \in 1 .. Len(queue[s])
        PROVE  s \in entries' /\ step'[queue[s][i]] = "queued" /\ sid'[queue[s][i]] = s
    <3>1. queue[s][i] \in Message
      BY DEF TypeInv, Typed
    <3> QED
      BY <1>1, <3>1 DEF QueueInv, Engaged
  <2> QED
    BY <1>1, <2>1, <2>2 DEF QueueInv, Holds, Engaged
<1>3. OneRun'
  BY <1>1 DEF OneRun, Engaged
<1>4. BusyInv'
  <2> SUFFICES ASSUME NEW n \in Message
               PROVE  /\ step'[n] = "clean" => old'[n] < created'
                      /\ step'[n] = "unwinding" => sid'[n] < created'
                      /\ step'[n] \in Running /\ sid'[n] = created' => sid'[n] \in busy'
    BY DEF BusyInv
  <2>0. sid[n] \in Nat /\ old[n] \in Nat /\ sid[n] <= created
    BY DEF TypeInv, Typed
  <2>1. step'[n] = "clean" => old'[n] < created'
    BY <1>1, <2>0 DEF BusyInv
  <2>2. step'[n] = "unwinding" => sid'[n] < created'
    BY <1>1, <2>0 DEF BusyInv, Engaged
  <2>3. step'[n] \in Running /\ sid'[n] = created' => sid'[n] \in busy'
    BY <1>1, <2>0 DEF BusyInv, Engaged
  <2> QED
    BY <2>1, <2>2, <2>3
<1> QED
  BY <1>2, <1>3, <1>4

LEMMA EnqueueKeeps ==
  ASSUME SessionInv, TypeInv', NEW m \in Message, Enqueue(m)
  PROVE  SessionInv'
<1> USE DEF SessionInv
<1> DEFINE s == sid[m]
<1>1. /\ step[m] \in {"act", "check"}
      /\ step' = [step EXCEPT ![m] = "queued"]
      /\ s \in Session
      /\ queue' = [queue EXCEPT ![s] = Append(@, m)]
      /\ entries' = entries \cup {s}
      /\ UNCHANGED <<sid, old, created, busy>>
  BY DEF Enqueue, Acts, Goto, TypeInv, HasSession, Sessionless
<1>2. /\ queue[s] \in Seq(Message) /\ queue \in [Session -> Seq(Message)]
      /\ step \in [Message -> Steps]
  BY <1>1 DEF TypeInv, Typed
<1>3. /\ Len(queue'[s]) = Len(queue[s]) + 1 /\ Len(queue[s]) \in Nat
      /\ queue'[s][Len(queue[s]) + 1] = m
      /\ \A i \in 1 .. Len(queue[s]) : queue'[s][i] = queue[s][i]
  <2>1. queue'[s] = Append(queue[s], m)
    BY <1>1, <1>2
  <2> QED
    BY <1>2, <2>1, SeqFacts
<1>4. \A t \in Session : t # s => queue'[t] = queue[t]
  BY <1>1, <1>2
<1>5. \A t \in Session : \A i \in 1 .. Len(queue[t]) : queue[t][i] # m /\ queue[t][i] \in Message
  BY <1>1, <1>2 DEF QueueInv
<1>6. QueueInv'
  <2>1. ASSUME NEW n \in Message, step'[n] = "queued"
        PROVE  \E i \in Nat : Holds(sid[n], i, n)'
    <3>1. CASE n = m
      BY <1>1, <1>3, <3>1 DEF Holds
    <3>2. CASE n # m
      <4>1. PICK i \in Nat : Holds(sid[n], i, n)
        BY <1>1, <1>2, <2>1, <3>2 DEF QueueInv
      <4>2. sid[n] \in Session
        BY <1>1, <1>2, <2>1, <3>2 DEF TypeInv, HasSession, Sessionless
      <4>3. Holds(sid[n], i, n)'
        BY <1>1, <1>3, <1>4, <4>1, <4>2 DEF Holds
      <4> QED
        BY <4>3
    <3> QED
      BY <3>1, <3>2
  <2>2. ASSUME NEW t \in Session, NEW i \in 1 .. Len(queue'[t])
        PROVE  t \in entries' /\ step'[queue'[t][i]] = "queued" /\ sid'[queue'[t][i]] = t
    <3>1. CASE t = s /\ i = Len(queue[s]) + 1
      BY <1>1, <1>2, <1>3, <3>1
    <3>2. CASE i \in 1 .. Len(queue[t]) /\ queue'[t][i] = queue[t][i]
      BY <1>1, <1>2, <1>5, <3>2 DEF QueueInv
    <3> QED
      BY <1>3, <1>4, <3>1, <3>2
  <2>3. ASSUME NEW t \in Session, NEW i \in 1 .. Len(queue'[t]), NEW j \in 1 .. Len(queue'[t]),
               queue'[t][i] = queue'[t][j]
        PROVE  i = j
    <3>1. CASE t # s
      BY <1>4, <2>3, <3>1 DEF QueueInv
    <3>2. CASE t = s
      BY <1>1, <1>3, <1>5, <2>3, <3>2 DEF QueueInv
    <3> QED
      BY <3>1, <3>2
  <2> QED
    BY <1>1, <2>1, <2>2, <2>3 DEF QueueInv
<1>7. OneRun'
  BY <1>1, <1>2 DEF OneRun, Running
<1>8. BusyInv'
  BY <1>1, <1>2 DEF BusyInv, Running
<1> QED
  BY <1>6, <1>7, <1>8

LEMMA StartKeeps ==
  ASSUME SessionInv, TypeInv', NEW m \in Message, Start(m)
  PROVE  SessionInv'
<1> USE DEF SessionInv
<1> DEFINE s == sid[m]
<1>1. /\ step[m] = "queued"
      /\ InHand(s) = {}
      /\ Head(queue[s]) = m
      /\ step' = [step EXCEPT ![m] = "dispatch"]
      /\ queue' = [queue EXCEPT ![s] = Tail(@)]
      /\ busy' = busy \cup {s}
      /\ UNCHANGED <<sid, old, created, entries>>
  BY DEF Start, Goto
<1>2. /\ s \in Session /\ queue[s] \in Seq(Message) /\ Len(queue[s]) > 0
      /\ queue \in [Session -> Seq(Message)] /\ step \in [Message -> Steps]
  BY <1>1, QueueOfQueued DEF TypeInv, Typed
<1>3. /\ Len(queue'[s]) = Len(queue[s]) - 1 /\ Len(queue[s]) \in Nat
      /\ queue[s][1] = m
      /\ \A i \in 1 .. Len(queue'[s]) : queue'[s][i] = queue[s][i + 1]
  <2>1. queue'[s] = Tail(queue[s])
    BY <1>1, <1>2
  <2> QED
    BY <1>1, <1>2, <2>1, SeqFacts
<1>4. \A t \in Session : t # s => queue'[t] = queue[t]
  BY <1>1, <1>2
<1>5. \A t \in Session : \A i \in 1 .. Len(queue[t]) : queue[t][i] \in Message
  BY <1>2
<1>6. QueueInv'
  <2>1. ASSUME NEW n \in Message, step'[n] = "queued"
        PROVE  \E i \in Nat : Holds(sid[n], i, n)'
    <3>0. n # m /\ step[n] = "queued" /\ sid[n] \in Session
      BY <1>1, <1>2, <2>1 DEF TypeInv, HasSession, Sessionless
    <3>1. PICK i \in Nat : Holds(sid[n], i, n)
      BY <3>0 DEF QueueInv
    <3>2. CASE sid[n] = s
      <4>1. i # 1 /\ i \in 1 .. Len(queue[s]) /\ queue[s][i] = n
        BY <1>3, <3>0, <3>1, <3>2 DEF Holds
      <4>2. i - 1 \in 1 .. Len(queue'[s]) /\ queue'[s][i - 1] = n
        BY <1>3, <4>1
      <4>3. i - 1 \in Nat
        BY <4>2
      <4>4. Holds(sid[n], i - 1, n)'
        BY <1>1, <3>2, <4>2 DEF Holds
      <4> QED
        BY <4>3, <4>4
    <3>3. CASE sid[n] # s
      BY <1>1, <1>4, <3>0, <3>1, <3>3 DEF Holds
    <3> QED
      BY <3>2, <3>3
  <2>2. ASSUME NEW t \in Session, NEW i \in 1 .. Len(queue'[t])
        PROVE  t \in entries' /\ step'[queue'[t][i]] = "queued" /\ sid'[queue'[t][i]] = t
    <3>1. CASE t = s
      <4>1. i + 1 \in 1 .. Len(queue[s]) /\ 1 \in 1 .. Len(queue[s]) /\ i \in Nat /\ i > 0
        BY <1>3, <3>1
      <4>2. queue'[t][i] = queue[s][i + 1] /\ queue[s][i + 1] # m
        BY <1>2, <1>3, <3>1, <4>1 DEF QueueInv
      <4> QED
        BY <1>1, <1>2, <1>5, <3>1, <4>1, <4>2 DEF QueueInv
    <3>2. CASE t # s
      <4>1. queue'[t] = queue[t] /\ i \in 1 .. Len(queue[t]) /\ queue[t][i] \in Message
        BY <1>4, <1>5, <3>2
      <4>2. t \in entries /\ step[queue[t][i]] = "queued" /\ sid[queue[t][i]] = t
        BY <4>1 DEF QueueInv
      <4> QED
        BY <1>1, <1>2, <3>2, <4>1, <4>2
    <3> QED
      BY <3>1, <3>2
  <2>3. ASSUME NEW t \in Session, NEW i \in 1 .. Len(queue'[t]), NEW j \in 1 .. Len(queue'[t]),
               queue'[t][i] = queue'[t][j]
        PROVE  i = j
    <3>1. CASE t # s
      BY <1>4, <2>3, <3>1 DEF QueueInv
    <3>2. CASE t = s
      <4>1. i + 1 \in 1 .. Len(queue[s]) /\ j + 1 \in 1 .. Len(queue[s])
        BY <1>3, <3>2
      <4>2. queue[s][i + 1] = queue[s][j + 1]
        BY <1>3, <2>3, <3>2
      <4>3. i + 1 = j + 1
        BY <1>2, <4>1, <4>2 DEF QueueInv
      <4> QED
        BY <4>3
    <3> QED
      BY <3>1, <3>2
  <2> QED
    BY <1>1, <2>1, <2>2, <2>3 DEF QueueInv
<1>7. OneRun'
  BY <1>1, <1>2 DEF OneRun, InHand
<1>8. BusyInv'
  BY <1>1, <1>2 DEF BusyInv, Running
<1> QED
  BY <1>6, <1>7, <1>8

LEMMA CleanKeeps ==
  ASSUME SessionInv, TypeInv', NEW m \in Message, Clean(m)
  PROVE  SessionInv'
<1> USE DEF SessionInv
<1> DEFINE s == old[m]
<1>1. /\ step[m] = "clean"
      /\ \A n \in Message :
           step'[n] = IF n = m THEN IF m \in resetting THEN "act" ELSE "follow"
                      ELSE IF n \in Casualties(s) THEN Cancelled(n) ELSE step[n]
      /\ queue' = [queue EXCEPT ![s] = <<>>]
      /\ entries' = entries \ {s}
      /\ busy' = busy \ {s}
      /\ UNCHANGED <<sid, created>>
      /\ old' = [old EXCEPT ![m] = NoSession]
  BY DEF Clean, CleanUp
<1>2. queue \in [Session -> Seq(Message)] /\ s < created
  BY <1>1 DEF TypeInv, Typed, BusyInv
\* What is left as it was, and what the rotation turned out.
<1>3. \A n \in Message :
        /\ step'[n] \in Running \cup {"queued", "clean"} =>
             step'[n] = step[n] /\ n # m /\ (step[n] # "clean" => sid[n] # s)
        /\ step'[n] = "unwinding" => step[n] = "unwinding" \/ sid[n] = s
        /\ step[n] = "queued" /\ sid[n] # s => step'[n] = "queued"
  BY <1>1 DEF Casualties, Cancelled, Running
<1>4. /\ \A t \in Session : t # s => queue'[t] = queue[t]
      /\ s \in Session => Len(queue'[s]) = 0
  BY <1>1, <1>2
<1>5. QueueInv'
  <2>1. ASSUME NEW n \in Message, step'[n] = "queued"
        PROVE  \E i \in Nat : Holds(sid[n], i, n)'
    <3>1. step[n] = "queued" /\ sid[n] # s /\ sid[n] \in Session
      BY <1>3, <2>1 DEF TypeInv, HasSession, Sessionless
    <3>2. PICK i \in Nat : Holds(sid[n], i, n)
      BY <3>1 DEF QueueInv
    <3>3. Holds(sid[n], i, n)'
      BY <1>1, <1>4, <3>1, <3>2 DEF Holds
    <3> QED
      BY <3>3
  <2>2. ASSUME NEW t \in Session, NEW i \in 1 .. Len(queue'[t])
        PROVE  t \in entries' /\ step'[queue'[t][i]] = "queued" /\ sid'[queue'[t][i]] = t
    <3>1. t # s /\ queue'[t] = queue[t]
      BY <1>4
    <3>2. /\ queue[t][i] \in Message /\ t \in entries
          /\ step[queue[t][i]] = "queued" /\ sid[queue[t][i]] = t
      BY <1>2, <3>1 DEF QueueInv
    <3> QED
      BY <1>1, <1>3, <3>1, <3>2
  <2>3. ASSUME NEW t \in Session, NEW i \in 1 .. Len(queue'[t]), NEW j \in 1 .. Len(queue'[t]),
               queue'[t][i] = queue'[t][j]
        PROVE  i = j
    BY <1>4, <2>3 DEF QueueInv
  <2> QED
    BY <1>1, <2>1, <2>2, <2>3 DEF QueueInv
<1>6. OneRun'
  BY <1>1, <1>3 DEF OneRun
<1>7. BusyInv'
  <2> SUFFICES ASSUME NEW n \in Message
               PROVE  /\ step'[n] = "clean" => old'[n] < created'
                      /\ step'[n] = "unwinding" => sid'[n] < created'
                      /\ step'[n] \in Running /\ sid'[n] = created' => sid'[n] \in busy'
    BY DEF BusyInv
  <2>1. step'[n] = "clean" => old'[n] < created'
    BY <1>1, <1>3 DEF BusyInv, TypeInv, Typed
  <2>2. step'[n] = "unwinding" => sid'[n] < created'
    BY <1>1, <1>2, <1>3 DEF BusyInv
  <2>3. step'[n] \in Running /\ sid'[n] = created' => sid'[n] \in busy'
    BY <1>1, <1>3 DEF BusyInv, Running
  <2> QED
    BY <2>1, <2>2, <2>3
<1> QED
  BY <1>5, <1>6, <1>7

\* A run that goes on, or one that ends and, unless it was cancelled, returns
\* to the consumer whose session it had to itself.
LEMMA RunKeeps ==
  ASSUME SessionInv, TypeInv', NEW m \in Message, NEW x \in Steps,
         step[m] \in Running \cup {"unwinding"},
         step' = [step EXCEPT ![m] = x],
         UNCHANGED <<created, sid, old, queue, entries>>,
         \/ x \in Running /\ step[m] \in Running /\ busy' = busy
         \/ x \in Terminal /\ busy' = busy \ {sid[m]}
  PROVE  SessionInv'
<1> USE DEF SessionInv
<1>1. \A n \in Message : n # m => step'[n] = step[n]
  OBVIOUS
<1>2. /\ x \notin {"queued", "clean", "unwinding"}
      /\ step'[m] = x
      /\ x \in Terminal => x \notin Running
  BY DEF Running, Terminal, Results, Replies, Losses, TypeInv, Typed
<1>3. step[m] \notin {"queued", "clean"}
  BY DEF Running
<1>4. QueueInv'
  <2>1. ASSUME NEW n \in Message, step'[n] = "queued"
        PROVE  \E i \in Nat : Holds(sid[n], i, n)'
    BY <1>1, <1>2, <2>1 DEF QueueInv, Holds
  <2>2. ASSUME NEW s \in Session, NEW i \in 1 .. Len(queue[s])
        PROVE  s \in entries' /\ step'[queue[s][i]] = "queued" /\ sid'[queue[s][i]] = s
    <3>1. queue[s][i] \in Message
      BY DEF TypeInv, Typed
    <3> QED
      BY <1>1, <1>3, <3>1 DEF QueueInv
  <2> QED
    BY <2>1, <2>2 DEF QueueInv
<1>5. OneRun'
  <2>1. \A n \in Message : step'[n] \in Running => step[n] \in Running
    BY <1>1, <1>2
  <2> QED
    BY <2>1 DEF OneRun
<1>6. BusyInv'
  <2> SUFFICES ASSUME NEW n \in Message
               PROVE  /\ step'[n] = "clean" => old[n] < created
                      /\ step'[n] = "unwinding" => sid[n] < created
                      /\ step'[n] \in Running /\ sid[n] = created => sid[n] \in busy'
    BY DEF BusyInv
  <2>1. step'[n] = "clean" => old[n] < created
    BY <1>1, <1>2 DEF BusyInv
  <2>2. step'[n] = "unwinding" => sid[n] < created
    BY <1>1, <1>2 DEF BusyInv
  <2>3. ASSUME step'[n] \in Running, sid[n] = created
        PROVE  sid[n] \in busy'
    <3>1. step[n] \in Running /\ sid[n] \in busy
      BY <1>1, <1>2, <2>3 DEF BusyInv
    <3>2. ASSUME x \in Terminal, sid[m] = sid[n]
          PROVE  FALSE
      <4>1. n # m
        BY <1>2, <2>3, <3>2
      <4>2. step[m] \notin Running
        BY <3>1, <3>2, <4>1 DEF OneRun
      <4>3. sid[m] < created
        BY <4>2 DEF BusyInv
      <4> QED
        BY <2>3, <3>2, <4>3 DEF TypeInv, Typed
    <3> QED
      BY <1>2, <3>1, <3>2
  <2> QED
    BY <2>1, <2>2, <2>3
<1> QED
  BY <1>4, <1>5, <1>6

LEMMA RunSteps ==
  ASSUME SessionInv, TypeInv', NEW m \in Message,
         Dispatch(m) \/ Work(m) \/ Unwound(m)
  PROVE  SessionInv'
<1>1. PICK x \in {"model", "reported", "aborted", "failed", "cancelled"} :
        /\ step' = [step EXCEPT ![m] = x]
        /\ step[m] \in {"dispatch", "model", "unwinding"}
        /\ x = "model" => step[m] = "dispatch" /\ busy' = busy
        /\ x # "model" => busy' = busy \ {sid[m]}
        /\ UNCHANGED <<created, sid, old, queue, entries>>
  BY DEF Dispatch, Work, Unwound, EndRun, Fail, Return, Goto
<1>2. /\ x \in Steps /\ (x # "model" => x \in Terminal)
      /\ "model" \in Running /\ "dispatch" \in Running
      /\ step[m] \in Running \cup {"unwinding"}
  BY <1>1 DEF Steps, Terminal, Results, Losses, Running
<1> QED
  BY <1>1, <1>2, RunKeeps

LEMMA SessionStep ==
  ASSUME SessionInv, [Next]_vars
  PROVE  SessionInv'
<1>0. TypeInv'
  BY TypeStep DEF SessionInv
<1>1. ASSUME NEW m \in Message, Handle(m) \/ \E k \in Kinds[m] : Arrive(m, k)
      PROVE  SessionInv'
  BY <1>0, <1>1, QuietSteps, QuietKeeps, CleanKeeps, EnqueueKeeps DEF Handle, SessionInv
<1>2. ASSUME NEW m \in Message, Run(m)
      PROVE  SessionInv'
  BY <1>0, <1>2, StartKeeps, RunSteps DEF Run
<1>3. ASSUME UNCHANGED <<created, step, sid, old, queue, entries, busy>>
      PROVE  SessionInv'
  BY <1>0, <1>3 DEF SessionInv, QueueInv, Holds, OneRun, BusyInv
<1>4. UNCHANGED vars \/ (\E s \in Session : GrowOld(s)) =>
        UNCHANGED <<created, step, sid, old, queue, entries, busy>>
  BY DEF vars, GrowOld, handlers, registry
<1> QED
  BY <1>1, <1>2, <1>3, <1>4 DEF Next

LEMMA Invariant == Spec => []SessionInv
<1>1. Init => SessionInv
  BY InitInv
<1>2. SessionInv /\ [Next]_vars => SessionInv'
  BY SessionStep
<1> QED
  BY <1>1, <1>2, PTL DEF Spec

\* Every variable keeps its type, and whatever is in a queue has a consumer.
THEOREM TypeCorrect == Spec => []TypeOK
<1>1. SessionInv => TypeOK
  <2> SUFFICES ASSUME SessionInv, NEW s \in Session, queue[s] # <<>>
               PROVE  s \in consumers
    BY FeishuAssumption DEF SessionInv, TypeInv, Typed, TypeOK
  <2>1. queue[s] \in Seq(Message) /\ Len(queue[s]) > 0
    BY SeqFacts DEF SessionInv, TypeInv, Typed
  <2>2. 1 \in 1 .. Len(queue[s])
    BY <2>1
  <2>3. s \in entries
    BY <2>2 DEF SessionInv, QueueInv
  <2> QED
    BY <2>3 DEF SessionInv, TypeInv, Typed
<1> QED
  BY <1>1, Invariant, PTL

\* A run of the current session shows in its busy flag, so that the idle guard
\* refuses /new, however late the consumers of sessions that were left unwind.
THEOREM GuardIsRight == Spec => []GuardSeesRun
<1>1. SessionInv => GuardSeesRun
  BY DEF SessionInv, TypeInv, Typed, BusyInv, GuardSeesRun, InHand
<1> QED
  BY <1>1, Invariant, PTL

\* Whatever waits has a consumer, and whatever runs is guarded.
THEOREM SessionsServed == Spec => []SessionsAreServed
<1>1. TypeOK /\ GuardSeesRun => SessionsAreServed
  BY DEF SessionsAreServed
<1> QED
  BY <1>1, TypeCorrect, GuardIsRight, PTL

(***************************************************************************)
(* /stop                                                                   *)
(***************************************************************************)
\* A /stop that was heeded and a run that was aborted stay so.
LEMMA SettledStays ==
  ASSUME SessionInv, [Next]_vars, NEW n \in Message, step[n] \in {"stopped", "aborted"}
  PROVE  step'[n] = step[n] /\ sid'[n] = sid[n]
<1>0. step \in [Message -> Steps] /\ sid \in [Message -> 0 .. created]
  BY DEF SessionInv, TypeInv, Typed
<1>1. ASSUME NEW m \in Message, Clean(m)
      PROVE  step'[n] = step[n] /\ sid'[n] = sid[n]
  BY <1>0, <1>1 DEF Clean, CleanUp, Casualties, Running
<1>2. ASSUME NEW m \in Message,
             \/ Resolve(m) \/ Create(m) \/ Check(m) \/ Rotate(m) \/ Swap(m) \/ Enqueue(m)
             \/ Stop(m) \/ NewCommand(m) \/ Follow(m) \/ \E k \in Kinds[m] : Arrive(m, k)
      PROVE  step'[n] = step[n] /\ sid'[n] = sid[n]
  BY <1>0, <1>2
     DEF Resolve, Create, Check, Rotate, Swap, Enqueue, Stop, NewCommand, Follow, Arrive, Goto, Acts
<1>3. ASSUME NEW m \in Message, Run(m)
      PROVE  step'[n] = step[n] /\ sid'[n] = sid[n]
  BY <1>0, <1>3 DEF Run, Start, Dispatch, Work, Unwound, EndRun, Fail, Return, Goto
<1>4. ASSUME UNCHANGED vars \/ \E s \in Session : GrowOld(s)
      PROVE  step'[n] = step[n] /\ sid'[n] = sid[n]
  BY <1>4 DEF vars, GrowOld, handlers
<1> QED
  BY <1>1, <1>2, <1>3, <1>4 DEF Next, Handle

\* An abort event is set by a heeded /stop only; a rotation clears it.
LEMMA AbortSet ==
  ASSUME SessionInv, [Next]_vars, NEW s \in Session, rc'[s].abort, ~rc[s].abort
  PROVE  \E n \in Message : step'[n] = "stopped" /\ sid'[n] = s
<1>0. /\ step \in [Message -> Steps]
      /\ rc \in [Session -> [active : BOOLEAN, abort : BOOLEAN]]
  BY DEF SessionInv, TypeInv, Typed
<1>1. ASSUME NEW m \in Message, Stop(m)
      PROVE  step'[m] = "stopped" /\ sid'[m] = s
  <2>1. sid[m] # s => rc'[s] = rc[s]
    BY <1>0, <1>1 DEF Stop
  <2>2. rc' # rc => step'[m] = "stopped"
    BY <1>0, <1>1 DEF Stop, Goto
  <2> QED
    BY <1>1, <2>1, <2>2 DEF Stop
<1>2. ASSUME NEW m \in Message, Clean(m)
      PROVE  FALSE
  BY <1>0, <1>2 DEF Clean, CleanUp, NewControl
<1>3. ASSUME NEW m \in Message, Run(m)
      PROVE  FALSE
  <2>1. \/ rc' = rc
        \/ rc' = [rc EXCEPT ![sid[m]].active = TRUE]
        \/ rc' = [rc EXCEPT ![sid[m]].active = FALSE]
    BY <1>3 DEF Run, Start, Dispatch, Work, Unwound, EndRun, Fail
  <2> QED
    BY <1>0, <2>1
<1>4. ASSUME NEW m \in Message,
             \/ Resolve(m) \/ Create(m) \/ Check(m) \/ Rotate(m) \/ Swap(m) \/ Enqueue(m)
             \/ NewCommand(m) \/ Follow(m) \/ \E k \in Kinds[m] : Arrive(m, k)
      PROVE  FALSE
  BY <1>4
     DEF Resolve, Create, Check, Rotate, Swap, Enqueue, NewCommand, Follow, Arrive, registry
<1>5. ASSUME UNCHANGED vars \/ \E t \in Session : GrowOld(t)
      PROVE  FALSE
  BY <1>5 DEF vars, GrowOld, registry
<1> QED
  BY <1>1, <1>2, <1>3, <1>4, <1>5 DEF Next, Handle

\* Only a run that finds its session's abort event set is aborted.
LEMMA AbortSeen ==
  ASSUME SessionInv, [Next]_vars, NEW n \in Message, step'[n] = "aborted", step[n] # "aborted"
  PROVE  sid[n] \in Session /\ rc[sid[n]].abort /\ sid'[n] = sid[n]
<1>0. step \in [Message -> Steps] /\ sid[n] \in 0 .. created
  BY DEF SessionInv, TypeInv, Typed
<1>1. ASSUME NEW m \in Message, Clean(m)
      PROVE  FALSE
  BY <1>0, <1>1 DEF Clean, CleanUp, Cancelled
<1>2. ASSUME NEW m \in Message,
             \/ Resolve(m) \/ Create(m) \/ Check(m) \/ Rotate(m) \/ Swap(m) \/ Enqueue(m)
             \/ Stop(m) \/ NewCommand(m) \/ Follow(m) \/ \E k \in Kinds[m] : Arrive(m, k)
      PROVE  FALSE
  BY <1>0, <1>2
     DEF Resolve, Create, Check, Rotate, Swap, Enqueue, Stop, NewCommand, Follow, Arrive, Goto
<1>3. ASSUME NEW m \in Message, Run(m)
      PROVE  sid[n] \in Session /\ rc[sid[n]].abort /\ sid'[n] = sid[n]
  <2>1. \/ Start(m)
        \/ Unwound(m)
        \/ Fail(m)
        \/ Goto(m, "model")
        \/ EndRun(m, "reported")
        \/ rc[sid[m]].abort /\ EndRun(m, "aborted") /\ step[m] \in {"dispatch", "model"}
    BY <1>3 DEF Run, Dispatch, Work
  <2>2. /\ n = m /\ rc[sid[m]].abort /\ step[m] \in {"dispatch", "model"}
        /\ UNCHANGED sid
    BY <1>0, <2>1 DEF Start, Unwound, Fail, EndRun, Return, Goto
  <2> QED
    BY <2>2 DEF SessionInv, TypeInv, HasSession, Sessionless
<1>4. ASSUME UNCHANGED vars \/ \E s \in Session : GrowOld(s)
      PROVE  FALSE
  BY <1>4 DEF vars, GrowOld, handlers
<1> QED
  BY <1>1, <1>2, <1>3, <1>4 DEF Next, Handle

LEMMA StopStep ==
  ASSUME SessionInv, StopInv, [Next]_vars
  PROVE  StopInv'
<1>1. ASSUME NEW s \in Session, rc[s].abort
      PROVE  \E n \in Message : step'[n] = "stopped" /\ sid'[n] = s
  <2>1. PICK n \in Message : step[n] = "stopped" /\ sid[n] = s
    BY <1>1 DEF StopInv
  <2> QED
    BY <2>1, SettledStays
<1>2. ASSUME NEW s \in Session, rc'[s].abort
      PROVE  \E n \in Message : step'[n] = "stopped" /\ sid'[n] = s
  BY <1>1, <1>2, AbortSet
<1>3. ASSUME NEW m \in Message, step'[m] = "aborted"
      PROVE  \E n \in Message : step'[n] = "stopped" /\ sid'[n] = sid'[m]
  <2>1. CASE step[m] = "aborted"
    <3>1. PICK n \in Message : step[n] = "stopped" /\ sid[n] = sid[m]
      BY <2>1 DEF StopInv, StopStaysInSession
    <3> QED
      BY <2>1, <3>1, SettledStays
  <2>2. CASE step[m] # "aborted"
    BY <1>1, <1>3, <2>2, AbortSeen
  <2> QED
    BY <2>1, <2>2
<1> QED
  BY <1>2, <1>3 DEF StopInv, StopStaysInSession

\* A run is aborted only in a session where a /stop was heeded: the abort event
\* of a session that was rotated away never reaches the runs of the next one.
THEOREM StopStays == Spec => []StopStaysInSession
<1>1. Init => SessionInv /\ StopInv
  BY InitInv
<1>2. (SessionInv /\ StopInv) /\ [Next]_vars => (SessionInv /\ StopInv)'
  BY SessionStep, StopStep
<1>3. StopInv => StopStaysInSession
  BY DEF StopInv
<1> QED
  BY <1>1, <1>2, <1>3, PTL DEF Spec

(***************************************************************************)
(* Refinement                                                              *)
(***************************************************************************)
\* The messages a session has accepted and not settled, first the one in hand.
Line(s) == IF InHand(s) = {} THEN queue[s]
           ELSE <<CHOOSE m \in InHand(s) : TRUE>> \o queue[s]
Lines   == [s \in Session |-> Line(s)]
Over    == {m \in Message : step[m] \in Results \cup Losses \cup {"unwinding"}}

LEMMA LineFacts ==
  ASSUME NEW S, NEW q \in Seq(S), NEW x \in S
  PROVE  /\ <<x>> \o q \in Seq(S)
         /\ Head(<<x>> \o q) = x
         /\ Tail(<<x>> \o q) = q
         /\ <<x>> \o q # <<>>
         /\ DOMAIN (<<x>> \o q) = 1 .. Len(q) + 1
         /\ (<<x>> \o q)[1] = x
         /\ \A i \in 1 .. Len(q) : (<<x>> \o q)[i + 1] = q[i]
         /\ \A y \in S : Append(<<x>> \o q, y) = <<x>> \o Append(q, y)
<1>1. <<x>> \o q \in Seq(S) /\ Len(<<x>> \o q) = Len(q) + 1
  OBVIOUS
<1>2. Head(<<x>> \o q) = x
  OBVIOUS
<1>3. Tail(<<x>> \o q) = q
  OBVIOUS
<1>4. \A y \in S : Append(<<x>> \o q, y) = <<x>> \o Append(q, y)
  OBVIOUS
<1>5. (<<x>> \o q)[1] = x /\ \A i \in 1 .. Len(q) : (<<x>> \o q)[i + 1] = q[i]
  OBVIOUS
<1>6. DOMAIN (<<x>> \o q) = 1 .. Len(q) + 1 /\ <<x>> \o q # <<>>
  BY <1>1
<1> QED
  BY <1>1, <1>2, <1>3, <1>4, <1>5, <1>6

LEMMA SplitQueue ==
  ASSUME NEW S, NEW q \in Seq(S), Len(q) > 0
  PROVE  q = <<Head(q)>> \o Tail(q)
OBVIOUS

\* The line of a session whose run is known.
LEMMA BusyLine ==
  ASSUME SessionInv, NEW m \in Message, step[m] \in Running
  PROVE  InHand(sid[m]) = {m} /\ Line(sid[m]) = <<m>> \o queue[sid[m]]
<1>1. InHand(sid[m]) = {m}
  BY DEF InHand, SessionInv, OneRun
<1> QED
  BY <1>1 DEF Line

\* The members of a line are the session's accepted messages.
LEMMA LineMembers ==
  ASSUME SessionInv, NEW s \in Session
  PROVE  Sessions!Pending(s) = Casualties(s)
<1>0. /\ Sessions!Pending(s) = {Lines[s][i] : i \in DOMAIN Lines[s]}
      /\ Lines[s] = Line(s)
  BY DEF Sessions!Pending, Lines, Line
<1>1. queue[s] \in Seq(Message)
  BY DEF SessionInv, TypeInv, Typed
<1>2. \A i \in 1 .. Len(queue[s]) : queue[s][i] \in Casualties(s)
  BY <1>1 DEF SessionInv, QueueInv, Casualties
<1>3. \A m \in Casualties(s) : m \notin InHand(s) => \E i \in 1 .. Len(queue[s]) : queue[s][i] = m
  BY DEF SessionInv, QueueInv, Holds, Casualties, InHand
<1>4. CASE InHand(s) = {}
  <2>1. Line(s) = queue[s] /\ DOMAIN queue[s] = 1 .. Len(queue[s])
    BY <1>1, <1>4 DEF Line
  <2>2. {queue[s][i] : i \in 1 .. Len(queue[s])} = Casualties(s)
    BY <1>2, <1>3, <1>4
  <2> QED
    BY <1>0, <2>1, <2>2
<1>5. CASE InHand(s) # {}
  <2>1. PICK m \in Message : step[m] \in Running /\ sid[m] = s
    BY <1>5 DEF InHand
  <2> DEFINE q == <<m>> \o queue[s]
  <2>2. Line(s) = q /\ InHand(s) = {m}
    BY <2>1, BusyLine
  <2>3. /\ DOMAIN q = 1 .. Len(queue[s]) + 1 /\ Len(queue[s]) \in Nat
        /\ q[1] = m
        /\ \A i \in 1 .. Len(queue[s]) : q[i + 1] = queue[s][i]
    BY <1>1, LineFacts
  <2> HIDE DEF q
  <2>4. m \in Casualties(s)
    BY <2>1 DEF Casualties
  <2>5. \A i \in DOMAIN q : q[i] \in Casualties(s)
    <3> SUFFICES ASSUME NEW i \in DOMAIN q PROVE q[i] \in Casualties(s)
      OBVIOUS
    <3>1. CASE i = 1
      BY <2>3, <2>4, <3>1
    <3>2. CASE i # 1
      <4>1. i - 1 \in 1 .. Len(queue[s]) /\ (i - 1) + 1 = i
        BY <2>3, <3>2
      <4>2. q[i] = queue[s][i - 1]
        BY <2>3, <4>1
      <4> QED
        BY <1>2, <4>1, <4>2
    <3> QED
      BY <3>1, <3>2
  <2>6. \A n \in Casualties(s) : \E i \in DOMAIN q : q[i] = n
    <3> SUFFICES ASSUME NEW n \in Casualties(s) PROVE \E i \in DOMAIN q : q[i] = n
      OBVIOUS
    <3>1. CASE n = m
      BY <2>3, <3>1
    <3>2. CASE n # m
      <4>1. PICK i \in 1 .. Len(queue[s]) : queue[s][i] = n
        BY <1>3, <2>2, <3>2
      <4>2. i + 1 \in DOMAIN q /\ q[i + 1] = n
        BY <2>3, <4>1
      <4> QED
        BY <4>2
    <3> QED
      BY <3>1, <3>2
  <2>7. {q[i] : i \in DOMAIN q} = Casualties(s)
    BY <2>5, <2>6
  <2> QED
    BY <1>0, <2>2, <2>7
<1> QED
  BY <1>4, <1>5

LEMMA RefineInit == Init => Sessions!Init
<1> SUFFICES ASSUME Init PROVE Sessions!Init
  OBVIOUS
<1>1. \A s \in Session : InHand(s) = {} /\ queue[s] = <<>>
  BY DEF Init, InHand, Running
<1>2. Over = {} /\ 1 .. created = {}
  BY DEF Init, Over, Results, Losses
<1>3. [s \in Session |-> Line(s)] = [s \in Session |-> <<>>]
  BY <1>1 DEF Line
<1> QED
  BY <1>2, <1>3 DEF Sessions!Init, Init, Over, Line

\* What the abstract state is made of.
SameLines == UNCHANGED <<Lines, Over>>

LEMMA Stutter ==
  ASSUME UNCHANGED <<current, created, Lines, Over>>
  PROVE  UNCHANGED Sessions!vars
BY DEF Sessions!vars, Lines, Line, Over

LEMMA SameLine ==
  ASSUME NEW s \in Session, InHand(s)' = InHand(s), queue'[s] = queue[s]
  PROVE  Line(s)' = Line(s)
<1>1. (CHOOSE m \in InHand(s)' : TRUE) = CHOOSE m \in InHand(s) : TRUE
  BY Zenon
<1> QED
  BY <1>1 DEF Line

LEMMA QuietLines ==
  ASSUME SessionInv, NEW m \in Message, Quiet(m)
  PROVE  SameLines
<1>1. /\ \A n \in Message : n # m => step'[n] = step[n] /\ sid'[n] = sid[n]
      /\ step[m] \notin Running /\ step'[m] \notin Running
      /\ step[m] \notin Results \cup Losses \cup {"unwinding"}
      /\ step'[m] \notin Results \cup Losses \cup {"unwinding"}
      /\ queue' = queue
  BY DEF Quiet, Apart, Handling, Replies, Running, Results, Losses, SessionInv, TypeInv, Typed
<1>2. \A s \in Session : InHand(s)' = InHand(s)
  BY <1>1 DEF InHand
<1>3. Lines' = Lines
  BY <1>1, <1>2, SameLine DEF Lines
<1>4. Over' = Over
  BY <1>1 DEF Over
<1> QED
  BY <1>3, <1>4 DEF SameLines

\* Of the handlers' quiet steps, those that open a session.
LEMMA RefineQuiet ==
  ASSUME SessionInv, NEW m \in Message,
         \/ Resolve(m) \/ Create(m) \/ Check(m) \/ Rotate(m) \/ Swap(m)
         \/ Stop(m) \/ NewCommand(m) \/ Follow(m)
         \/ \E k \in Kinds[m] : Arrive(m, k)
  PROVE  [Sessions!Next]_(Sessions!vars)
<1>1. SameLines
  BY QuietSteps, QuietLines DEF SessionInv
<1>2. CASE Create(m) \/ Swap(m)
  <2>1. created \in Nat /\ created' = created + 1 /\ current' = created + 1
        /\ created + 1 \in Session
    BY <1>2, FeishuAssumption DEF Create, Swap, Open, Session, SessionInv, TypeInv, Typed
  <2>2. 1 .. created' = 1 .. created \cup {created + 1} /\ created + 1 \notin 1 .. created
    BY <2>1
  <2>3. Sessions!Open(created + 1)
    BY <1>1, <2>1, <2>2 DEF Sessions!Open, SameLines, Lines, Line, Over
  <2> QED
    BY <2>1, <2>3 DEF Sessions!Next
<1>3. CASE ~(Create(m) \/ Swap(m))
  <2>1. UNCHANGED <<current, created>>
    BY <1>3 DEF Resolve, Check, Rotate, Stop, NewCommand, Follow, Arrive
  <2> QED
    BY <1>1, <2>1, Stutter DEF SameLines
<1> QED
  BY <1>2, <1>3

LEMMA RefineEnqueue ==
  ASSUME SessionInv, NEW m \in Message, Enqueue(m)
  PROVE  [Sessions!Next]_(Sessions!vars)
<1>0. sid[m] \in Session /\ sid[m] \in 1 .. created
  <2>1. sid[m] \in Session /\ sid[m] \in 0 .. created
    BY DEF Enqueue, Acts, SessionInv, TypeInv, Typed, HasSession, Sessionless
  <2> QED
    BY <2>1, FeishuAssumption DEF Session, SessionInv, TypeInv, Typed
<1> PICK s \in Session : s = sid[m]
  BY <1>0
<1>1. /\ step[m] \in {"act", "check"}
      /\ step' = [step EXCEPT ![m] = "queued"]
      /\ s \in 1 .. created
      /\ queue' = [queue EXCEPT ![s] = Append(@, m)]
      /\ UNCHANGED <<sid, created, current>>
  BY <1>0 DEF Enqueue, Acts, Goto
<1>2. /\ queue \in [Session -> Seq(Message)] /\ step \in [Message -> Steps]
      /\ queue[s] \in Seq(Message)
  BY <1>1 DEF SessionInv, TypeInv, Typed
<1>3. \A t \in Session : InHand(t)' = InHand(t)
  BY <1>1, <1>2 DEF InHand, Running
<1>4. \A t \in Session : t # s => Line(t)' = Line(t)
  BY <1>1, <1>2, <1>3, SameLine
<1>5. Line(s)' = Append(Line(s), m)
  <2>1. queue'[s] = Append(queue[s], m)
    BY <1>1, <1>2
  <2>2. CASE InHand(s) = {}
    BY <1>1, <1>3, <2>1, <2>2 DEF Line
  <2>3. CASE InHand(s) # {}
    <3> DEFINE r == CHOOSE n \in InHand(s) : TRUE
    <3>1. r \in Message
      BY <2>3 DEF InHand
    <3>2. Line(s) = <<r>> \o queue[s]
      BY <2>3 DEF Line
    <3>3. (CHOOSE n \in InHand(s)' : TRUE) = r
      BY <1>1, <1>3, Zenon
    <3>4. Line(s)' = <<r>> \o Append(queue[s], m)
      BY <1>1, <1>3, <2>1, <2>3, <3>3 DEF Line
    <3> QED
      <4>1. ASSUME NEW x \in Message
            PROVE  Append(<<x>> \o queue[s], m) = <<x>> \o Append(queue[s], m)
        <5>1. queue[s] \in Seq(Message)
          BY <1>2
        <5> QED
          BY <5>1
      <4> HIDE DEF r
      <4> QED
        BY <3>1, <3>2, <3>4, <4>1
  <2> QED
    BY <2>2, <2>3
<1>6. Lines' = [Lines EXCEPT ![s] = Append(@, m)]
  BY <1>1, <1>4, <1>5 DEF Lines
<1>7. Over' = Over /\ m \notin Over
  BY <1>1, <1>2 DEF Over, Results, Losses
<1>8. \A t \in Session : m \notin Sessions!Pending(t)
  BY <1>1, LineMembers DEF Casualties, Running
<1>9. Sessions!Accept(s, m)
  BY <1>1, <1>6, <1>7, <1>8 DEF Sessions!Accept, Lines, Line, Over
<1> QED
  BY <1>1, <1>9 DEF Sessions!Next

LEMMA RefineStart ==
  ASSUME SessionInv, NEW m \in Message, Start(m)
  PROVE  UNCHANGED Sessions!vars
<1> PICK s \in Session : s = sid[m]
  BY QueueOfQueued DEF Start, SessionInv
<1>1. /\ step[m] = "queued"
      /\ InHand(s) = {}
      /\ Head(queue[s]) = m
      /\ step' = [step EXCEPT ![m] = "dispatch"]
      /\ queue' = [queue EXCEPT ![s] = Tail(@)]
      /\ UNCHANGED <<sid, created, current>>
  BY DEF Start, Goto
<1>2. /\ queue[s] \in Seq(Message) /\ Len(queue[s]) > 0
      /\ queue \in [Session -> Seq(Message)] /\ step \in [Message -> Steps]
  BY <1>1, QueueOfQueued DEF SessionInv, TypeInv, Typed
<1>3. \A t \in Session : t # s => InHand(t)' = InHand(t) /\ queue'[t] = queue[t]
  BY <1>1, <1>2 DEF InHand, Running
<1>4. InHand(s)' = {m}
  BY <1>1, <1>2 DEF InHand, Running
<1>5. Line(s)' = Line(s)
  <2>1. Line(s) = queue[s]
    BY <1>1 DEF Line
  <2>2. queue'[s] = Tail(queue[s])
    BY <1>1, <1>2
  <2>3. Line(s)' = <<m>> \o queue'[s]
    BY <1>1, <1>4 DEF Line
  <2> QED
    BY <1>1, <1>2, <2>1, <2>2, <2>3, SplitQueue
<1>6. Lines' = Lines
  <2>1. \A t \in Session : Line(t)' = Line(t)
    BY <1>3, <1>5, SameLine
  <2> QED
    BY <2>1 DEF Lines
<1>7. Over' = Over
  BY <1>1, <1>2 DEF Over, Results, Losses
<1> QED
  BY <1>1, <1>6, <1>7, Stutter

\* A run that goes on, and a cancelled one that has unwound.
LEMMA RefineGoOn ==
  ASSUME SessionInv, NEW m \in Message, NEW x \in Steps,
         step' = [step EXCEPT ![m] = x],
         UNCHANGED <<current, created, sid, queue>>,
         \/ step[m] \in Running /\ x \in Running
         \/ step[m] = "unwinding" /\ x = "cancelled"
  PROVE  UNCHANGED Sessions!vars
<1>1. step \in [Message -> Steps]
  BY DEF SessionInv, TypeInv, Typed
<1>2. \A s \in Session : InHand(s)' = InHand(s)
  BY <1>1 DEF InHand, Running
<1>3. Lines' = Lines
  BY <1>2, SameLine DEF Lines
<1>4. Over' = Over
  BY <1>1 DEF Over, Results, Losses, Running
<1> QED
  BY <1>3, <1>4, Stutter

LEMMA RefineConclude ==
  ASSUME SessionInv, NEW m \in Message, NEW x \in Results,
         step[m] \in Running,
         step' = [step EXCEPT ![m] = x],
         UNCHANGED <<current, created, sid, queue>>
  PROVE  [Sessions!Next]_(Sessions!vars)
<1> PICK s \in Session : s = sid[m]
  BY DEF SessionInv, TypeInv, HasSession, Sessionless, Running
<1>1. step \in [Message -> Steps] /\ queue[s] \in Seq(Message)
  BY DEF SessionInv, TypeInv, Typed
<1>2. InHand(s) = {m} /\ Line(s) = <<m>> \o queue[s]
  BY BusyLine
<1>3. \A t \in Session : t # s => InHand(t)' = InHand(t)
  BY <1>1 DEF InHand
<1>4. InHand(s)' = {}
  BY <1>1, <1>2 DEF InHand, Running, Results
<1>5. Line(s)' = queue[s]
  BY <1>4 DEF Line
<1>6. Line(s) # <<>> /\ Head(Line(s)) = m /\ Tail(Line(s)) = queue[s]
  <2>1. /\ <<m>> \o queue[s] # <<>>
        /\ Head(<<m>> \o queue[s]) = m
        /\ Tail(<<m>> \o queue[s]) = queue[s]
    BY <1>1, LineFacts
  <2> QED
    BY <1>2, <2>1
<1>7. Lines' = [Lines EXCEPT ![s] = Tail(@)]
  BY <1>1, <1>3, <1>5, <1>6, SameLine DEF Lines
<1>8. Over' = Over \cup {m}
  BY <1>1 DEF Over
<1>9. Lines[s] = Line(s)
  BY <1>1 DEF Lines
<1>10. Sessions!Conclude(s)
  <2>1. /\ Lines[s] # <<>>
        /\ Over' = Over \cup {Head(Lines[s])}
        /\ Lines' = [Lines EXCEPT ![s] = Tail(@)]
        /\ UNCHANGED <<current, 1 .. created>>
    BY <1>6, <1>7, <1>8, <1>9
  <2> QED
    BY <2>1 DEF Sessions!Conclude, Lines, Line, Over
<1> QED
  BY <1>1, <1>10 DEF Sessions!Next

LEMMA RefineClean ==
  ASSUME SessionInv, NEW m \in Message, Clean(m)
  PROVE  [Sessions!Next]_(Sessions!vars)
<1> PICK s \in 0 .. created : s = old[m]
  BY DEF SessionInv, TypeInv, Typed
<1>1. /\ step[m] = "clean"
      /\ \A n \in Message :
           step'[n] = IF n = m THEN IF m \in resetting THEN "act" ELSE "follow"
                      ELSE IF n \in Casualties(s) THEN Cancelled(n) ELSE step[n]
      /\ queue' = [queue EXCEPT ![s] = <<>>]
      /\ UNCHANGED <<sid, created, current>>
  BY DEF Clean, CleanUp
<1>2. queue \in [Session -> Seq(Message)] /\ s < created /\ created = current /\ s \in Nat
      /\ created \in Nat
  BY <1>1, FeishuAssumption DEF SessionInv, TypeInv, Typed, BusyInv
<1>3. \A t \in Session : t # s => InHand(t)' = InHand(t) /\ queue'[t] = queue[t]
  BY <1>1, <1>2 DEF InHand, Running, Casualties, Cancelled
<1>4. \A t \in Session : t # s => Line(t)' = Line(t)
  BY <1>3, SameLine
<1>5. Over' = Over \cup Casualties(s)
  <2>1. m \notin Casualties(s)
    BY <1>1 DEF Casualties, Running
  <2> QED
    BY <1>1, <2>1 DEF Over, Casualties, Cancelled, Running, Results, Losses
<1>6. CASE s \in Session
  <2>1. InHand(s)' = {} /\ queue'[s] = <<>>
    <3>1. \A n \in Message : step'[n] \in Running => sid'[n] # s
      BY <1>1 DEF Running, Casualties, Cancelled
    <3> QED
      BY <1>1, <1>2, <1>6, <3>1 DEF InHand
  <2>2. Line(s)' = <<>>
    BY <2>1 DEF Line
  <2>3. Lines' = [Lines EXCEPT ![s] = <<>>]
    BY <1>4, <1>6, <2>2 DEF Lines
  <2>4. Over' = Over \cup Sessions!Pending(s)
    BY <1>5, <1>6, LineMembers
  <2>5. Sessions!Drop(s)
    BY <1>1, <1>2, <2>3, <2>4 DEF Sessions!Drop, Lines, Line, Over
  <2> QED
    BY <1>6, <2>5 DEF Sessions!Next
<1>7. CASE s \notin Session
  <2>1. Casualties(s) = {}
    BY <1>7 DEF Casualties, Running, SessionInv, TypeInv, HasSession, Sessionless
  <2>2. Lines' = Lines
    BY <1>4, <1>7 DEF Lines
  <2> QED
    BY <1>1, <1>5, <2>1, <2>2, Stutter
<1> QED
  BY <1>6, <1>7

LEMMA RefineRun ==
  ASSUME SessionInv, NEW m \in Message, Run(m)
  PROVE  [Sessions!Next]_(Sessions!vars)
<1>1. CASE Start(m)
  BY <1>1, RefineStart
<1>2. CASE Unwound(m)
  <2>1. /\ step[m] = "unwinding" /\ step' = [step EXCEPT ![m] = "cancelled"]
        /\ UNCHANGED <<current, created, sid, queue>>
        /\ "cancelled" \in Steps
    BY <1>2 DEF Unwound, Return, Goto, Steps, Terminal, Losses
  <2> QED
    BY <2>1, RefineGoOn
<1>3. CASE Dispatch(m) \/ Work(m)
  <2>1. PICK x \in Results \cup {"model"} :
          /\ step' = [step EXCEPT ![m] = x]
          /\ step[m] \in Running
          /\ UNCHANGED <<current, created, sid, queue>>
    BY <1>3 DEF Dispatch, Work, EndRun, Fail, Return, Goto, Results, Running
  <2>2. "model" \in Running /\ "model" \in Steps
    BY DEF Running, Steps
  <2> QED
    BY <2>1, <2>2, RefineGoOn, RefineConclude
<1> QED
  BY <1>1, <1>2, <1>3 DEF Run

\* However handlers, rotations and consumers interleave, the sessions of a key
\* take their messages one by one and in order, and only a session that was left
\* drops any.
THEOREM SessionsRotate == Spec => ImplementsRotatingSessions
<1>1. Init => Sessions!Init
  BY RefineInit
<1>2. SessionInv /\ [Next]_vars => [Sessions!Next]_(Sessions!vars)
  <2> SUFFICES ASSUME SessionInv, [Next]_vars
               PROVE  [Sessions!Next]_(Sessions!vars)
    OBVIOUS
  <2>1. ASSUME NEW m \in Message, Handle(m) \/ Run(m) \/ \E k \in Kinds[m] : Arrive(m, k)
        PROVE  [Sessions!Next]_(Sessions!vars)
    BY <2>1, RefineQuiet, RefineEnqueue, RefineClean, RefineRun DEF Handle
  <2>2. ASSUME UNCHANGED <<current, created, step, sid, queue>>
        PROVE  UNCHANGED Sessions!vars
    <3>1. \A s \in Session : InHand(s)' = InHand(s)
      BY <2>2 DEF InHand
    <3>2. Lines' = Lines
      BY <2>2, <3>1, SameLine DEF Lines
    <3>3. Over' = Over
      BY <2>2 DEF Over
    <3> QED
      BY <2>2, <3>2, <3>3, Stutter
  <2>3. UNCHANGED vars \/ (\E s \in Session : GrowOld(s)) =>
          UNCHANGED <<current, created, step, sid, queue>>
    BY DEF vars, GrowOld, handlers, registry
  <2> QED
    BY <2>1, <2>2, <2>3 DEF Next
<1> QED
  BY <1>1, <1>2, Invariant, PTL DEF Spec, Sessions!Spec, ImplementsRotatingSessions
=============================================================================

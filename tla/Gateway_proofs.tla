--------------------------- MODULE Gateway_proofs ---------------------------
(***************************************************************************)
(* Theorems about Gateway, for any workers, sessions, messages, copies,    *)
(* timing constants and faults: how the copies of a message are judged,    *)
(* whom events are addressed to, and how long a worker that handles a      *)
(* session keeps the session's key.                                        *)
(***************************************************************************)
EXTENDS Gateway, TLAPS

(***************************************************************************)
(* Type correctness                                                        *)
(***************************************************************************)
LEMMA GotoType ==
  ASSUME pc \in [Delivery -> PC], NEW d \in Delivery, NEW step \in PC, Goto(d, step)
  PROVE  pc' \in [Delivery -> PC]
BY DEF Goto

LEMMA KeyType == ASSUME NEW d \in Delivery PROVE Key(d) \in Session
BY GatewayAssumption DEF Key

\* Appending to one of several queues; an index outside them changes nothing.
LEMMA AppendType ==
  ASSUME NEW S, NEW T, NEW f \in [S -> Seq(T)], NEW x, NEW t \in T
  PROVE  [f EXCEPT ![x] = Append(@, t)] \in [S -> Seq(T)]
<1>1. x \in S => Append(f[x], t) \in Seq(T)
  OBVIOUS
<1> QED
  BY <1>1

LEMMA InboxType ==
  ASSUME inbox \in [Worker -> Seq(Delivery)], NEW d \in Delivery, NEW w,
         inbox' = [inbox EXCEPT ![w] = Append(@, d)]
  PROVE  inbox' \in [Worker -> Seq(Delivery)]
<1>1. [inbox EXCEPT ![w] = Append(@, d)] \in [Worker -> Seq(Delivery)]
  BY AppendType
<1> QED
  BY <1>1

LEMMA AtType ==
  ASSUME at \in [Delivery -> Worker \cup {Nobody}], NEW d \in Delivery,
         NEW w \in Worker \cup {Nobody},
         at' = at \/ at' = [at EXCEPT ![d] = w]
  PROVE  at' \in [Delivery -> Worker \cup {Nobody}]
OBVIOUS

LEMMA EndedType ==
  ASSUME unrenewed \in [Session -> Nat], NEW s \in Session,
         unrenewed' = [unrenewed EXCEPT ![s] = @ + 1]
  PROVE  unrenewed' \in [Session -> Nat]
OBVIOUS

LEMMA SeenType ==
  ASSUME seen \in [Worker -> SUBSET Message], NEW m \in Message, NEW w,
         seen' = [seen EXCEPT ![w] = @ \cup {m}]
  PROVE  seen' \in [Worker -> SUBSET Message]
<1>1. w \in Worker => seen[w] \cup {m} \in SUBSET Message
  OBVIOUS
<1> QED
  BY <1>1

LEMMA QueueType ==
  ASSUME queue \in [Worker -> [Session -> Seq(Delivery)]], NEW d \in Delivery,
         NEW w, NEW s \in Session,
         queue' = [queue EXCEPT ![w][s] = Append(@, d)]
  PROVE  queue' \in [Worker -> [Session -> Seq(Delivery)]]
<1>1. w \in Worker => Append(queue[w][s], d) \in Seq(Delivery)
  OBVIOUS
<1>2. w \in Worker =>
        [queue[w] EXCEPT ![s] = Append(@, d)] \in [Session -> Seq(Delivery)]
  BY <1>1
<1> QED
  BY <1>2

LEMMA RefreshType ==
  ASSUME TypeOK, NEW s \in Session, Refresh(s)
  PROVE  /\ affinity' \in [Session -> Worker \cup {Nobody}]
         /\ ttl' \in [Session -> 0..TTL]
         /\ unrenewed' \in [Session -> Nat]
BY GatewayAssumption DEF Refresh, TypeOK

LEMMA SetOwnerType ==
  ASSUME TypeOK, NEW s \in Session, NEW w \in Worker \cup {Nobody}, SetOwner(s, w)
  PROVE  /\ affinity' \in [Session -> Worker \cup {Nobody}]
         /\ ttl' \in [Session -> 0..TTL]
         /\ unrenewed' \in [Session -> Nat]
BY GatewayAssumption DEF SetOwner, TypeOK

\* The worker of a delivery, its owner and every key are workers or Nobody, a
\* renewal never comes due twice, a key never outlives its TTL.
THEOREM TypeCorrect == Spec => []TypeOK
<1> USE GatewayAssumption
<1>1. Init => TypeOK
  BY DEF Init, TypeOK, PC
<1>2. TypeOK /\ [Next]_vars => TypeOK'
  <2> SUFFICES ASSUME TypeOK, [Next]_vars
               PROVE  TypeOK'
    OBVIOUS
  <2> USE DEF TypeOK, PC, RouteCalls, InHandler, Terminal
  <2>1. ASSUME NEW w \in Worker, Boot(w) PROVE TypeOK'
    BY <2>1 DEF Boot, redis, handler
  <2>2. ASSUME NEW w \in Worker, Subscribe(w) PROVE TypeOK'
    BY <2>2 DEF Subscribe, redis, handler
  <2>3. ASSUME NEW w \in Worker, Ready(w) PROVE TypeOK'
    BY <2>3 DEF Ready, redis, handler
  <2>4. ASSUME NEW w \in Worker, Crash(w) PROVE TypeOK'
    <3>1. \/ UNCHANGED subscribed
          \/ subscribed' = [subscribed EXCEPT ![w] = FALSE]
      BY <2>4 DEF Crash
    <3>2. faults' \in 0..MaxFaults
      BY <2>4 DEF Crash, Inject
    <3>3. pc' \in [Delivery -> PC]
      BY <2>4 DEF Crash, Killed
    <3>4. UNCHANGED <<affinity, ttl, unrenewed, marked, redisUp, seen, at, via, gate>>
      BY <2>4 DEF Crash, redis
    <3>5. /\ status' \in [Worker -> {"off", "booting", "up", "dead"}]
          /\ inbox' \in [Worker -> Seq(Delivery)]
          /\ queue' \in [Worker -> [Session -> Seq(Delivery)]]
      BY <2>4 DEF Crash
    <3>6. /\ owner' \in [Delivery -> Worker \cup {Nobody}]
          /\ renewIn' \in [Delivery -> 0..RenewalInterval]
      BY <2>4 DEF Crash
    <3> QED
      BY <3>1, <3>2, <3>3, <3>4, <3>5, <3>6
  <2>5. ASSUME NEW w \in Worker, DropConnection(w) PROVE TypeOK'
    BY <2>5 DEF DropConnection, redis, handler
  <2>6. ASSUME NEW w \in Worker, LoseSubscription(w) PROVE TypeOK'
    BY <2>6 DEF LoseSubscription, Inject, redis
  <2>7. ASSUME NEW w \in Worker, Consume(w) PROVE TypeOK'
    <3> DEFINE d == Head(inbox[w])
    <3>1. d \in Delivery
      BY <2>7 DEF Consume
    <3>2. Goto(d, "resolve") \/ Goto(d, "lost")
      BY <2>7 DEF Consume
    <3>3. pc' \in [Delivery -> PC]
      <4> HIDE DEF d
      <4> QED BY <3>1, <3>2, GotoType
    <3>4. inbox' \in [Worker -> Seq(Delivery)]
      BY <2>7 DEF Consume
    <3>5. UNCHANGED <<redis, faults, status, subscribed, seen, queue,
                      at, via, owner, gate, renewIn>>
      BY <2>7 DEF Consume
    <3> QED
      BY <3>3, <3>4, <3>5 DEF redis
  <2>8. CASE RedisFails
    <3>0. redisUp' \in BOOLEAN
      BY <2>8 DEF RedisFails
    <3>1. faults' \in 0..MaxFaults
      BY <2>8 DEF RedisFails, Inject
    <3>2. UNCHANGED <<affinity, ttl, unrenewed, marked, process, handler>>
      BY <2>8 DEF RedisFails
    <3> QED
      BY <3>0, <3>1, <3>2 DEF process, handler
  <2>9. CASE RedisRecovers
    BY <2>9 DEF RedisRecovers, process, handler
  <2>10. ASSUME NEW d \in Delivery, NEW w \in Worker, Arrive(d, w) PROVE TypeOK'
    BY <2>10 DEF Arrive, Goto, redis, process
  <2>11. ASSUME NEW d \in Delivery, HandlerStep(d) PROVE TypeOK'
    <3>0. Key(d) \in Session
      BY KeyType
    <3>1. CASE Resolve(d) \/ ReResolve(d)
      <4>1. \/ Goto(d, "renew") \/ Goto(d, "claim")
            \/ Goto(d, "dedup") \/ Goto(d, "forward")
        BY <3>1 DEF Resolve, ReResolve, ForwardTo
      <4>2. pc' \in [Delivery -> PC]
        BY <4>1, GotoType
      <4>3. owner' = owner \/ owner' = [owner EXCEPT ![d] = affinity[Key(d)]]
        BY <3>1 DEF Resolve, ReResolve, ForwardTo
      <4>4. owner' \in [Delivery -> Worker \cup {Nobody}]
        BY <3>0, <4>3
      <4>5. UNCHANGED <<redis, faults, process, at, via, gate, renewIn>>
        BY <3>1 DEF Resolve, ReResolve
      <4> QED
        BY <4>2, <4>4, <4>5 DEF redis, process
    <3>2. CASE Renew(d)
      BY <3>0, <3>2 DEF Renew, Refresh, Goto, process
    <3>3. CASE Claim(d)
      <4>1. \/ SetOwner(Key(d), at[d]) /\ Goto(d, "dedup")
            \/ Goto(d, "reresolve") /\ UNCHANGED <<affinity, ttl, unrenewed>>
        BY <3>3 DEF Claim
      <4>2. pc' \in [Delivery -> PC]
        BY <4>1, GotoType
      <4>3. /\ affinity' \in [Session -> Worker \cup {Nobody}]
            /\ ttl' \in [Session -> 0..TTL]
            /\ unrenewed' \in [Session -> Nat]
        BY <3>0, <4>1, SetOwnerType
      <4>4. UNCHANGED <<marked, redisUp, faults, process, at, via, owner, gate, renewIn>>
        BY <3>3 DEF Claim
      <4> QED
        BY <4>2, <4>3, <4>4 DEF process
    <3>5. CASE Forward(d)
      <4>1. \/ Goto(d, "inbox") \/ Goto(d, "lost") \/ Goto(d, "force")
        BY <3>5 DEF Forward, Publish
      <4>2. pc' \in [Delivery -> PC]
        BY <4>1, GotoType
      <4>3. \/ UNCHANGED <<inbox, at, via>>
            \/ /\ inbox' = [inbox EXCEPT ![owner[d]] = Append(@, d)]
               /\ at' = [at EXCEPT ![d] = owner[d]]
               /\ via' = [via EXCEPT ![d] = "forward"]
        BY <3>5 DEF Forward, Publish
      <4>4. inbox' \in [Worker -> Seq(Delivery)]
        <5>1. CASE UNCHANGED inbox
          BY <5>1
        <5>2. CASE inbox' = [inbox EXCEPT ![owner[d]] = Append(@, d)]
          BY <5>2, InboxType
        <5> QED
          BY <4>3, <5>1, <5>2
      <4>4a. at' \in [Delivery -> Worker \cup {Nobody}]
        <5>1. owner[d] \in Worker \cup {Nobody} /\ at \in [Delivery -> Worker \cup {Nobody}]
          OBVIOUS
        <5> QED
          BY <4>3, <5>1, AtType
      <4>4b. via' \in [Delivery -> {"socket", "forward"}]
        BY <4>3
      <4>5. owner' \in [Delivery -> Worker \cup {Nobody}]
        BY <3>5 DEF Forward, Forget
      <4>6. UNCHANGED <<redis, faults, status, subscribed, seen, queue, gate, renewIn>>
        BY <3>5 DEF Forward
      <4> QED
        BY <4>2, <4>4, <4>4a, <4>4b, <4>5, <4>6 DEF redis
    <3>6. CASE ForceClaim(d)
      BY <3>0, <3>6 DEF ForceClaim, SetOwner, Goto, process
    <3>7. CASE RouteError(d)
      <4>1. Goto(d, "dedup") \/ Goto(d, "unrouted")
        BY <3>7 DEF RouteError, Outcome
      <4>2. pc' \in [Delivery -> PC]
        BY <4>1, GotoType
      <4>3. \/ UNCHANGED <<affinity, ttl, unrenewed>>
            \/ Refresh(Key(d))
            \/ SetOwner(Key(d), at[d])
        BY <3>7 DEF RouteError
      <4>4. /\ affinity' \in [Session -> Worker \cup {Nobody}]
            /\ ttl' \in [Session -> 0..TTL]
            /\ unrenewed' \in [Session -> Nat]
        BY <3>0, <4>3, SetOwnerType, RefreshType
      <4>5. owner' \in [Delivery -> Worker \cup {Nobody}]
        BY <3>7 DEF RouteError, Forget
      <4>6. UNCHANGED <<marked, redisUp, faults, process, at, via, gate, renewIn>>
        BY <3>7 DEF RouteError
      <4> QED
        BY <4>2, <4>4, <4>5, <4>6 DEF process
    <3>8. CASE Dedup(d) \/ DedupFallback(d)
      <4>1. Goto(d, "prepare") \/ Goto(d, "duplicate")
        BY <3>8 DEF Dedup, DedupFallback, Pass, Reject
      <4>2. pc' \in [Delivery -> PC]
        BY <4>1, GotoType
      <4>3. \/ UNCHANGED gate
            \/ gate' = [gate EXCEPT ![d] = "redis"]
            \/ gate' = [gate EXCEPT ![d] = "memory"]
        BY <3>8 DEF Dedup, DedupFallback, Pass, Reject
      <4>4. gate' \in [Delivery -> {"none", "redis", "memory"}]
        BY <4>3
      <4>5. marked' = marked \/ marked' = marked \cup {MessageOf[d]}
        BY <3>8 DEF Dedup, DedupFallback
      <4>6. marked' \subseteq Message
        BY <4>5
      <4>7. \/ UNCHANGED seen
            \/ seen' = [seen EXCEPT ![at[d]] = @ \cup {MessageOf[d]}]
        BY <3>8 DEF Dedup, DedupFallback, process
      <4>8. seen' \in [Worker -> SUBSET Message]
        <5>1. CASE UNCHANGED seen
          BY <5>1
        <5>2. CASE seen' = [seen EXCEPT ![at[d]] = @ \cup {MessageOf[d]}]
          BY <5>2, SeenType
        <5> QED
          BY <4>7, <5>1, <5>2
      <4>9. UNCHANGED <<affinity, ttl, unrenewed, redisUp, faults, status, subscribed, inbox,
                        queue, at, via, owner, renewIn>>
        BY <3>8 DEF Dedup, DedupFallback, process
      <4> QED
        BY <4>2, <4>4, <4>6, <4>8, <4>9
    <3>10. CASE Enqueue(d)
      <4>1. pc' \in [Delivery -> PC]
        BY <3>10, GotoType DEF Enqueue
      <4>2. queue' \in [Worker -> [Session -> Seq(Delivery)]]
        <5>1. queue' = [queue EXCEPT ![at[d]][Key(d)] = Append(@, d)]
          BY <3>10 DEF Enqueue
        <5> QED
          BY <3>0, <5>1, QueueType
      <4>3. UNCHANGED <<redis, faults, status, subscribed, inbox, seen,
                        at, via, owner, gate, renewIn>>
        BY <3>10 DEF Enqueue
      <4> QED
        BY <4>1, <4>2, <4>3 DEF redis
    <3>11. CASE PrepareError(d)
      BY <3>11 DEF PrepareError, Goto, redis, process
    <3>12. ASSUME NEW e \in Delivery, PublishReplyLost(d, e) PROVE TypeOK'
      <4>1. PICK step \in {"dedup", "unrouted"} :
                 pc' = [pc EXCEPT ![d] = step, ![e] = "inbox"]
        BY <3>12 DEF PublishReplyLost, Outcome
      <4>2. pc' \in [Delivery -> PC]
        BY <4>1
      <4>3. inbox' \in [Worker -> Seq(Delivery)]
        BY <3>12, InboxType DEF PublishReplyLost
      <4>3a. /\ at' \in [Delivery -> Worker \cup {Nobody}]
             /\ via' \in [Delivery -> {"socket", "forward"}]
        BY <3>12 DEF PublishReplyLost
      <4>3b. owner' \in [Delivery -> Worker \cup {Nobody}]
        BY <3>12 DEF PublishReplyLost, Forget
      <4>4. UNCHANGED <<redis, faults, status, subscribed, seen, queue, gate, renewIn>>
        BY <3>12 DEF PublishReplyLost
      <4> QED
        BY <4>2, <4>3, <4>3a, <4>3b, <4>4 DEF redis
    <3> QED
      BY <2>11, <3>1, <3>2, <3>3, <3>5, <3>6, <3>7, <3>8, <3>10, <3>11, <3>12
         DEF HandlerStep
  <2>12. ASSUME NEW d \in Delivery, RunStep(d) PROVE TypeOK'
    <3>0. Key(d) \in Session
      BY KeyType
    <3>1. CASE StartRun(d)
      <4>1. pc' \in [Delivery -> PC]
        BY <3>1, GotoType DEF StartRun
      <4>2. queue' \in [Worker -> [Session -> Seq(Delivery)]]
        <5>1. queue' = [queue EXCEPT ![at[d]][Key(d)] = Tail(@)]
          BY <3>1 DEF StartRun
        <5>2. CASE at[d] \in Worker
          <6>1. queue[at[d]] \in [Session -> Seq(Delivery)]
            BY <5>2
          <6>2. queue[at[d]][Key(d)] # <<>>
            BY <3>1 DEF StartRun, CanStart
          <6>3. Tail(queue[at[d]][Key(d)]) \in Seq(Delivery)
            BY <3>0, <6>1, <6>2
          <6> QED
            BY <5>1, <5>2, <6>1, <6>3
        <5>3. CASE at[d] \notin Worker
          BY <5>1, <5>3
        <5> QED
          BY <5>2, <5>3
      <4>3. renewIn' \in [Delivery -> 0..RenewalInterval]
        BY <3>1 DEF StartRun
      <4>4. UNCHANGED <<redis, faults, status, subscribed, inbox, seen,
                        at, via, owner, gate>>
        BY <3>1 DEF StartRun
      <4> QED
        BY <4>1, <4>2, <4>3, <4>4 DEF redis
    <3>2. CASE RenewLoop(d)
      <4>1. Refresh(Key(d)) \/ UNCHANGED <<affinity, ttl, unrenewed>>
        BY <3>2 DEF RenewLoop
      <4>2. /\ affinity' \in [Session -> Worker \cup {Nobody}]
            /\ ttl' \in [Session -> 0..TTL]
            /\ unrenewed' \in [Session -> Nat]
        BY <3>0, <4>1, RefreshType
      <4>3. renewIn' \in [Delivery -> 0..RenewalInterval]
        BY <3>2 DEF RenewLoop
      <4>4. UNCHANGED <<marked, redisUp, faults, process, pc, at, via, owner, gate>>
        BY <3>2 DEF RenewLoop
      <4> QED
        BY <4>2, <4>3, <4>4 DEF process
    <3>3. CASE FinishRun(d)
      <4>1. pc' \in [Delivery -> PC] /\ renewIn' \in [Delivery -> 0..RenewalInterval]
        BY <3>3, GotoType DEF FinishRun
      <4>2. unrenewed' \in [Session -> Nat]
        BY <3>0, <3>3, EndedType DEF FinishRun
      <4>3. UNCHANGED <<affinity, ttl, marked, redisUp, faults, process, at, via, owner, gate>>
        BY <3>3 DEF FinishRun
      <4> QED
        BY <4>1, <4>2, <4>3 DEF process
    <3> QED
      BY <2>12, <3>1, <3>2, <3>3 DEF RunStep
  <2>13. CASE Tick
    BY <2>13 DEF Tick, process
  <2>14. CASE UNCHANGED vars
    BY <2>14 DEF vars, redis, process, handler
  <2> QED
    BY <2>1, <2>2, <2>3, <2>4, <2>5, <2>6, <2>7, <2>8, <2>9, <2>10, <2>11,
       <2>12, <2>13, <2>14 DEF Next
<1> QED
  BY <1>1, <1>2, PTL DEF Spec

(***************************************************************************)
(* A published delivery waits in exactly one inbox, once                   *)
(***************************************************************************)
InboxInv ==
    \A w \in Worker : \A i \in 1..Len(inbox[w]) :
        /\ pc[inbox[w][i]] = "inbox"
        /\ at[inbox[w][i]] = w
        /\ \A j \in 1..Len(inbox[w]) : inbox[w][i] = inbox[w][j] => i = j

\* Steps that leave the inboxes and the deliveries in them alone.
InboxQuiet ==
    /\ UNCHANGED inbox
    /\ \A d \in Delivery : pc[d] = "inbox" => pc'[d] = "inbox" /\ at'[d] = at[d]

LEMMA QuietKeepsInboxInv ==
  ASSUME TypeOK, InboxInv, InboxQuiet PROVE InboxInv'
<1>1. \A w \in Worker : \A i \in 1..Len(inbox[w]) : inbox[w][i] \in Delivery
  BY DEF TypeOK
<1> QED
  BY <1>1 DEF InboxInv, InboxQuiet

\* A delivery that is in no inbox is put at the end of one.
LEMMA PublishKeepsInboxInv ==
  ASSUME TypeOK, InboxInv, NEW d \in Delivery, NEW w \in Worker,
         pc[d] # "inbox",
         inbox' = [inbox EXCEPT ![w] = Append(@, d)],
         at' = [at EXCEPT ![d] = w],
         pc'[d] = "inbox",
         \A e \in Delivery : pc[e] = "inbox" => pc'[e] = "inbox"
  PROVE  InboxInv'
<1> USE DEF TypeOK
<1> SUFFICES ASSUME NEW v \in Worker, NEW i \in 1..Len(inbox'[v])
             PROVE  /\ pc'[inbox'[v][i]] = "inbox"
                    /\ at'[inbox'[v][i]] = v
                    /\ \A j \in 1..Len(inbox'[v]) : inbox'[v][i] = inbox'[v][j] => i = j
  BY DEF InboxInv
<1>1. \A k \in 1..Len(inbox[v]) : inbox[v][k] \in Delivery /\ inbox[v][k] # d
  BY DEF InboxInv
<1>2. CASE v # w
  <2>1. inbox'[v] = inbox[v]
    BY <1>2
  <2> QED
    BY <1>1, <2>1 DEF InboxInv
<1>3. CASE v = w
  <2>1. inbox'[v] = Append(inbox[v], d)
    BY <1>3
  <2>2. /\ Len(inbox'[v]) = Len(inbox[v]) + 1
        /\ \A k \in 1..Len(inbox[v]) : inbox'[v][k] = inbox[v][k]
        /\ inbox'[v][Len(inbox[v]) + 1] = d
    BY <2>1
  <2>3. CASE i \in 1..Len(inbox[v])
    <3>1. inbox'[v][i] = inbox[v][i] /\ inbox[v][i] \in Delivery /\ inbox[v][i] # d
      BY <1>1, <2>2, <2>3
    <3>2. pc[inbox[v][i]] = "inbox" /\ at[inbox[v][i]] = v
      BY <2>3 DEF InboxInv
    <3>3. pc'[inbox'[v][i]] = "inbox" /\ at'[inbox'[v][i]] = v
      BY <3>1, <3>2
    <3>4. ASSUME NEW j \in 1..Len(inbox'[v]), inbox'[v][i] = inbox'[v][j]
          PROVE  i = j
      <4>1. j # Len(inbox[v]) + 1
        BY <2>2, <3>1, <3>4
      <4>2. j \in 1..Len(inbox[v])
        BY <2>2, <4>1
      <4> QED
        BY <2>2, <2>3, <3>1, <3>4, <4>2 DEF InboxInv
    <3> QED
      BY <3>3, <3>4
  <2>4. CASE i = Len(inbox[v]) + 1
    BY <1>1, <1>3, <2>2, <2>4 DEF InboxInv
  <2> QED
    BY <2>2, <2>3, <2>4
<1> QED
  BY <1>2, <1>3

\* A worker's inbox is emptied and its deliveries go elsewhere.
LEMMA EmptyKeepsInboxInv ==
  ASSUME TypeOK, InboxInv, NEW w \in Worker,
         inbox' = [inbox EXCEPT ![w] = <<>>],
         UNCHANGED at,
         \A e \in Delivery : at[e] # w => pc'[e] = pc[e]
  PROVE  InboxInv'
<1> USE DEF TypeOK
<1> SUFFICES ASSUME NEW v \in Worker, NEW i \in 1..Len(inbox'[v])
             PROVE  /\ pc'[inbox'[v][i]] = "inbox"
                    /\ at'[inbox'[v][i]] = v
                    /\ \A j \in 1..Len(inbox'[v]) : inbox'[v][i] = inbox'[v][j] => i = j
  BY DEF InboxInv
<1>1. v # w
  OBVIOUS
<1>2. inbox'[v] = inbox[v]
  BY <1>1
<1> QED
  BY <1>1, <1>2 DEF InboxInv

LEMMA ConsumeKeepsInboxInv ==
  ASSUME TypeOK, InboxInv, NEW w \in Worker, Consume(w)
  PROVE  InboxInv'
<1> DEFINE h == Head(inbox[w])
<1>0. /\ inbox \in [Worker -> Seq(Delivery)]
      /\ pc \in [Delivery -> PC]
  BY DEF TypeOK
<1>1. /\ inbox[w] # <<>>
      /\ inbox' = [inbox EXCEPT ![w] = Tail(@)]
      /\ UNCHANGED at
      /\ \A e \in Delivery : e # h => pc'[e] = pc[e]
  BY <1>0 DEF Consume, Goto
<1>2. h = inbox[w][1] /\ 1 \in 1..Len(inbox[w])
  BY <1>0, <1>1
<1> SUFFICES ASSUME NEW v \in Worker, NEW i \in 1..Len(inbox'[v])
             PROVE  /\ pc'[inbox'[v][i]] = "inbox"
                    /\ at'[inbox'[v][i]] = v
                    /\ \A j \in 1..Len(inbox'[v]) : inbox'[v][i] = inbox'[v][j] => i = j
  BY DEF InboxInv
<1>3. CASE v # w
  <2>1. inbox'[v] = inbox[v]
    BY <1>0, <1>1, <1>3
  <2>2. \A k \in 1..Len(inbox[v]) : inbox[v][k] \in Delivery /\ inbox[v][k] # h
    <3>1. at[h] = w /\ \A k \in 1..Len(inbox[v]) : at[inbox[v][k]] = v
      BY <1>2 DEF InboxInv
    <3> QED
      BY <1>0, <1>3, <3>1
  <2> QED
    BY <1>1, <2>1, <2>2 DEF InboxInv
<1>4. CASE v = w
  <2>1. inbox'[v] = Tail(inbox[v])
    BY <1>0, <1>1, <1>4
  <2>2. /\ Len(inbox'[v]) = Len(inbox[v]) - 1
        /\ \A k \in 1..Len(inbox'[v]) : inbox'[v][k] = inbox[v][k + 1]
    BY <1>0, <1>1, <1>4, <2>1
  <2>3. \A k \in 1..Len(inbox'[v]) :
           /\ k + 1 \in 1..Len(inbox[v])
           /\ inbox[v][k + 1] \in Delivery
           /\ inbox[v][k + 1] # h
    BY <1>0, <1>2, <1>4, <2>2 DEF InboxInv
  <2>4. /\ pc'[inbox'[v][i]] = "inbox"
        /\ at'[inbox'[v][i]] = v
    BY <1>0, <1>1, <2>2, <2>3 DEF InboxInv
  <2>5. ASSUME NEW j \in 1..Len(inbox'[v]), inbox'[v][i] = inbox'[v][j]
        PROVE  i = j
    <3>1. inbox[v][i + 1] = inbox[v][j + 1]
      BY <2>2, <2>5
    <3>2. i + 1 = j + 1
      BY <2>3, <3>1 DEF InboxInv
    <3> QED
      BY <3>2
  <2> QED
    BY <2>4, <2>5
<1> QED
  BY <1>3, <1>4

(***************************************************************************)
(* Who has a delivery, and whom it is forwarded to                         *)
(***************************************************************************)
AtInv    == \A d \in Delivery : pc[d] # "unsent" => at[d] \in Worker
OwnerInv == \A d \in Delivery : pc[d] = "forward" => owner[d] \in Worker

Placement == TypeOK /\ InboxInv /\ AtInv /\ OwnerInv

\* What the steps other than an arrival or a publication do to a delivery.
Unmoved ==
    /\ UNCHANGED at
    /\ \A d \in Delivery :
          /\ pc[d] = "unsent" => pc'[d] = "unsent"
          /\ pc'[d] = "forward" => owner'[d] \in Worker

LEMMA UnmovedKeepsPlaces ==
  ASSUME AtInv, Unmoved PROVE AtInv' /\ OwnerInv'
BY DEF AtInv, OwnerInv, Unmoved

LEMMA InitPlacement == ASSUME Init, TypeOK PROVE Placement
<1>1. InboxInv
  BY DEF Init, InboxInv
<1>2. AtInv /\ OwnerInv
  BY DEF Init, AtInv, OwnerInv
<1> QED
  BY <1>1, <1>2 DEF Placement

\* Every step of one handler or run.
LEMMA DeliveryKeepsPlacement ==
  ASSUME Placement, TypeOK', NEW d \in Delivery, HandlerStep(d) \/ RunStep(d)
  PROVE  InboxInv' /\ AtInv' /\ OwnerInv'
<1> USE DEF Placement
<1>0. /\ pc \in [Delivery -> PC]
      /\ at \in [Delivery -> Worker \cup {Nobody}]
      /\ owner \in [Delivery -> Worker \cup {Nobody}]
      /\ affinity \in [Session -> Worker \cup {Nobody}]
      /\ Key(d) \in Session
  BY KeyType DEF TypeOK
<1>a. ASSUME UNCHANGED <<inbox, at>>, pc[d] \notin {"unsent", "inbox"},
             NEW step \in PC, Goto(d, step), step = "forward" => owner'[d] \in Worker,
             \A e \in Delivery \ {d} : owner'[e] = owner[e]
      PROVE  InboxInv' /\ AtInv' /\ OwnerInv'
  <2>1. \A e \in Delivery : e # d => pc'[e] = pc[e]
    BY <1>a DEF Goto
  <2>2. pc'[d] = step
    BY <1>0, <1>a DEF Goto
  <2>3. InboxQuiet
    BY <1>a, <2>1 DEF InboxQuiet
  <2>4. Unmoved
    BY <1>a, <2>1, <2>2 DEF Unmoved, OwnerInv
  <2> QED
    BY <2>3, <2>4, QuietKeepsInboxInv, UnmovedKeepsPlaces
<1>b. ASSUME NEW o \in (Worker \cup {Nobody}) \ {Nobody}, ForwardTo(d, o),
             UNCHANGED <<inbox, at>>, pc[d] \notin {"unsent", "inbox"}
      PROVE  InboxInv' /\ AtInv' /\ OwnerInv'
  <2>1. owner'[d] \in Worker /\ \A e \in Delivery \ {d} : owner'[e] = owner[e]
    BY <1>0, <1>b DEF ForwardTo
  <2>2. Goto(d, "forward") /\ "forward" \in PC
    BY <1>b DEF ForwardTo, PC, InHandler, RouteCalls
  <2> QED
    BY <1>a, <1>b, <2>1, <2>2
<1>c. ASSUME NEW e \in Delivery, pc[e] # "inbox",
             NEW w \in Worker,
             inbox' = [inbox EXCEPT ![w] = Append(@, e)],
             at' = [at EXCEPT ![e] = w],
             pc'[e] = "inbox",
             \A f \in Delivery : pc'[f] \in {pc[f], "inbox", "dedup", "unrouted"},
             \A f \in Delivery : pc[f] = "unsent" => pc'[f] = pc[f] \/ f = e,
             \A f \in Delivery : pc[f] = "inbox" => pc'[f] = "inbox",
             \A f \in Delivery : pc'[f] = "forward" => owner'[f] = owner[f]
      PROVE  InboxInv' /\ AtInv' /\ OwnerInv'
  <2>1. InboxInv'
    BY <1>c, PublishKeepsInboxInv
  <2>2. AtInv'
    BY <1>0, <1>c DEF AtInv
  <2>3. OwnerInv'
    BY <1>c DEF OwnerInv
  <2> QED
    BY <2>1, <2>2, <2>3
<1>1. CASE Resolve(d)
  <2>1. UNCHANGED <<inbox, at>> /\ pc[d] \notin {"unsent", "inbox"}
    BY <1>1 DEF Resolve, process
  <2>2. \/ Goto(d, "renew") /\ UNCHANGED owner
        \/ Goto(d, "claim") /\ UNCHANGED owner
        \/ affinity[Key(d)] # Nobody /\ ForwardTo(d, affinity[Key(d)])
    BY <1>1 DEF Resolve
  <2>3. {"renew", "claim"} \subseteq PC
    BY DEF PC, InHandler, RouteCalls
  <2> QED
    BY <1>0, <1>a, <1>b, <2>1, <2>2, <2>3
<1>2. CASE ReResolve(d)
  <2>1. UNCHANGED <<inbox, at>> /\ pc[d] \notin {"unsent", "inbox"}
    BY <1>2 DEF ReResolve, process
  <2>2. \/ Goto(d, "dedup") /\ UNCHANGED owner
        \/ affinity[Key(d)] # Nobody /\ ForwardTo(d, affinity[Key(d)])
    BY <1>2 DEF ReResolve
  <2>3. "dedup" \in PC
    BY DEF PC, InHandler
  <2> QED
    BY <1>0, <1>a, <1>b, <2>1, <2>2, <2>3
<1>3. CASE \/ Renew(d) \/ Claim(d) \/ ForceClaim(d) \/ Dedup(d) \/ DedupFallback(d)
           \/ Enqueue(d) \/ PrepareError(d) \/ StartRun(d) \/ FinishRun(d)
  <2>1. UNCHANGED <<inbox, at, owner>> /\ pc[d] \notin {"unsent", "inbox"}
    BY <1>3 DEF Renew, Claim, ForceClaim, Dedup, DedupFallback, Enqueue, PrepareError,
                StartRun, CanStart, FinishRun, process
  <2>2. \E step \in {"dedup", "reresolve", "prepare", "duplicate", "queued",
                     "aborted", "running", "done"} : Goto(d, step)
    BY <1>3 DEF Renew, Claim, ForceClaim, Dedup, DedupFallback, Pass, Reject, Enqueue,
                PrepareError, StartRun, FinishRun
  <2>3. {"dedup", "reresolve", "prepare", "duplicate", "queued", "aborted", "running",
         "done"} \subseteq PC
    BY DEF PC, InHandler, RouteCalls, Terminal
  <2> QED
    BY <1>a, <2>1, <2>2, <2>3
<1>4. CASE RouteError(d)
  <2>1. UNCHANGED <<inbox, at>> /\ pc[d] \notin {"unsent", "inbox"}
    BY <1>4 DEF RouteError, RouteCalls, process
  <2>2. \E step \in {"dedup", "unrouted"} : Goto(d, step)
    BY <1>4 DEF RouteError, Outcome
  <2>3. \A e \in Delivery \ {d} : owner'[e] = owner[e]
    BY <1>4 DEF RouteError, Forget
  <2>4. {"dedup", "unrouted"} \subseteq PC
    BY DEF PC, InHandler, Terminal
  <2> QED
    BY <1>a, <2>1, <2>2, <2>3, <2>4
<1>5. CASE Forward(d)
  <2>1. pc[d] = "forward" /\ owner[d] \in Worker
    BY <1>5 DEF Forward, OwnerInv
  <2>2. \A e \in Delivery \ {d} : owner'[e] = owner[e]
    BY <1>5 DEF Forward, Forget
  <2>3. CASE Publish(d, owner[d])
    <3>1. /\ pc'[d] = "inbox"
          /\ \A f \in Delivery \ {d} : pc'[f] = pc[f]
      BY <1>0, <2>3 DEF Publish, Goto
    <3>2. /\ inbox' = [inbox EXCEPT ![owner[d]] = Append(@, d)]
          /\ at' = [at EXCEPT ![d] = owner[d]]
      BY <2>3 DEF Publish
    <3> QED
      BY <1>c, <2>1, <2>2, <3>1, <3>2
  <2>4. CASE UNCHANGED <<inbox, at>> /\ (Goto(d, "lost") \/ Goto(d, "force"))
    <3>1. {"lost", "force"} \subseteq PC
      BY DEF PC, InHandler, RouteCalls, Terminal
    <3> QED
      BY <1>a, <2>1, <2>2, <2>4, <3>1
  <2> QED
    BY <1>5, <2>3, <2>4 DEF Forward
<1>6. ASSUME NEW e \in Delivery, PublishReplyLost(d, e)
      PROVE  InboxInv' /\ AtInv' /\ OwnerInv'
  <2>1. pc[d] = "forward" /\ owner[d] \in Worker /\ pc[e] = "unsent"
    BY <1>6 DEF PublishReplyLost, OwnerInv
  <2>2. \A f \in Delivery \ {d} : owner'[f] = owner[f]
    BY <1>6 DEF PublishReplyLost, Forget
  <2>3. PICK step \in {"dedup", "unrouted"} :
             pc' = [pc EXCEPT ![d] = step, ![e] = "inbox"]
    BY <1>6 DEF PublishReplyLost, Outcome
  <2>4. /\ inbox' = [inbox EXCEPT ![owner[d]] = Append(@, e)]
        /\ at' = [at EXCEPT ![e] = owner[d]]
    BY <1>6 DEF PublishReplyLost
  <2>5. pc'[e] = "inbox" /\ pc'[d] = step /\ \A f \in Delivery \ {d, e} : pc'[f] = pc[f]
    BY <1>0, <2>1, <2>3
  <2> QED
    BY <1>c, <2>1, <2>2, <2>4, <2>5
<1>7. CASE RenewLoop(d)
  <2>1. UNCHANGED <<inbox, at, pc, owner>>
    BY <1>7 DEF RenewLoop, process
  <2> QED
    BY <2>1 DEF InboxInv, AtInv, OwnerInv
<1> QED
  BY <1>1, <1>2, <1>3, <1>4, <1>5, <1>6, <1>7 DEF HandlerStep, RunStep

LEMMA NextKeepsPlacement ==
  ASSUME Placement, TypeOK', [Next]_vars PROVE Placement'
<1> SUFFICES InboxInv' /\ AtInv' /\ OwnerInv'
  BY DEF Placement
<1> USE DEF Placement
<1>0. /\ pc \in [Delivery -> PC]
      /\ at \in [Delivery -> Worker \cup {Nobody}]
      /\ inbox \in [Worker -> Seq(Delivery)]
  BY DEF TypeOK
<1>a. ASSUME UNCHANGED <<inbox, pc, at, owner>>
      PROVE  InboxInv' /\ AtInv' /\ OwnerInv'
  BY <1>a DEF InboxInv, AtInv, OwnerInv
<1>1. ASSUME NEW w \in Worker, Crash(w)
      PROVE  InboxInv' /\ AtInv' /\ OwnerInv'
  <2>1. inbox' = [inbox EXCEPT ![w] = <<>>] /\ UNCHANGED at
    BY <1>1 DEF Crash
  <2>2. \A d \in Delivery :
           /\ pc'[d] = IF at[d] = w /\ pc[d] \notin Terminal THEN Killed(pc[d]) ELSE pc[d]
           /\ owner'[d] = IF at[d] = w THEN Nobody ELSE owner[d]
    BY <1>1 DEF Crash
  <2>3. \A d \in Delivery : pc'[d] = pc[d] \/ (at[d] = w /\ pc'[d] \in {"lost", "aborted"})
    BY <2>2 DEF Killed
  <2>4. AtInv'
    <3>1. \A d \in Delivery : pc'[d] # "unsent" => at[d] \in Worker
      BY <2>3 DEF AtInv
    <3> QED
      BY <2>1, <3>1 DEF AtInv
  <2>5. OwnerInv'
    <3>1. ASSUME NEW d \in Delivery, pc'[d] = "forward" PROVE owner'[d] \in Worker
      <4>1. pc[d] = "forward" /\ pc[d] \notin Terminal
        BY <2>3, <3>1 DEF Terminal
      <4>2. at[d] # w
        BY <2>2, <3>1, <4>1 DEF Killed
      <4> QED
        BY <2>2, <4>1, <4>2 DEF OwnerInv
    <3> QED
      BY <3>1 DEF OwnerInv
  <2>6. InboxInv'
    <3>1. \A e \in Delivery : at[e] # w => pc'[e] = pc[e]
      BY <2>3
    <3> QED
      BY <2>1, <3>1, EmptyKeepsInboxInv
  <2> QED
    BY <2>4, <2>5, <2>6
<1>2. ASSUME NEW w \in Worker, LoseSubscription(w)
      PROVE  InboxInv' /\ AtInv' /\ OwnerInv'
  <2>1. inbox' = [inbox EXCEPT ![w] = <<>>] /\ UNCHANGED <<at, owner>>
    BY <1>2 DEF LoseSubscription
  <2>2. \A d \in Delivery :
           pc'[d] = IF at[d] = w /\ pc[d] = "inbox" THEN "lost" ELSE pc[d]
    BY <1>2 DEF LoseSubscription
  <2>3. InboxInv'
    <3>1. \A e \in Delivery : at[e] # w => pc'[e] = pc[e]
      BY <2>2
    <3> QED
      BY <2>1, <3>1, EmptyKeepsInboxInv
  <2>4. AtInv' /\ OwnerInv'
    BY <2>1, <2>2 DEF AtInv, OwnerInv
  <2> QED
    BY <2>3, <2>4
<1>3. ASSUME NEW w \in Worker, Consume(w)
      PROVE  InboxInv' /\ AtInv' /\ OwnerInv'
  <2>1. InboxInv'
    BY <1>3, ConsumeKeepsInboxInv
  <2>2. UNCHANGED <<at, owner>>
    BY <1>3 DEF Consume
  <2>3. Head(inbox[w]) \in Delivery /\ pc[Head(inbox[w])] = "inbox"
    <3>1. inbox[w] # <<>> /\ 1 \in 1..Len(inbox[w]) /\ Head(inbox[w]) = inbox[w][1]
      BY <1>0, <1>3 DEF Consume
    <3> QED
      BY <1>0, <3>1 DEF InboxInv
  <2>4. \A d \in Delivery :
           \/ pc'[d] = pc[d]
           \/ pc[d] = "inbox" /\ pc'[d] \in {"resolve", "lost"}
    BY <1>0, <1>3, <2>3 DEF Consume, Goto
  <2>5. AtInv' /\ OwnerInv'
    BY <2>2, <2>4 DEF AtInv, OwnerInv
  <2> QED
    BY <2>1, <2>5
<1>4. ASSUME NEW d \in Delivery, NEW w \in Worker, Arrive(d, w)
      PROVE  InboxInv' /\ AtInv' /\ OwnerInv'
  <2>1. UNCHANGED <<inbox, owner>> /\ pc[d] = "unsent"
    BY <1>4 DEF Arrive, process
  <2>2. pc'[d] = "resolve" /\ at'[d] = w
    BY <1>0, <1>4 DEF Arrive, Goto
  <2>3. \A e \in Delivery \ {d} : pc'[e] = pc[e] /\ at'[e] = at[e]
    BY <1>0, <1>4 DEF Arrive, Goto
  <2>4. InboxQuiet
    BY <2>1, <2>3 DEF InboxQuiet
  <2>5. InboxInv'
    BY <2>4, QuietKeepsInboxInv
  <2>6. AtInv' /\ OwnerInv'
    BY <2>1, <2>2, <2>3 DEF AtInv, OwnerInv
  <2> QED
    BY <2>5, <2>6
<1>5. ASSUME NEW w \in Worker,
             Boot(w) \/ Subscribe(w) \/ Ready(w) \/ DropConnection(w)
      PROVE  InboxInv' /\ AtInv' /\ OwnerInv'
  <2>1. UNCHANGED <<inbox, pc, at, owner>>
    BY <1>5 DEF Boot, Subscribe, Ready, DropConnection, handler
  <2> QED
    BY <1>a, <2>1
<1>6. CASE RedisFails \/ RedisRecovers \/ Tick \/ UNCHANGED vars
  <2>1. UNCHANGED <<inbox, pc, at, owner>>
    BY <1>6 DEF RedisFails, RedisRecovers, Tick, process, handler, vars
  <2> QED
    BY <1>a, <2>1
<1>7. ASSUME NEW d \in Delivery, HandlerStep(d) \/ RunStep(d)
      PROVE  InboxInv' /\ AtInv' /\ OwnerInv'
  BY <1>7, DeliveryKeepsPlacement
<1> QED
  BY <1>1, <1>2, <1>3, <1>4, <1>5, <1>6, <1>7 DEF Next

\* A published event waits in one inbox only, once, and belongs to that worker;
\* an event is forwarded only to a worker, never to a missing key.
THEOREM PlacementCorrect == Spec => []Placement
<1>1. Init /\ TypeOK => Placement
  BY InitPlacement
<1>2. Placement /\ TypeOK' /\ [Next]_vars => Placement'
  BY NextKeepsPlacement
<1> QED
  BY <1>1, <1>2, TypeCorrect, PTL DEF Spec

(***************************************************************************)
(* What a step does to the outcome of is_duplicate                         *)
(***************************************************************************)
Accepted == {"prepare", "queued", "running", "done", "aborted"}

\* The step asks is_duplicate nothing and finishes no run.
Quiet ==
    /\ UNCHANGED <<marked, seen, gate>>
    /\ \A d \in Delivery :
          IF pc[d] \in Accepted
          THEN /\ at'[d] = at[d]
               /\ pc'[d] \in Accepted
               /\ pc[d] \in {"done", "aborted"} => pc'[d] = pc[d]
               /\ pc'[d] = "done" => pc[d] = "done"
          ELSE pc'[d] \notin Accepted /\ (pc'[d] = "duplicate" => pc[d] = "duplicate")

LEMMA StillIsQuiet ==
  ASSUME UNCHANGED <<marked, seen, gate, pc, at>> PROVE Quiet
BY DEF Quiet

LEMMA OneMoveIsQuiet ==
  ASSUME TypeOK, UNCHANGED <<marked, seen, gate>>,
         NEW d \in Delivery, NEW step, Goto(d, step),
         \A e \in Delivery : e # d => at'[e] = at[e],
         \/ /\ pc[d] \notin Accepted /\ step \notin Accepted /\ step # "duplicate"
         \/ /\ pc[d] \in {"prepare", "queued", "running"}
            /\ step \in {"queued", "running", "aborted"}
            /\ at'[d] = at[d]
  PROVE  Quiet
<1>1. pc'[d] = step /\ \A e \in Delivery : e # d => pc'[e] = pc[e]
  BY DEF Goto, TypeOK
<1>2. /\ {"prepare", "queued", "running", "aborted"} \subseteq Accepted
  BY DEF Accepted
<1> QED
  BY <1>1, <1>2 DEF Quiet

LEMMA DeliveryEffect ==
  ASSUME Placement, NEW d \in Delivery, HandlerStep(d) \/ RunStep(d)
  PROVE  Quiet \/ FinishRun(d) \/ Dedup(d) \/ DedupFallback(d)
<1>0. TypeOK /\ pc \in [Delivery -> PC] /\ at \in [Delivery -> Worker \cup {Nobody}]
  BY DEF Placement, TypeOK
<1>1. CASE Resolve(d) \/ ReResolve(d) \/ Renew(d) \/ Claim(d) \/ ForceClaim(d) \/ RouteError(d)
  <2>1. UNCHANGED <<marked, seen, gate, at>> /\ pc[d] \notin Accepted
    BY <1>1 DEF Resolve, ReResolve, Renew, Claim, ForceClaim, RouteError, RouteCalls,
                redis, process, Accepted
  <2>2. \E step \in {"renew", "claim", "forward", "dedup", "reresolve", "unrouted"} :
           Goto(d, step)
    BY <1>1 DEF Resolve, ReResolve, Renew, Claim, ForceClaim, RouteError, ForwardTo, Outcome
  <2>3. \A step \in {"renew", "claim", "forward", "dedup", "reresolve", "unrouted"} :
           step \notin Accepted /\ step # "duplicate"
    BY DEF Accepted
  <2> QED
    BY <1>0, <2>1, <2>2, <2>3, OneMoveIsQuiet
<1>2. CASE Forward(d)
  <2>1. UNCHANGED <<marked, seen, gate>> /\ pc[d] \notin Accepted
    BY <1>2 DEF Forward, redis, Accepted
  <2>2. \E step \in {"inbox", "lost", "force"} : Goto(d, step)
    BY <1>2 DEF Forward, Publish
  <2>3. \A e \in Delivery : e # d => at'[e] = at[e]
    BY <1>0, <1>2 DEF Forward, Publish
  <2>4. \A step \in {"inbox", "lost", "force"} : step \notin Accepted /\ step # "duplicate"
    BY DEF Accepted
  <2> QED
    BY <1>0, <2>1, <2>2, <2>3, <2>4, OneMoveIsQuiet
<1>3. CASE Enqueue(d) \/ PrepareError(d) \/ StartRun(d)
  <2>1. UNCHANGED <<marked, seen, gate, at>>
    BY <1>3 DEF Enqueue, PrepareError, StartRun, redis, process
  <2>2. pc[d] \in {"prepare", "queued", "running"}
    BY <1>3 DEF Enqueue, PrepareError, StartRun, CanStart
  <2>3. \E step \in {"queued", "running", "aborted"} : Goto(d, step)
    BY <1>3 DEF Enqueue, PrepareError, StartRun
  <2> QED
    BY <1>0, <2>1, <2>2, <2>3, OneMoveIsQuiet
<1>4. CASE RenewLoop(d)
  BY <1>4, StillIsQuiet DEF RenewLoop, process
<1>5. ASSUME NEW e \in Delivery, PublishReplyLost(d, e) PROVE Quiet
  <2>1. UNCHANGED <<marked, seen, gate>> /\ pc[d] = "forward" /\ pc[e] = "unsent"
    BY <1>5 DEF PublishReplyLost, redis
  <2>2. PICK step \in {"dedup", "unrouted"} :
             pc' = [pc EXCEPT ![d] = step, ![e] = "inbox"]
    BY <1>5 DEF PublishReplyLost, Outcome
  <2>3. pc'[e] = "inbox" /\ pc'[d] = step /\ \A f \in Delivery \ {d, e} : pc'[f] = pc[f]
    BY <1>0, <2>1, <2>2
  <2>4. \A f \in Delivery : f # e => at'[f] = at[f]
    BY <1>0, <1>5 DEF PublishReplyLost
  <2>5. {"forward", "unsent", "inbox", "dedup", "unrouted"} \cap Accepted = {}
    BY DEF Accepted
  <2> QED
    BY <2>1, <2>3, <2>4, <2>5 DEF Quiet
<1> QED
  BY <1>1, <1>2, <1>3, <1>4, <1>5 DEF HandlerStep, RunStep

LEMMA StepEffect ==
  ASSUME Placement, [Next]_vars
  PROVE  Quiet \/ \E d \in Delivery : FinishRun(d) \/ Dedup(d) \/ DedupFallback(d)
<1>0. /\ TypeOK /\ pc \in [Delivery -> PC] /\ at \in [Delivery -> Worker \cup {Nobody}]
      /\ inbox \in [Worker -> Seq(Delivery)]
  BY DEF Placement, TypeOK
<1>1. ASSUME NEW w \in Worker, Crash(w) PROVE Quiet
  <2>1. UNCHANGED <<marked, seen, gate, at>>
    BY <1>1 DEF Crash, redis
  <2>2. \A d \in Delivery :
           pc'[d] = IF at[d] = w /\ pc[d] \notin Terminal THEN Killed(pc[d]) ELSE pc[d]
    BY <1>1 DEF Crash
  <2>3. \A d \in Delivery :
           \/ pc'[d] = pc[d]
           \/ /\ pc[d] \in {"prepare", "queued", "running"}
              /\ pc'[d] = "aborted"
           \/ /\ pc[d] \notin Accepted
              /\ pc'[d] = "lost"
    BY <2>2 DEF Killed, Terminal, Accepted
  <2>4. /\ {"prepare", "queued", "running", "aborted"} \subseteq Accepted
        /\ "lost" \notin Accepted
    BY DEF Accepted
  <2> QED
    BY <2>1, <2>3, <2>4 DEF Quiet
<1>2. ASSUME NEW w \in Worker, LoseSubscription(w) PROVE Quiet
  <2>1. UNCHANGED <<marked, seen, gate, at>>
    BY <1>2 DEF LoseSubscription, redis
  <2>2. \A d \in Delivery :
           pc'[d] = IF at[d] = w /\ pc[d] = "inbox" THEN "lost" ELSE pc[d]
    BY <1>2 DEF LoseSubscription
  <2> QED
    BY <2>1, <2>2 DEF Quiet, Accepted
<1>3. ASSUME NEW w \in Worker, Consume(w) PROVE Quiet
  <2>1. Head(inbox[w]) \in Delivery /\ pc[Head(inbox[w])] = "inbox"
    <3>1. inbox[w] # <<>> /\ 1 \in 1..Len(inbox[w]) /\ Head(inbox[w]) = inbox[w][1]
      BY <1>0, <1>3 DEF Consume
    <3> QED
      BY <1>0, <3>1 DEF InboxInv, Placement
  <2>2. UNCHANGED <<marked, seen, gate, at>>
    BY <1>3 DEF Consume, redis
  <2>3. \E step \in {"resolve", "lost"} : Goto(Head(inbox[w]), step)
    BY <1>3 DEF Consume
  <2>4. {"inbox", "resolve", "lost"} \cap Accepted = {}
    BY DEF Accepted
  <2> QED
    BY <1>0, <2>1, <2>2, <2>3, <2>4, OneMoveIsQuiet
<1>4. ASSUME NEW d \in Delivery, NEW w \in Worker, Arrive(d, w) PROVE Quiet
  <2>1. UNCHANGED <<marked, seen, gate>> /\ pc[d] = "unsent" /\ Goto(d, "resolve")
    BY <1>4 DEF Arrive, redis, process
  <2>2. \A e \in Delivery : e # d => at'[e] = at[e]
    BY <1>0, <1>4 DEF Arrive
  <2>3. {"unsent", "resolve"} \cap Accepted = {}
    BY DEF Accepted
  <2> QED
    BY <1>0, <2>1, <2>2, <2>3, OneMoveIsQuiet
<1>5. ASSUME NEW w \in Worker,
             Boot(w) \/ Subscribe(w) \/ Ready(w) \/ DropConnection(w)
      PROVE  Quiet
  BY <1>5, StillIsQuiet DEF Boot, Subscribe, Ready, DropConnection, redis, handler
<1>6. CASE RedisFails \/ RedisRecovers \/ Tick \/ UNCHANGED vars
  BY <1>6, StillIsQuiet DEF RedisFails, RedisRecovers, Tick, redis, process, handler, vars
<1>7. ASSUME NEW d \in Delivery, HandlerStep(d) \/ RunStep(d)
      PROVE  Quiet \/ FinishRun(d) \/ Dedup(d) \/ DedupFallback(d)
  BY <1>7, DeliveryEffect
<1> QED
  BY <1>1, <1>2, <1>3, <1>4, <1>5, <1>6, <1>7 DEF Next

(***************************************************************************)
(* The dedup gate                                                          *)
(***************************************************************************)
GateInv     == \A d \in Delivery : gate[d] # "none" <=> pc[d] \in Accepted
RedisMarked == \A d \in Delivery : gate[d] = "redis" => MessageOf[d] \in marked
MemorySeen  == \A d \in Delivery : gate[d] = "memory" => MessageOf[d] \in seen[at[d]]

\* What is marked or remembered was let through.
LetThrough(m) == \E d \in Delivery : MessageOf[d] = m /\ gate[d] # "none"
TakenInv ==
    /\ \A m \in marked : LetThrough(m)
    /\ \A w \in Worker : \A m \in seen[w] : LetThrough(m)

DedupInv ==
    /\ Placement
    /\ GateInv
    /\ RedisMarked
    /\ MemorySeen
    /\ TakenInv
    /\ DedupSound
    /\ DuplicateMeansTaken

\* What a message is let through by is never taken back.
LEMMA LetThroughStays ==
  ASSUME NEW m, LetThrough(m), \A d \in Delivery : gate[d] # "none" => gate'[d] # "none"
  PROVE  LetThrough(m)'
BY DEF LetThrough

LEMMA InitDedupInv == ASSUME Init, Placement PROVE DedupInv
<1>1. GateInv /\ RedisMarked /\ MemorySeen
  BY DEF Init, GateInv, RedisMarked, MemorySeen, Accepted
<1>2. TakenInv
  BY DEF Init, TakenInv
<1>3. DedupSound /\ DuplicateMeansTaken
  BY DEF Init, DedupSound, DuplicateMeansTaken, Copies
<1> QED
  BY <1>1, <1>2, <1>3 DEF DedupInv

LEMMA QuietKeepsDedupInv ==
  ASSUME DedupInv, Quiet, Placement' PROVE DedupInv'
<1> USE DEF DedupInv
<1>1. UNCHANGED <<marked, seen, gate>>
  BY DEF Quiet
<1>2. \A d \in Delivery : pc'[d] \in Accepted <=> pc[d] \in Accepted
  BY DEF Quiet
<1>3. \A d \in Delivery : gate[d] # "none" => at'[d] = at[d]
  BY DEF Quiet, GateInv
<1>4. GateInv' /\ RedisMarked' /\ TakenInv'
  BY <1>1, <1>2 DEF GateInv, RedisMarked, TakenInv, LetThrough
<1>5. MemorySeen'
  BY <1>1, <1>3 DEF MemorySeen
<1>6. DedupSound'
  BY <1>1, <1>3 DEF DedupSound, Copies
<1>7. \A d \in Delivery : pc'[d] = "duplicate" => pc[d] = "duplicate"
  BY DEF Quiet, Accepted
<1>8. DuplicateMeansTaken'
  BY <1>1, <1>7 DEF DuplicateMeansTaken, Copies
<1> QED
  BY <1>4, <1>5, <1>6, <1>8

LEMMA FinishKeepsDedupInv ==
  ASSUME DedupInv, NEW d \in Delivery, FinishRun(d), Placement' PROVE DedupInv'
<1> USE DEF DedupInv
<1>1. UNCHANGED <<marked, seen, gate, at>> /\ pc[d] = "running"
  BY DEF FinishRun, redis, process
<1>2. pc'[d] = "done" /\ \A e \in Delivery : e # d => pc'[e] = pc[e]
  BY DEF FinishRun, Goto, Placement, TypeOK
<1>3. \A e \in Delivery : pc'[e] \in Accepted <=> pc[e] \in Accepted
  BY <1>1, <1>2 DEF Accepted
<1>4. GateInv' /\ RedisMarked' /\ MemorySeen' /\ TakenInv'
  BY <1>1, <1>3 DEF GateInv, RedisMarked, MemorySeen, TakenInv, LetThrough
<1>5. DedupSound' /\ DuplicateMeansTaken'
  BY <1>1, <1>2 DEF DedupSound, DuplicateMeansTaken, Copies
<1> QED
  BY <1>4, <1>5

\* is_duplicate answers: by Redis, or by the memory of the process.
LEMMA CheckKeepsDedupInv ==
  ASSUME DedupInv, NEW d \in Delivery, Dedup(d) \/ DedupFallback(d), Placement'
  PROVE  DedupInv'
<1> USE DEF DedupInv
<1> DEFINE m == MessageOf[d]
           w == at[d]
<1>0. /\ pc \in [Delivery -> PC] /\ gate \in [Delivery -> {"none", "redis", "memory"}]
      /\ seen \in [Worker -> SUBSET Message] /\ marked \subseteq Message
  BY DEF Placement, TypeOK
<1>1. pc[d] = "dedup" /\ gate[d] = "none" /\ w \in Worker /\ UNCHANGED at
  BY DEF Dedup, DedupFallback, process, Placement, AtInv, GateInv, Accepted
<1>2. marked \subseteq marked' /\ marked' \subseteq marked \cup {m}
  BY DEF Dedup, DedupFallback
<1>3. /\ \A v \in Worker : seen[v] \subseteq seen'[v]
      /\ \A v \in Worker : v # w => seen'[v] = seen[v]
      /\ seen'[w] \subseteq seen[w] \cup {m}
  BY <1>0, <1>1 DEF Dedup, DedupFallback, process
<1>4. CASE Reject(d)
  <2>1. pc'[d] = "duplicate" /\ \A e \in Delivery : e # d => pc'[e] = pc[e]
    BY <1>0, <1>4 DEF Reject, Goto
  <2>2. UNCHANGED gate
    BY <1>4 DEF Reject
  <2>3. m \in marked \/ m \in seen[w]
    <3>1. "duplicate" # "prepare" /\ pc'[d] # "prepare"
      BY <2>1
    <3>2. ~Pass(d, "redis") /\ ~Pass(d, "memory")
      BY <1>0, <3>1 DEF Pass, Goto
    <3> QED
      BY <3>2 DEF Dedup, DedupFallback
  <2>4. LetThrough(m)
    BY <1>1, <2>3 DEF TakenInv
  <2>5. GateInv'
    BY <1>1, <2>1, <2>2 DEF GateInv, Accepted
  <2>6. RedisMarked'
    BY <1>2, <2>2 DEF RedisMarked
  <2>7. MemorySeen'
    <3>1. \A e \in Delivery : gate[e] = "memory" => at[e] \in Worker
      BY DEF GateInv, Placement, AtInv, Accepted
    <3> QED
      BY <1>1, <1>3, <2>2, <3>1 DEF MemorySeen
  <2>8. TakenInv'
    BY <1>1, <1>2, <1>3, <2>2, <2>4 DEF TakenInv, LetThrough
  <2>9. DedupSound'
    BY <1>1, <2>2 DEF DedupSound, Copies
  <2>10. DuplicateMeansTaken'
    <3>1. \E e \in Copies(d) : gate[e] # "none"
      BY <1>1, <2>4 DEF LetThrough, Copies
    <3> QED
      BY <2>1, <2>2, <3>1 DEF DuplicateMeansTaken, Copies
  <2> QED
    BY <2>5, <2>6, <2>7, <2>8, <2>9, <2>10
<1>5. ASSUME NEW check \in {"redis", "memory"}, Pass(d, check),
             check = "redis" => m \notin marked /\ m \in marked',
             check = "memory" => m \notin seen[w] /\ m \in seen'[w]
      PROVE  DedupInv'
  <2>1. pc'[d] = "prepare" /\ \A e \in Delivery : e # d => pc'[e] = pc[e]
    BY <1>0, <1>5 DEF Pass, Goto
  <2>2. gate'[d] = check /\ \A e \in Delivery : e # d => gate'[e] = gate[e]
    BY <1>0, <1>5 DEF Pass
  <2>3. GateInv'
    BY <1>5, <2>1, <2>2 DEF GateInv, Accepted
  <2>4. RedisMarked'
    BY <1>2, <1>5, <2>2 DEF RedisMarked
  <2>5. MemorySeen'
    <3>1. \A e \in Delivery : gate[e] = "memory" => at[e] \in Worker
      BY DEF GateInv, Placement, AtInv, Accepted
    <3> QED
      BY <1>1, <1>3, <1>5, <2>2, <3>1 DEF MemorySeen
  <2>6. LetThrough(m)'
    BY <1>5, <2>2 DEF LetThrough
  <2>7. \A n : LetThrough(n) => LetThrough(n)'
    BY <1>5, <2>2 DEF LetThrough
  <2>8. TakenInv'
    BY <1>2, <1>3, <2>6, <2>7 DEF TakenInv
  <2>9. DedupSound'
    <3>1. \A e \in Copies(d) : gate[e] = "redis" => m \in marked
      BY DEF RedisMarked, Copies
    <3>2. \A e \in Copies(d) : gate[e] = "memory" /\ at[e] = w => m \in seen[w]
      BY DEF MemorySeen, Copies
    <3> QED
      BY <1>1, <1>5, <2>2, <3>1, <3>2 DEF DedupSound, Copies
  <2>10. DuplicateMeansTaken'
    BY <1>5, <2>1, <2>2 DEF DuplicateMeansTaken, Copies
  <2> QED
    BY <2>3, <2>4, <2>5, <2>8, <2>9, <2>10
<1>6. CASE Dedup(d) /\ Pass(d, "redis")
  <2>1. m \notin marked /\ m \in marked'
    <3>1. ~Reject(d)
      BY <1>0, <1>6 DEF Pass, Reject, Goto
    <3> QED
      BY <1>6, <3>1 DEF Dedup
  <2> QED
    BY <1>5, <1>6, <2>1
<1>7. CASE DedupFallback(d) /\ Pass(d, "memory")
  <2>1. m \notin seen[w] /\ m \in seen'[w]
    <3>1. ~Reject(d)
      BY <1>0, <1>7 DEF Pass, Reject, Goto
    <3> QED
      BY <1>0, <1>1, <1>7, <3>1 DEF DedupFallback
  <2> QED
    BY <1>5, <1>7, <2>1
<1> QED
  BY <1>4, <1>6, <1>7 DEF Dedup, DedupFallback

\* The inductive invariant behind the theorems on is_duplicate: what is let
\* through is marked, what is marked was let through.
THEOREM DedupCorrect == Spec => []DedupInv
<1>1. Init /\ Placement => DedupInv
  BY InitDedupInv
<1>2. DedupInv /\ Placement' /\ [Next]_vars => DedupInv'
  <2> SUFFICES ASSUME DedupInv, Placement', [Next]_vars PROVE DedupInv'
    OBVIOUS
  <2>1. Quiet \/ \E d \in Delivery : FinishRun(d) \/ Dedup(d) \/ DedupFallback(d)
    BY StepEffect DEF DedupInv
  <2> QED
    BY <2>1, QuietKeepsDedupInv, FinishKeepsDedupInv, CheckKeepsDedupInv
<1> QED
  BY <1>1, <1>2, PlacementCorrect, PTL DEF Spec

\* is_duplicate lets two copies of one message through only on the memories of
\* two different processes, whatever crashes and whatever Redis loses.
THEOREM DedupIsSound == Spec => []DedupSound
<1>1. DedupInv => DedupSound
  BY DEF DedupInv
<1> QED
  BY <1>1, DedupCorrect, PTL

\* No event is dropped as a duplicate of one that was never let through.
THEOREM DuplicatesWereTaken == Spec => []DuplicateMeansTaken
<1>1. DedupInv => DuplicateMeansTaken
  BY DEF DedupInv
<1> QED
  BY <1>1, DedupCorrect, PTL

\* Copies of a message are judged as if by one worker, whatever fails.
THEOREM CopiesJudged == Spec => []CopiesAreJudged
<1>1. TypeOK /\ DedupSound /\ DuplicateMeansTaken => CopiesAreJudged
  BY DEF CopiesAreJudged
<1> QED
  BY <1>1, TypeCorrect, DedupIsSound, DuplicatesWereTaken, PTL

(***************************************************************************)
(* While Redis answers                                                     *)
(***************************************************************************)
OnceInv ==
    /\ DedupInv
    /\ redisUp
    /\ \A d \in Delivery : gate[d] # "memory"

LEMMA RedisStaysUp ==
  ASSUME "outage" \notin Faults, redisUp, [Next]_vars PROVE redisUp'
<1>1. ~RedisFails /\ ~RedisRecovers
  BY DEF RedisFails, RedisRecovers, Inject
<1>2. ASSUME NEW d \in Delivery, HandlerStep(d) \/ RunStep(d) PROVE redisUp'
  BY <1>2 DEF HandlerStep, RunStep, Resolve, Renew, Claim, ReResolve, Forward, ForceClaim,
              RouteError, Dedup, DedupFallback, Enqueue, PrepareError, PublishReplyLost,
              StartRun, RenewLoop, FinishRun, redis
<1>3. ASSUME NEW w \in Worker,
             \/ Boot(w) \/ Subscribe(w) \/ Ready(w) \/ Crash(w) \/ DropConnection(w)
             \/ LoseSubscription(w) \/ Consume(w)
      PROVE  redisUp'
  BY <1>3 DEF Boot, Subscribe, Ready, Crash, DropConnection, LoseSubscription, Consume, redis
<1>4. ASSUME NEW d \in Delivery, NEW w \in Worker, Arrive(d, w) PROVE redisUp'
  BY <1>4 DEF Arrive, redis
<1>5. CASE Tick \/ UNCHANGED vars
  BY <1>5 DEF Tick, vars, redis
<1> QED
  BY <1>1, <1>2, <1>3, <1>4, <1>5 DEF Next

LEMMA NextKeepsOnceInv ==
  ASSUME "outage" \notin Faults, OnceInv, DedupInv', [Next]_vars PROVE OnceInv'
<1> USE DEF OnceInv
<1>1. redisUp'
  BY RedisStaysUp
<1>2. ASSUME NEW d \in Delivery, Dedup(d) PROVE \A e \in Delivery : gate'[e] # "memory"
  BY <1>2 DEF Dedup, Pass, Reject, DedupInv, Placement, TypeOK
<1>3. ASSUME NEW d \in Delivery, DedupFallback(d) PROVE FALSE
  BY <1>3 DEF DedupFallback
<1>4. ASSUME NEW d \in Delivery, FinishRun(d) PROVE UNCHANGED gate
  BY <1>4 DEF FinishRun
<1>5. Quiet \/ \E d \in Delivery : FinishRun(d) \/ Dedup(d) \/ DedupFallback(d)
  BY StepEffect DEF DedupInv
<1> QED
  BY <1>1, <1>2, <1>3, <1>4, <1>5 DEF Quiet

\* Without an outage no worker ever falls back on its own memory.
THEOREM OnceCorrect == ASSUME "outage" \notin Faults PROVE Spec => []OnceInv
<1>1. Init /\ DedupInv => OnceInv
  BY DEF Init, OnceInv
<1>2. OnceInv /\ DedupInv' /\ [Next]_vars => OnceInv'
  BY NextKeepsOnceInv
<1> QED
  BY <1>1, <1>2, DedupCorrect, PTL DEF Spec

LEMMA OnceInvSuffices == ASSUME OnceInv PROVE AtMostOnce
<1>1. \A d \in Delivery : gate[d] \in {"none", "redis"}
  BY DEF OnceInv, DedupInv, Placement, TypeOK
<1>2. DedupSound
  BY DEF OnceInv, DedupInv
<1> QED
  BY <1>1, <1>2 DEF DedupSound, AtMostOnce, Copies

LEMMA OnceInvSufficesNext == ASSUME OnceInv' PROVE AtMostOnce'
<1>1. \A d \in Delivery : gate'[d] \in {"none", "redis"}
  BY DEF OnceInv, DedupInv, Placement, TypeOK
<1>2. DedupSound'
  BY DEF OnceInv, DedupInv
<1> QED
  BY <1>1, <1>2 DEF DedupSound, AtMostOnce, Copies

\* As long as Redis answers, at most one copy of a message is let through,
\* whatever crashes, lost subscriptions, expiring keys and force-claims do.
THEOREM AtMostOnceWithoutOutage ==
  ASSUME "outage" \notin Faults PROVE Spec => []AtMostOnce
<1>1. OnceInv => AtMostOnce
  BY OnceInvSuffices
<1> QED
  BY <1>1, OnceCorrect, PTL

(***************************************************************************)
(* Gateway implements MessageOnce                                          *)
(***************************************************************************)
Ending(step) == IF step \in {"done", "aborted"} THEN step ELSE "taken"

LEMMA PhaseWhenTaken ==
  ASSUME AtMostOnce, NEW d \in Delivery, gate[d] # "none"
  PROVE  PhaseOf(MessageOf[d]) = Ending(pc[d])
<1>1. Taken(MessageOf[d]) = {d}
  BY DEF Taken, AtMostOnce, Copies
<1> QED
  BY <1>1 DEF PhaseOf, Ending

LEMMA PhaseWhenTakenNext ==
  ASSUME AtMostOnce', NEW d \in Delivery, gate'[d] # "none"
  PROVE  PhaseOf(MessageOf[d])' = Ending(pc'[d])
<1>1. Taken(MessageOf[d])' = {d}
  BY DEF Taken, AtMostOnce, Copies
<1> QED
  BY <1>1 DEF PhaseOf, Ending

LEMMA PhaseWhenNot ==
  ASSUME NEW m, \A d \in Delivery : MessageOf[d] = m => gate[d] = "none"
  PROVE  PhaseOf(m) = "waiting"
BY DEF PhaseOf, Taken

LEMMA PhaseWhenNotNext ==
  ASSUME NEW m, \A d \in Delivery : MessageOf[d] = m => gate'[d] = "none"
  PROVE  PhaseOf(m)' = "waiting"
BY DEF PhaseOf, Taken

\* A step that changes no message but those in ms.
LEMMA SamePhase ==
  ASSUME AtMostOnce, AtMostOnce', NEW m \in Message, UNCHANGED gate,
         \A d \in Delivery : MessageOf[d] = m /\ gate[d] # "none" => Ending(pc'[d]) = Ending(pc[d])
  PROVE  PhaseOf(m)' = PhaseOf(m)
<1>1. CASE \E d \in Delivery : MessageOf[d] = m /\ gate[d] # "none"
  BY <1>1, PhaseWhenTaken, PhaseWhenTakenNext
<1>2. CASE \A d \in Delivery : MessageOf[d] = m => gate[d] = "none"
  BY <1>2, PhaseWhenNot, PhaseWhenNotNext
<1> QED
  BY <1>1, <1>2

LEMMA QuietImplementsOnce ==
  ASSUME OnceInv, OnceInv', Quiet
  PROVE  \E ms \in SUBSET Message : Once!Abort(ms)
<1>0. AtMostOnce /\ AtMostOnce' /\ GateInv /\ UNCHANGED gate
  BY OnceInvSuffices, OnceInvSufficesNext DEF OnceInv, DedupInv, Quiet
<1> DEFINE ms == {m \in Message : PhaseOf(m) = "taken" /\ PhaseOf(m)' = "aborted"}
<1>1. ASSUME NEW m \in Message, m \notin ms PROVE PhaseOf(m)' = PhaseOf(m)
  <2>1. CASE \E d \in Delivery : MessageOf[d] = m /\ gate[d] # "none"
    <3>1. PICK d \in Delivery : MessageOf[d] = m /\ gate[d] # "none"
      BY <2>1
    <3>2. PhaseOf(m) = Ending(pc[d]) /\ PhaseOf(m)' = Ending(pc'[d])
      BY <1>0, <3>1, PhaseWhenTaken, PhaseWhenTakenNext
    <3>3. /\ pc[d] \in {"done", "aborted"} => pc'[d] = pc[d]
          /\ pc'[d] = "done" => pc[d] = "done"
      BY <1>0, <3>1 DEF GateInv, Quiet
    <3> QED
      BY <1>1, <3>2, <3>3 DEF Ending
  <2>2. CASE \A d \in Delivery : MessageOf[d] = m => gate[d] = "none"
    BY <1>0, <2>2, PhaseWhenNot, PhaseWhenNotNext
  <2> QED
    BY <2>1, <2>2
<1>2. Once!Abort(ms)
  BY <1>1 DEF Once!Abort
<1> QED
  BY <1>2

LEMMA FinishImplementsOnce ==
  ASSUME OnceInv, OnceInv', NEW d \in Delivery, FinishRun(d)
  PROVE  Once!Finish(MessageOf[d])
<1>0. AtMostOnce /\ AtMostOnce' /\ GateInv /\ UNCHANGED gate
  BY OnceInvSuffices, OnceInvSufficesNext DEF OnceInv, DedupInv, FinishRun
<1> DEFINE m == MessageOf[d]
<1>1. pc[d] = "running" /\ gate[d] # "none" /\ gate'[d] # "none" /\ m \in Message
  BY <1>0, GatewayAssumption DEF FinishRun, GateInv, Accepted
<1>2. pc'[d] = "done" /\ \A e \in Delivery : e # d => pc'[e] = pc[e]
  BY DEF FinishRun, Goto, OnceInv, DedupInv, Placement, TypeOK
<1>3. PhaseOf(m) = "taken" /\ PhaseOf(m)' = "done"
  BY <1>0, <1>1, <1>2, PhaseWhenTaken, PhaseWhenTakenNext DEF Ending
<1>4. \A n \in Message : n # m => PhaseOf(n)' = PhaseOf(n)
  BY <1>0, <1>2, SamePhase
<1> QED
  BY <1>1, <1>3, <1>4 DEF Once!Finish

LEMMA DedupImplementsOnce ==
  ASSUME OnceInv, OnceInv', NEW d \in Delivery, Dedup(d)
  PROVE  \/ Once!Take(MessageOf[d])
         \/ \A n \in Message : PhaseOf(n)' = PhaseOf(n)
<1>0. /\ AtMostOnce /\ AtMostOnce' /\ GateInv /\ RedisMarked
      /\ pc \in [Delivery -> PC] /\ gate \in [Delivery -> {"none", "redis", "memory"}]
  BY OnceInvSuffices, OnceInvSufficesNext DEF OnceInv, DedupInv, Placement, TypeOK
<1> DEFINE m == MessageOf[d]
<1>1. pc[d] = "dedup" /\ gate[d] = "none" /\ m \in Message
  BY <1>0, GatewayAssumption DEF Dedup, GateInv, Accepted
<1>2. CASE Reject(d)
  <2>1. UNCHANGED gate /\ \A e \in Delivery : e # d => pc'[e] = pc[e]
    BY <1>0, <1>2 DEF Reject, Goto
  <2> QED
    BY <1>0, <1>1, <2>1, SamePhase
<1>3. CASE m \notin marked /\ Pass(d, "redis")
  <2>1. /\ pc'[d] = "prepare" /\ gate'[d] = "redis"
        /\ \A e \in Delivery : e # d => pc'[e] = pc[e] /\ gate'[e] = gate[e]
    BY <1>0, <1>3 DEF Pass, Goto
  <2>2. \A e \in Delivery : MessageOf[e] = m => gate[e] = "none"
    BY <1>0, <1>3 DEF OnceInv, RedisMarked
  <2>3. PhaseOf(m) = "waiting" /\ PhaseOf(m)' = "taken"
    BY <1>0, <2>1, <2>2, PhaseWhenNot, PhaseWhenTakenNext DEF Ending
  <2>4. ASSUME NEW n \in Message, n # m PROVE PhaseOf(n)' = PhaseOf(n)
    <3>1. CASE \E e \in Delivery : MessageOf[e] = n /\ gate[e] # "none"
      BY <1>0, <2>1, <2>4, <3>1, PhaseWhenTaken, PhaseWhenTakenNext
    <3>2. CASE \A e \in Delivery : MessageOf[e] = n => gate[e] = "none"
      BY <2>1, <2>4, <3>2, PhaseWhenNot, PhaseWhenNotNext
    <3> QED
      BY <3>1, <3>2
  <2> QED
    BY <1>1, <2>3, <2>4 DEF Once!Take
<1> QED
  BY <1>2, <1>3 DEF Dedup

\* As long as Redis answers, the gateway of any size implements MessageOnce:
\* a message is taken up once over all workers and copies, and ends once.
THEOREM GatewayImplementsMessageOnce ==
  ASSUME "outage" \notin Faults PROVE Spec => ImplementsMessageOnce
<1>1. Init => Once!Init
  BY PhaseWhenNot DEF Init, Once!Init
<1>2. OnceInv /\ OnceInv' /\ [Next]_vars =>
        [Once!Next]_([m \in Message |-> PhaseOf(m)])
  <2> SUFFICES ASSUME OnceInv, OnceInv', [Next]_vars
               PROVE  [Once!Next]_([m \in Message |-> PhaseOf(m)])
    OBVIOUS
  <2>1. Quiet \/ \E d \in Delivery : FinishRun(d) \/ Dedup(d) \/ DedupFallback(d)
    BY StepEffect DEF OnceInv, DedupInv
  <2>2. CASE Quiet
    BY <2>2, QuietImplementsOnce DEF Once!Next
  <2>3. ASSUME NEW d \in Delivery, FinishRun(d) PROVE Once!Next
    BY <2>3, FinishImplementsOnce, GatewayAssumption DEF Once!Next
  <2>4. ASSUME NEW d \in Delivery, Dedup(d)
        PROVE  [Once!Next]_([m \in Message |-> PhaseOf(m)])
    <3>1. CASE Once!Take(MessageOf[d])
      BY <3>1, GatewayAssumption DEF Once!Next
    <3>2. CASE \A n \in Message : PhaseOf(n)' = PhaseOf(n)
      BY <3>2
    <3> QED
      BY <2>4, <3>1, <3>2, DedupImplementsOnce
  <2>5. ASSUME NEW d \in Delivery, DedupFallback(d) PROVE FALSE
    BY <2>5 DEF DedupFallback, OnceInv
  <2> QED
    BY <2>1, <2>2, <2>3, <2>4, <2>5
<1> QED
  BY <1>1, <1>2, OnceCorrect, PTL DEF Spec, ImplementsMessageOnce, Once!Spec

(***************************************************************************)
(* Only workers that have been ready are addressed                         *)
(***************************************************************************)
\* Some key, some handler or some delivery names w.
Named(w) ==
    \/ \E s \in Session : affinity[s] = w
    \/ \E d \in Delivery : at[d] = w \/ owner[d] = w

NamedWasUp == \A w \in Worker : Named(w) => status[w] \in {"up", "dead"}

AddressInv == Placement /\ NamedWasUp /\ ForwardReachesReadyWorker

\* A worker is named because it was named before or because it is up.
NamesEffect == \A w \in Worker : Named(w)' => Named(w) \/ status[w] = "up"

LEMMA SameNames == ASSUME UNCHANGED <<affinity, at, owner>> PROVE NamesEffect
BY DEF NamesEffect, Named

LEMMA OldNames ==
  ASSUME TypeOK, AtInv,
         \A s \in Session : affinity'[s] \in {affinity[s], Nobody} \cup {at[e] : e \in Delivery},
         \A d \in Delivery : at'[d] \in {at[d]} \cup {owner[e] : e \in Delivery},
         \A d \in Delivery : owner'[d] \in {owner[d], Nobody} \cup {affinity[s] : s \in Session}
  PROVE  NamesEffect
<1>1. Nobody \notin Worker
  BY GatewayAssumption
<1> QED
  BY <1>1 DEF NamesEffect, Named

LEMMA HandlerNames ==
  ASSUME Placement, NEW d \in Delivery, HandlerStep(d) \/ RunStep(d)
  PROVE  NamesEffect
<1>0. /\ TypeOK /\ AtInv /\ Key(d) \in Session
      /\ affinity \in [Session -> Worker \cup {Nobody}]
      /\ at \in [Delivery -> Worker \cup {Nobody}]
      /\ owner \in [Delivery -> Worker \cup {Nobody}]
  BY KeyType DEF Placement, TypeOK
<1>1. CASE Resolve(d) \/ ReResolve(d)
  <2>1. UNCHANGED <<affinity, at>>
    BY <1>1 DEF Resolve, ReResolve, redis
  <2>2. owner' = owner \/ owner' = [owner EXCEPT ![d] = affinity[Key(d)]]
    BY <1>1 DEF Resolve, ReResolve, ForwardTo
  <2>3. \A e \in Delivery : owner'[e] \in {owner[e]} \cup {affinity[Key(d)]}
    BY <1>0, <2>2
  <2> QED
    BY <1>0, <2>1, <2>3, OldNames
<1>2. CASE Renew(d) \/ RenewLoop(d)
  <2>1. UNCHANGED <<affinity, at, owner>>
    BY <1>2 DEF Renew, RenewLoop, Refresh
  <2> QED
    BY <2>1, SameNames
<1>3. CASE Claim(d) \/ ForceClaim(d) \/ RouteError(d)
  <2>1. UNCHANGED at
    BY <1>3 DEF Claim, ForceClaim, RouteError
  <2>2. affinity' = affinity \/ affinity' = [affinity EXCEPT ![Key(d)] = at[d]]
    BY <1>3 DEF Claim, ForceClaim, RouteError, SetOwner, Refresh
  <2>3. \A s \in Session : affinity'[s] \in {affinity[s], at[d]}
    BY <1>0, <2>2
  <2>4. owner' = owner \/ owner' = [owner EXCEPT ![d] = Nobody]
    BY <1>3 DEF Claim, ForceClaim, RouteError, Forget
  <2>5. \A e \in Delivery : owner'[e] \in {owner[e], Nobody}
    BY <1>0, <2>4
  <2> QED
    BY <1>0, <2>1, <2>3, <2>5, OldNames
<1>4. ASSUME NEW e \in Delivery, Forward(d) \/ PublishReplyLost(d, e) PROVE NamesEffect
  <2>1. UNCHANGED affinity
    BY <1>4 DEF Forward, PublishReplyLost, redis
  <2>2. \/ at' = at
        \/ at' = [at EXCEPT ![d] = owner[d]]
        \/ at' = [at EXCEPT ![e] = owner[d]]
    BY <1>4 DEF Forward, PublishReplyLost, Publish
  <2>3. \A f \in Delivery : at'[f] \in {at[f], owner[d]}
    BY <1>0, <2>2
  <2>4. owner' = [owner EXCEPT ![d] = Nobody]
    BY <1>4 DEF Forward, PublishReplyLost, Forget
  <2>5. \A f \in Delivery : owner'[f] \in {owner[f], Nobody}
    BY <1>0, <2>4
  <2> QED
    BY <1>0, <2>1, <2>3, <2>5, OldNames
<1>5. CASE \/ Dedup(d) \/ DedupFallback(d) \/ Enqueue(d) \/ PrepareError(d)
           \/ StartRun(d) \/ FinishRun(d)
  <2>1. UNCHANGED <<affinity, at, owner>>
    BY <1>5 DEF Dedup, DedupFallback, Enqueue, PrepareError, StartRun, FinishRun, redis
  <2> QED
    BY <2>1, SameNames
<1> QED
  BY <1>1, <1>2, <1>3, <1>4, <1>5 DEF HandlerStep, RunStep

LEMMA NextNames == ASSUME Placement, [Next]_vars PROVE NamesEffect
<1>0. /\ TypeOK /\ AtInv
      /\ affinity \in [Session -> Worker \cup {Nobody}]
      /\ at \in [Delivery -> Worker \cup {Nobody}]
      /\ owner \in [Delivery -> Worker \cup {Nobody}]
  BY DEF Placement, TypeOK
<1>1. ASSUME NEW w \in Worker, Crash(w) PROVE NamesEffect
  <2>1. UNCHANGED <<affinity, at>>
    BY <1>1 DEF Crash, redis
  <2>2. \A d \in Delivery : owner'[d] \in {owner[d], Nobody}
    BY <1>1 DEF Crash
  <2> QED
    BY <1>0, <2>1, <2>2, OldNames
<1>2. ASSUME NEW w \in Worker,
             \/ Boot(w) \/ Subscribe(w) \/ Ready(w) \/ DropConnection(w)
             \/ LoseSubscription(w) \/ Consume(w)
      PROVE  NamesEffect
  <2>1. UNCHANGED <<affinity, at, owner>>
    BY <1>2 DEF Boot, Subscribe, Ready, DropConnection, LoseSubscription, Consume,
                redis, handler
  <2> QED
    BY <2>1, SameNames
<1>3. CASE RedisFails \/ RedisRecovers \/ UNCHANGED vars
  <2>1. UNCHANGED <<affinity, at, owner>>
    BY <1>3 DEF RedisFails, RedisRecovers, vars, redis, handler
  <2> QED
    BY <2>1, SameNames
<1>4. CASE Tick
  <2>1. UNCHANGED <<at, owner>> /\ \A s \in Session : affinity'[s] \in {affinity[s], Nobody}
    BY <1>4 DEF Tick
  <2> QED
    BY <1>0, <2>1, OldNames
<1>5. ASSUME NEW d \in Delivery, NEW w \in Worker, Arrive(d, w) PROVE NamesEffect
  <2>1. UNCHANGED <<affinity, owner>> /\ status[w] = "up"
    BY <1>5 DEF Arrive, redis
  <2>2. \A e \in Delivery : at'[e] \in {at[e], w}
    BY <1>0, <1>5 DEF Arrive
  <2> QED
    BY <2>1, <2>2 DEF NamesEffect, Named
<1> QED
  BY <1>1, <1>2, <1>3, <1>4, <1>5, HandlerNames DEF Next

\* What a step does to a worker's life cycle and to its inbox.
LifeEffect(w) ==
    /\ status[w] \in {"up", "dead"} => status'[w] \in {"up", "dead"}
    /\ inbox'[w] # <<>> =>
          \/ inbox[w] # <<>> /\ (status[w] = "up" => status'[w] = "up")
          \/ Named(w) /\ status[w] # "dead" /\ status'[w] = status[w]

LEMMA HandlerLife ==
  ASSUME Placement, NEW d \in Delivery, HandlerStep(d) \/ RunStep(d), NEW w \in Worker
  PROVE  LifeEffect(w)
<1>0. inbox \in [Worker -> Seq(Delivery)]
  BY DEF Placement, TypeOK
<1>1. UNCHANGED status
  BY DEF HandlerStep, RunStep, Resolve, Renew, Claim, ReResolve, Forward, ForceClaim,
         RouteError, Dedup, DedupFallback, Enqueue, PrepareError, PublishReplyLost,
         StartRun, RenewLoop, FinishRun, process
<1>2. CASE UNCHANGED inbox
  BY <1>1, <1>2 DEF LifeEffect
<1>3. ASSUME NEW e \in Delivery, inbox' = [inbox EXCEPT ![owner[d]] = Append(@, e)],
             Receives(owner[d])
      PROVE  LifeEffect(w)
  <2>1. CASE owner[d] = w
    BY <1>1, <1>3, <2>1 DEF LifeEffect, Named, Receives
  <2>2. CASE owner[d] # w
    <3>1. inbox'[w] = inbox[w]
      BY <1>0, <1>3, <2>2
    <3> QED
      BY <1>1, <3>1 DEF LifeEffect
  <2> QED
    BY <2>1, <2>2
<1>4. CASE Forward(d)
  BY <1>2, <1>3, <1>4 DEF Forward, Publish
<1>5. ASSUME NEW e \in Delivery, PublishReplyLost(d, e) PROVE LifeEffect(w)
  BY <1>3, <1>5 DEF PublishReplyLost
<1>6. CASE \/ Resolve(d) \/ Renew(d) \/ Claim(d) \/ ReResolve(d) \/ ForceClaim(d)
           \/ RouteError(d) \/ Dedup(d) \/ DedupFallback(d) \/ Enqueue(d)
           \/ PrepareError(d) \/ RunStep(d)
  <2>1. UNCHANGED inbox
    BY <1>6 DEF RunStep, Resolve, Renew, Claim, ReResolve, ForceClaim, RouteError, Dedup,
                DedupFallback, Enqueue, PrepareError, StartRun, RenewLoop, FinishRun, process
  <2> QED
    BY <1>2, <2>1
<1> QED
  BY <1>4, <1>5, <1>6 DEF HandlerStep

LEMMA NextLife ==
  ASSUME Placement, [Next]_vars, NEW w \in Worker PROVE LifeEffect(w)
<1>0. /\ status \in [Worker -> {"off", "booting", "up", "dead"}]
      /\ inbox \in [Worker -> Seq(Delivery)]
  BY DEF Placement, TypeOK
<1>a. ASSUME UNCHANGED <<status, inbox>> PROVE LifeEffect(w)
  BY <1>a DEF LifeEffect
<1>1. ASSUME NEW v \in Worker, Boot(v) \/ Ready(v) PROVE LifeEffect(w)
  <2>1. /\ status[v] \in {"off", "booting"}
        /\ \A u \in Worker : u # v => status'[u] = status[u]
        /\ UNCHANGED inbox
    BY <1>0, <1>1 DEF Boot, Ready
  <2> QED
    BY <2>1 DEF LifeEffect
<1>2. ASSUME NEW v \in Worker, Crash(v) PROVE LifeEffect(w)
  <2>1. /\ status'[v] = "dead" /\ inbox'[v] = <<>>
        /\ \A u \in Worker : u # v => status'[u] = status[u] /\ inbox'[u] = inbox[u]
    BY <1>0, <1>2 DEF Crash
  <2> QED
    BY <2>1 DEF LifeEffect
<1>3. ASSUME NEW v \in Worker, LoseSubscription(v) \/ Consume(v) PROVE LifeEffect(w)
  <2>1. /\ UNCHANGED status
        /\ \A u \in Worker : u # v => inbox'[u] = inbox[u]
        /\ inbox'[v] # <<>> => inbox[v] # <<>>
    BY <1>0, <1>3 DEF LoseSubscription, Consume
  <2> QED
    BY <2>1 DEF LifeEffect
<1>4. ASSUME NEW v \in Worker, Subscribe(v) \/ DropConnection(v) PROVE LifeEffect(w)
  BY <1>4, <1>a DEF Subscribe, DropConnection
<1>5. CASE RedisFails \/ RedisRecovers \/ Tick \/ UNCHANGED vars
  BY <1>5, <1>a DEF RedisFails, RedisRecovers, Tick, vars, process
<1>6. ASSUME NEW d \in Delivery, NEW v \in Worker, Arrive(d, v) PROVE LifeEffect(w)
  BY <1>6, <1>a DEF Arrive, process
<1> QED
  BY <1>1, <1>2, <1>3, <1>4, <1>5, <1>6, HandlerLife DEF Next

LEMMA NextKeepsAddressInv ==
  ASSUME AddressInv, Placement', [Next]_vars PROVE AddressInv'
<1> USE DEF AddressInv
<1>0. /\ status \in [Worker -> {"off", "booting", "up", "dead"}]
      /\ \A w \in Worker : LifeEffect(w)
      /\ NamesEffect
  BY NextLife, NextNames DEF Placement, TypeOK
<1>1. NamedWasUp'
  BY <1>0 DEF NamedWasUp, NamesEffect, LifeEffect
<1>2. ForwardReachesReadyWorker'
  <2> SUFFICES ASSUME NEW w \in Worker, inbox'[w] # <<>> PROVE status'[w] = "up"
    BY DEF ForwardReachesReadyWorker
  <2>1. CASE inbox[w] # <<>> /\ (status[w] = "up" => status'[w] = "up")
    BY <2>1 DEF ForwardReachesReadyWorker
  <2>2. CASE Named(w) /\ status[w] # "dead" /\ status'[w] = status[w]
    BY <2>2 DEF NamedWasUp
  <2> QED
    BY <1>0, <2>1, <2>2 DEF LifeEffect
<1> QED
  BY <1>1, <1>2

\* Whoever is named by a key, or was read from one, was ready at some time: no
\* worker claims before it is (AffinityRegistry.claim, force_claim).
THEOREM AddressCorrect == Spec => []AddressInv
<1>1. Init /\ Placement => AddressInv
  BY GatewayAssumption DEF Init, AddressInv, NamedWasUp, Named, ForwardReachesReadyWorker
<1>2. AddressInv /\ Placement' /\ [Next]_vars => AddressInv'
  BY NextKeepsAddressInv
<1> QED
  BY <1>1, <1>2, PlacementCorrect, PTL DEF Spec

\* No event is published to a worker that is still booting, whatever crashes,
\* lost subscriptions, outages and force-claims came before: only a worker that
\* was ready is ever named by a key (_dispatch_forwarded_event finds its context).
THEOREM ForwardedToReadyWorkers == Spec => []ForwardReachesReadyWorker
<1>1. AddressInv => ForwardReachesReadyWorker
  BY DEF AddressInv
<1> QED
  BY <1>1, AddressCorrect, PTL

(***************************************************************************)
(* A session's queue at a worker                                           *)
(***************************************************************************)
Waits(d) == \E i \in 1..Len(queue[at[d]][Key(d)]) : queue[at[d]][Key(d)][i] = d

InLine(w, s) ==
    \A i \in 1..Len(queue[w][s]) :
        /\ pc[queue[w][s][i]] = "queued"
        /\ at[queue[w][s][i]] = w
        /\ Key(queue[w][s][i]) = s
        /\ \A j \in 1..Len(queue[w][s]) : queue[w][s][i] = queue[w][s][j] => i = j

OneRun ==
    \A d, e \in Delivery :
        pc[d] = "running" /\ pc[e] = "running" /\ at[d] = at[e] /\ Key(d) = Key(e) => d = e

QueueInv ==
    /\ \A w \in Worker, s \in Session : InLine(w, s)
    /\ \A d \in Delivery : pc[d] = "queued" => Waits(d)
    /\ OneRun

\* Steps that put nothing on a queue and take nothing off it.
QueueQuiet ==
    /\ UNCHANGED queue
    /\ \A d \in Delivery :
          /\ pc'[d] = "queued" <=> pc[d] = "queued"
          /\ pc'[d] = "running" => pc[d] = "running"
          /\ pc'[d] \in {"queued", "running"} => at'[d] = at[d]

LEMMA QuietKeepsQueueInv ==
  ASSUME TypeOK, QueueInv, QueueQuiet PROVE QueueInv'
<1>0. \A w \in Worker, s \in Session : \A i \in 1..Len(queue[w][s]) : queue[w][s][i] \in Delivery
  BY DEF TypeOK
<1>1. ASSUME NEW w \in Worker, NEW s \in Session PROVE InLine(w, s)'
  <2>1. InLine(w, s)
    BY DEF QueueInv
  <2> QED
    BY <1>0, <2>1 DEF InLine, QueueQuiet, Key
<1>2. ASSUME NEW d \in Delivery, pc'[d] = "queued" PROVE Waits(d)'
  <2>1. Waits(d) /\ at'[d] = at[d] /\ UNCHANGED queue
    BY <1>2 DEF QueueInv, QueueQuiet
  <2> QED
    BY <2>1 DEF Waits, Key
<1>3. OneRun'
  BY DEF OneRun, QueueInv, QueueQuiet, Key
<1> QED
  BY <1>1, <1>2, <1>3 DEF QueueInv

LEMMA OneMoveOffQueue ==
  ASSUME pc \in [Delivery -> PC], UNCHANGED queue,
         NEW d \in Delivery, NEW step \in PC, Goto(d, step),
         pc[d] # "queued", step \notin {"queued", "running"},
         \A e \in Delivery : e # d => at'[e] = at[e]
  PROVE  QueueQuiet
BY DEF Goto, QueueQuiet

LEMMA EnqueueKeepsQueueInv ==
  ASSUME Placement, QueueInv, NEW d \in Delivery, Enqueue(d) PROVE QueueInv'
<1> DEFINE w == at[d]
           s == Key(d)
           q == queue[w][s]
<1>0. /\ pc \in [Delivery -> PC]
      /\ queue \in [Worker -> [Session -> Seq(Delivery)]]
      /\ w \in Worker /\ s \in Session
      /\ \A v \in Worker, t \in Session : queue[v][t] \in Seq(Delivery)
  BY KeyType DEF Placement, TypeOK, AtInv, Enqueue
<1>1. /\ pc[d] = "prepare" /\ pc'[d] = "queued"
      /\ \A e \in Delivery : e # d => pc'[e] = pc[e]
      /\ UNCHANGED at
  BY <1>0 DEF Enqueue, Goto
<1>2. /\ queue'[w][s] = Append(q, d)
      /\ \A v \in Worker, t \in Session : v # w \/ t # s => queue'[v][t] = queue[v][t]
  BY <1>0 DEF Enqueue
<1>3. /\ Len(queue'[w][s]) = Len(q) + 1
      /\ \A i \in 1..Len(q) : queue'[w][s][i] = q[i]
      /\ queue'[w][s][Len(q) + 1] = d
      /\ Len(q) \in Nat
  BY <1>0, <1>2
<1>4. \A v \in Worker, t \in Session : \A i \in 1..Len(queue[v][t]) :
         queue[v][t][i] \in Delivery /\ queue[v][t][i] # d
  BY <1>0, <1>1 DEF QueueInv, InLine
<1>5. ASSUME NEW v \in Worker, NEW t \in Session PROVE InLine(v, t)'
  <2>0. InLine(v, t)
    BY DEF QueueInv
  <2>1. CASE v # w \/ t # s
    <3>1. queue'[v][t] = queue[v][t]
      BY <1>2, <2>1
    <3> QED
      BY <1>1, <1>4, <2>0, <3>1 DEF InLine, Key
  <2>2. CASE v = w /\ t = s
    <3>1. ASSUME NEW i \in 1..Len(queue'[w][s])
          PROVE  /\ pc'[queue'[w][s][i]] = "queued"
                 /\ at'[queue'[w][s][i]] = w
                 /\ Key(queue'[w][s][i]) = s
                 /\ \A j \in 1..Len(queue'[w][s]) : queue'[w][s][i] = queue'[w][s][j] => i = j
      <4>0. i \in 1..Len(q) \/ i = Len(q) + 1
        BY <1>3
      <4>1. CASE i \in 1..Len(q)
        <5>1. /\ queue'[w][s][i] = q[i] /\ q[i] \in Delivery /\ q[i] # d
              /\ pc[q[i]] = "queued" /\ at[q[i]] = w /\ Key(q[i]) = s
          BY <1>3, <1>4, <2>0, <2>2, <4>1 DEF InLine
        <5>2. ASSUME NEW j \in 1..Len(queue'[w][s]), q[i] = queue'[w][s][j] PROVE i = j
          <6>0. j # Len(q) + 1
            BY <1>3, <5>1, <5>2
          <6>1. j \in 1..Len(q) /\ queue'[w][s][j] = q[j]
            BY <1>3, <6>0
          <6> QED
            BY <2>0, <2>2, <4>1, <5>2, <6>1 DEF InLine
        <5> QED
          BY <1>1, <5>1, <5>2
      <4>2. CASE i = Len(q) + 1
        <5>1. queue'[w][s][i] = d
          BY <1>3, <4>2
        <5>2. ASSUME NEW j \in 1..Len(queue'[w][s]), d = queue'[w][s][j] PROVE i = j
          <6>1. j \notin 1..Len(q)
            BY <1>0, <1>3, <1>4, <5>2
          <6> QED
            BY <1>3, <4>2, <6>1
        <5> QED
          BY <1>1, <5>1, <5>2
      <4> QED
        BY <4>0, <4>1, <4>2
    <3> QED
      BY <2>2, <3>1 DEF InLine, Key
  <2> QED
    BY <2>1, <2>2
<1>6. ASSUME NEW e \in Delivery, pc'[e] = "queued" PROVE Waits(e)'
  <2>1. CASE e = d
    <3>1. Len(q) + 1 \in 1..Len(queue'[w][s])
      BY <1>3
    <3> QED
      BY <1>1, <1>3, <2>1, <3>1 DEF Waits, Key
  <2>2. CASE e # d
    <3>1. PICK i \in 1..Len(queue[at[e]][Key(e)]) : queue[at[e]][Key(e)][i] = e
      BY <1>1, <1>6, <2>2 DEF QueueInv, Waits
    <3>2. at[e] \in Worker /\ Key(e) \in Session
      BY <1>1, <1>6, <2>2, KeyType DEF Placement, AtInv
    <3>3. i \in 1..Len(queue'[at[e]][Key(e)]) /\ queue'[at[e]][Key(e)][i] = e
      <4>1. CASE at[e] = w /\ Key(e) = s
        BY <1>3, <3>1, <4>1
      <4>2. CASE at[e] # w \/ Key(e) # s
        BY <1>2, <3>1, <3>2, <4>2
      <4> QED
        BY <4>1, <4>2
    <3> QED
      BY <1>1, <3>3 DEF Waits, Key
  <2> QED
    BY <2>1, <2>2
<1>7. OneRun'
  BY <1>1 DEF OneRun, QueueInv, Key
<1> QED
  BY <1>5, <1>6, <1>7 DEF QueueInv

LEMMA StartKeepsQueueInv ==
  ASSUME Placement, QueueInv, NEW d \in Delivery, StartRun(d) PROVE QueueInv'
<1> DEFINE w == at[d]
           s == Key(d)
           q == queue[w][s]
<1>0. /\ pc \in [Delivery -> PC]
      /\ queue \in [Worker -> [Session -> Seq(Delivery)]]
      /\ w \in Worker /\ s \in Session
      /\ \A v \in Worker, t \in Session : queue[v][t] \in Seq(Delivery)
  BY KeyType DEF Placement, TypeOK, AtInv, StartRun, CanStart
<1>1. /\ pc[d] = "queued" /\ pc'[d] = "running"
      /\ \A e \in Delivery : e # d => pc'[e] = pc[e]
      /\ UNCHANGED at
  BY <1>0 DEF StartRun, CanStart, Goto
<1>2. /\ q # <<>> /\ Head(q) = d
      /\ \A e \in Delivery : pc[e] = "running" /\ at[e] = w => Key(e) # s
  BY DEF StartRun, CanStart
<1>3. /\ queue'[w][s] = Tail(q)
      /\ \A v \in Worker, t \in Session : v # w \/ t # s => queue'[v][t] = queue[v][t]
  BY <1>0 DEF StartRun
<1>4. /\ Len(q) \in Nat /\ Len(q) > 0 /\ q[1] = d
      /\ Len(queue'[w][s]) = Len(q) - 1
      /\ \A i \in 1..(Len(q) - 1) : queue'[w][s][i] = q[i + 1]
  BY <1>0, <1>2, <1>3
<1>5. /\ \A v \in Worker, t \in Session : \A i \in 1..Len(queue[v][t]) :
            queue[v][t][i] \in Delivery /\ (v # w \/ t # s => queue[v][t][i] # d)
      /\ \A i \in 1..Len(q) : q[i] = d => i = 1
  <2>1. \A v \in Worker, t \in Session : InLine(v, t)
    BY DEF QueueInv
  <2>2. ASSUME NEW i \in 1..Len(q), q[i] = d PROVE i = 1
    <3>1. 1 \in 1..Len(q) /\ q[i] = q[1]
      BY <1>4, <2>2
    <3> QED
      BY <1>0, <2>1, <3>1 DEF InLine
  <2> QED
    BY <1>0, <2>1, <2>2 DEF InLine
<1>6. ASSUME NEW v \in Worker, NEW t \in Session PROVE InLine(v, t)'
  <2>0. InLine(v, t)
    BY DEF QueueInv
  <2>1. CASE v # w \/ t # s
    <3>1. queue'[v][t] = queue[v][t]
      BY <1>3, <2>1
    <3> QED
      BY <1>1, <1>5, <2>0, <2>1, <3>1 DEF InLine, Key
  <2>2. CASE v = w /\ t = s
    <3>1. ASSUME NEW i \in 1..(Len(q) - 1)
          PROVE  /\ pc'[queue'[w][s][i]] = "queued"
                 /\ at'[queue'[w][s][i]] = w
                 /\ Key(queue'[w][s][i]) = s
                 /\ \A j \in 1..(Len(q) - 1) : queue'[w][s][i] = queue'[w][s][j] => i = j
      <4>1. i + 1 \in 1..Len(q) /\ i + 1 # 1 /\ queue'[w][s][i] = q[i + 1]
        BY <1>4
      <4>2. q[i + 1] # d /\ q[i + 1] \in Delivery
        BY <1>0, <1>5, <4>1
      <4>3. pc[q[i + 1]] = "queued" /\ at[q[i + 1]] = w /\ Key(q[i + 1]) = s
        BY <2>0, <2>2, <4>1 DEF InLine
      <4>4. ASSUME NEW j \in 1..(Len(q) - 1), queue'[w][s][i] = queue'[w][s][j]
            PROVE  i = j
        <5>0. j + 1 \in 1..Len(q) /\ queue'[w][s][j] = q[j + 1]
          BY <1>4
        <5>1. j + 1 \in 1..Len(q) /\ q[i + 1] = q[j + 1]
          BY <4>1, <4>4, <5>0
        <5>2. i + 1 = j + 1
          BY <2>0, <2>2, <4>1, <5>1 DEF InLine
        <5> QED
          BY <5>2
      <4> QED
        BY <1>1, <4>1, <4>2, <4>3, <4>4
    <3>2. Len(queue'[w][s]) = Len(q) - 1
      BY <1>4
    <3> QED
      BY <2>2, <3>1, <3>2 DEF InLine, Key
  <2> QED
    BY <2>1, <2>2
<1>7. ASSUME NEW e \in Delivery, pc'[e] = "queued" PROVE Waits(e)'
  <2>1. e # d /\ pc[e] = "queued"
    BY <1>1, <1>7
  <2>2. PICK i \in 1..Len(queue[at[e]][Key(e)]) : queue[at[e]][Key(e)][i] = e
    BY <2>1 DEF QueueInv, Waits
  <2>3. at[e] \in Worker /\ Key(e) \in Session
    BY <2>1, KeyType DEF Placement, AtInv
  <2>4. \E k \in 1..Len(queue'[at[e]][Key(e)]) : queue'[at[e]][Key(e)][k] = e
    <3>1. CASE at[e] = w /\ Key(e) = s
      <4>1. i \in 1..Len(q) /\ q[i] = e /\ i # 1
        BY <1>4, <2>1, <2>2, <3>1
      <4>2. i - 1 \in 1..(Len(q) - 1) /\ queue'[w][s][i - 1] = q[(i - 1) + 1]
        BY <1>4, <4>1
      <4>3. (i - 1) + 1 = i
        BY <1>4, <4>1
      <4> QED
        BY <1>4, <3>1, <4>1, <4>2, <4>3
    <3>2. CASE at[e] # w \/ Key(e) # s
      BY <1>3, <2>2, <2>3, <3>2
    <3> QED
      BY <3>1, <3>2
  <2> QED
    BY <1>1, <2>4 DEF Waits, Key
<1>8. OneRun'
  <2> SUFFICES ASSUME NEW e \in Delivery, NEW f \in Delivery,
                      pc'[e] = "running", pc'[f] = "running", at[e] = at[f], Key(e) = Key(f)
               PROVE  e = f
    BY <1>1 DEF OneRun, Key
  <2> QED
    BY <1>1, <1>2 DEF QueueInv, OneRun
<1> QED
  BY <1>6, <1>7, <1>8 DEF QueueInv

LEMMA CrashKeepsQueueInv ==
  ASSUME Placement, QueueInv, NEW w \in Worker, Crash(w) PROVE QueueInv'
<1>0. /\ pc \in [Delivery -> PC]
      /\ queue \in [Worker -> [Session -> Seq(Delivery)]]
      /\ \A v \in Worker, t \in Session : \A i \in 1..Len(queue[v][t]) :
            queue[v][t][i] \in Delivery
  BY DEF Placement, TypeOK
<1>1. /\ UNCHANGED at
      /\ \A t \in Session : queue'[w][t] = <<>>
      /\ \A v \in Worker : v # w => queue'[v] = queue[v]
  BY <1>0 DEF Crash
<1>2. \A d \in Delivery :
         pc'[d] = IF at[d] = w /\ pc[d] \notin Terminal THEN Killed(pc[d]) ELSE pc[d]
  BY DEF Crash
<1>3. \A d \in Delivery :
         /\ at[d] # w => pc'[d] = pc[d]
         /\ at[d] = w => pc'[d] \notin {"queued", "running"}
  BY <1>2 DEF Killed, Terminal
<1>4. ASSUME NEW v \in Worker, NEW t \in Session PROVE InLine(v, t)'
  <2>1. CASE v = w
    BY <1>1, <2>1 DEF InLine
  <2>2. CASE v # w
    <3>1. InLine(v, t) /\ queue'[v][t] = queue[v][t]
      BY <1>1, <2>2 DEF QueueInv
    <3>2. \A i \in 1..Len(queue[v][t]) :
             /\ pc'[queue[v][t][i]] = "queued"
             /\ at[queue[v][t][i]] = v
             /\ Key(queue[v][t][i]) = t
             /\ \A j \in 1..Len(queue[v][t]) : queue[v][t][i] = queue[v][t][j] => i = j
      BY <1>0, <1>3, <2>2, <3>1 DEF InLine
    <3>3. queue'[v][t] = queue[v][t] /\ at' = at
      BY <1>1, <3>1
    <3> QED
      BY <3>2, <3>3 DEF InLine, Key
  <2> QED
    BY <2>1, <2>2
<1>5. ASSUME NEW d \in Delivery, pc'[d] = "queued" PROVE Waits(d)'
  <2>1. at[d] # w /\ pc[d] = "queued" /\ at[d] \in Worker
    BY <1>3, <1>5 DEF Placement, AtInv
  <2>2. Waits(d) /\ queue'[at[d]] = queue[at[d]] /\ at'[d] = at[d]
    BY <1>1, <2>1 DEF QueueInv
  <2> QED
    BY <2>2 DEF Waits, Key
<1>6. OneRun'
  BY <1>1, <1>3 DEF OneRun, QueueInv, Key
<1> QED
  BY <1>4, <1>5, <1>6 DEF QueueInv

LEMMA HandlerKeepsQueueInv ==
  ASSUME Placement, QueueInv, NEW d \in Delivery, HandlerStep(d) \/ RunStep(d)
  PROVE  QueueInv'
<1>0. TypeOK /\ pc \in [Delivery -> PC] /\ at \in [Delivery -> Worker \cup {Nobody}]
  BY DEF Placement, TypeOK
<1>1. CASE Resolve(d) \/ ReResolve(d) \/ Renew(d) \/ Claim(d) \/ ForceClaim(d) \/ RouteError(d)
           \/ Dedup(d) \/ DedupFallback(d) \/ PrepareError(d) \/ FinishRun(d)
  <2>1. UNCHANGED <<queue, at>> /\ pc[d] # "queued"
    BY <1>1 DEF Resolve, ReResolve, Renew, Claim, ForceClaim, RouteError, RouteCalls, Dedup,
                DedupFallback, PrepareError, FinishRun, process
  <2>2. \E step \in {"renew", "claim", "forward", "dedup", "reresolve", "unrouted",
                     "prepare", "duplicate", "aborted", "done"} : Goto(d, step)
    BY <1>1 DEF Resolve, ReResolve, Renew, Claim, ForceClaim, RouteError, ForwardTo, Outcome,
                Dedup, DedupFallback, Pass, Reject, PrepareError, FinishRun
  <2>3. \A step \in {"renew", "claim", "forward", "dedup", "reresolve", "unrouted",
                     "prepare", "duplicate", "aborted", "done"} :
           step \in PC /\ step \notin {"queued", "running"}
    BY DEF PC, InHandler, RouteCalls, Terminal
  <2> QED
    BY <1>0, <2>1, <2>2, <2>3, OneMoveOffQueue, QuietKeepsQueueInv
<1>2. CASE Forward(d)
  <2>1. UNCHANGED queue /\ pc[d] # "queued"
    BY <1>2 DEF Forward
  <2>2. \E step \in {"inbox", "lost", "force"} : Goto(d, step)
    BY <1>2 DEF Forward, Publish
  <2>3. \A e \in Delivery : e # d => at'[e] = at[e]
    BY <1>0, <1>2 DEF Forward, Publish
  <2>4. \A step \in {"inbox", "lost", "force"} : step \in PC /\ step \notin {"queued", "running"}
    BY DEF PC, InHandler, RouteCalls, Terminal
  <2> QED
    BY <1>0, <2>1, <2>2, <2>3, <2>4, OneMoveOffQueue, QuietKeepsQueueInv
<1>3. ASSUME NEW e \in Delivery, PublishReplyLost(d, e) PROVE QueueInv'
  <2>1. UNCHANGED queue /\ pc[d] = "forward" /\ pc[e] = "unsent"
    BY <1>3 DEF PublishReplyLost
  <2>2. PICK step \in {"dedup", "unrouted"} :
             pc' = [pc EXCEPT ![d] = step, ![e] = "inbox"]
    BY <1>3 DEF PublishReplyLost, Outcome
  <2>3. pc'[e] = "inbox" /\ pc'[d] = step /\ \A f \in Delivery \ {d, e} : pc'[f] = pc[f]
    BY <1>0, <2>1, <2>2
  <2>4. \A f \in Delivery : f # e => at'[f] = at[f]
    BY <1>0, <1>3 DEF PublishReplyLost
  <2>5. QueueQuiet
    BY <2>1, <2>3, <2>4 DEF QueueQuiet
  <2> QED
    BY <1>0, <2>5, QuietKeepsQueueInv
<1>4. CASE RenewLoop(d)
  <2>1. UNCHANGED <<queue, pc, at>>
    BY <1>4 DEF RenewLoop, process
  <2> QED
    BY <1>0, <2>1, QuietKeepsQueueInv DEF QueueQuiet
<1> QED
  BY <1>1, <1>2, <1>3, <1>4, EnqueueKeepsQueueInv, StartKeepsQueueInv DEF HandlerStep, RunStep

LEMMA NextKeepsQueueInv ==
  ASSUME Placement, QueueInv, [Next]_vars PROVE QueueInv'
<1>0. /\ TypeOK /\ pc \in [Delivery -> PC] /\ at \in [Delivery -> Worker \cup {Nobody}]
      /\ inbox \in [Worker -> Seq(Delivery)]
  BY DEF Placement, TypeOK
<1>1. ASSUME NEW w \in Worker, LoseSubscription(w) PROVE QueueInv'
  <2>1. /\ UNCHANGED <<queue, at>>
        /\ \A d \in Delivery :
              pc'[d] = IF at[d] = w /\ pc[d] = "inbox" THEN "lost" ELSE pc[d]
    BY <1>1 DEF LoseSubscription
  <2>2. QueueQuiet
    BY <2>1 DEF QueueQuiet
  <2> QED
    BY <1>0, <2>2, QuietKeepsQueueInv
<1>2. ASSUME NEW w \in Worker, Consume(w) PROVE QueueInv'
  <2>1. UNCHANGED <<queue, at>>
    BY <1>2 DEF Consume
  <2>2. Head(inbox[w]) \in Delivery /\ pc[Head(inbox[w])] = "inbox"
    <3>1. inbox[w] # <<>> /\ 1 \in 1..Len(inbox[w]) /\ Head(inbox[w]) = inbox[w][1]
      BY <1>0, <1>2 DEF Consume
    <3> QED
      BY <1>0, <3>1 DEF Placement, InboxInv
  <2>3. \E step \in {"resolve", "lost"} : Goto(Head(inbox[w]), step)
    BY <1>2 DEF Consume
  <2>4. {"resolve", "lost"} \subseteq PC
    BY DEF PC, InHandler, RouteCalls, Terminal
  <2> QED
    BY <1>0, <2>1, <2>2, <2>3, <2>4, OneMoveOffQueue, QuietKeepsQueueInv
<1>3. ASSUME NEW d \in Delivery, NEW w \in Worker, Arrive(d, w) PROVE QueueInv'
  <2>1. UNCHANGED queue /\ pc[d] = "unsent" /\ Goto(d, "resolve")
    BY <1>3 DEF Arrive, process
  <2>2. \A e \in Delivery : e # d => at'[e] = at[e]
    BY <1>0, <1>3 DEF Arrive
  <2>3. "resolve" \in PC
    BY DEF PC, InHandler, RouteCalls
  <2> QED
    BY <1>0, <2>1, <2>2, <2>3, OneMoveOffQueue, QuietKeepsQueueInv
<1>4. ASSUME NEW w \in Worker,
             Boot(w) \/ Subscribe(w) \/ Ready(w) \/ DropConnection(w)
      PROVE  QueueInv'
  <2>1. UNCHANGED <<queue, pc, at>>
    BY <1>4 DEF Boot, Subscribe, Ready, DropConnection, handler
  <2> QED
    BY <1>0, <2>1, QuietKeepsQueueInv DEF QueueQuiet
<1>5. CASE RedisFails \/ RedisRecovers \/ Tick \/ UNCHANGED vars
  <2>1. UNCHANGED <<queue, pc, at>>
    BY <1>5 DEF RedisFails, RedisRecovers, Tick, process, handler, vars
  <2> QED
    BY <1>0, <2>1, QuietKeepsQueueInv DEF QueueQuiet
<1> QED
  BY <1>1, <1>2, <1>3, <1>4, <1>5, CrashKeepsQueueInv, HandlerKeepsQueueInv DEF Next

(***************************************************************************)
(* Until something fails, a worker keeps the keys of its sessions          *)
(***************************************************************************)
Calm ==
    /\ redisUp
    /\ \A w \in Worker : status[w] # "dead" /\ (status[w] = "up" => subscribed[w])
    /\ \A d \in Delivery : pc[d] # "force"

\* What a handler has just read in Redis still holds: it takes no time.
HeardInv ==
    \A d \in Delivery :
        /\ pc[d] = "renew" => affinity[Key(d)] = at[d]
        /\ pc[d] = "claim" => affinity[Key(d)] = Nobody \/ ttl[Key(d)] = TTL
        /\ pc[d] = "reresolve" => affinity[Key(d)] # Nobody /\ ttl[Key(d)] = TTL

Runs(e, s, w) == pc[e] = "running" /\ at[e] = w /\ Key(e) = s

\* What the runs that ended without a renewal may have taken.
Slack(s) == RenewalInterval * unrenewed[s]

\* The key of s, w's, is no older than those runs and the run in hand explain.
Explained(s, w) ==
    /\ \A e \in Delivery : Runs(e, s, w) =>
          TTL - ttl[s] <= Slack(s) + (RenewalInterval - renewIn[e])
    /\ (\A e \in Delivery : ~Runs(e, s, w)) => TTL - ttl[s] <= Slack(s)

AgeInv ==
    \A d \in Delivery :
        Engaged(d) /\ affinity[Key(d)] = at[d] => Explained(Key(d), at[d])

LeaseInv == Calm /\ HeardInv /\ AgeInv

\* EngagedOwnsKey, for one step.
StepKeepsKeys ==
    \A d \in Delivery :
        Engaged(d)' /\ affinity'[Key(d)] # at'[d] =>
            /\ Engaged(d)
            /\ affinity[Key(d)] = at[d] =>
                  TTL <= RenewalInterval * (unrenewed[Key(d)] + 1)

LEMMA Ages ==
  ASSUME TypeOK
  PROVE  /\ TTL \in Nat /\ RenewalInterval \in Nat
         /\ \A s \in Session : ttl[s] \in Nat /\ ttl[s] <= TTL
         /\ \A s \in Session : unrenewed[s] \in Nat /\ Slack(s) \in Nat
         /\ \A d \in Delivery : renewIn[d] \in Nat /\ renewIn[d] <= RenewalInterval
<1>1. TTL \in Nat /\ RenewalInterval \in Nat
  BY GatewayAssumption
<1>2. \A s \in Session : unrenewed[s] \in Nat
  BY DEF TypeOK
<1>3. \A n \in Nat : RenewalInterval * n \in Nat
  BY <1>1
<1> QED
  BY <1>1, <1>2, <1>3 DEF TypeOK, Slack

LEMMA MoreSlack == ASSUME NEW n \in Nat PROVE RenewalInterval * (n + 1) = RenewalInterval * n + RenewalInterval
<1>1. RenewalInterval \in Int /\ n \in Int
  BY GatewayAssumption
<1> QED
  BY <1>1

\* A handler that leaves the keys alone and starts or ends no run.
LEMMA StillKeeps ==
  ASSUME TypeOK, HeardInv, AgeInv,
         UNCHANGED <<affinity, ttl, unrenewed, renewIn>>,
         NEW d \in Delivery, NEW step \in PC, Goto(d, step),
         \A e \in Delivery : e # d => at'[e] = at[e],
         pc[d] # "running", step # "running",
         step = "renew" => affinity[Key(d)] = at'[d],
         step = "claim" => affinity[Key(d)] = Nobody,
         step = "reresolve" => affinity[Key(d)] # Nobody /\ ttl[Key(d)] = TTL,
         step \in {"dedup", "prepare", "queued"} =>
             /\ at'[d] = at[d]
             /\ Engaged(d) \/ (affinity[Key(d)] = at[d] /\ ttl[Key(d)] = TTL)
  PROVE  HeardInv' /\ AgeInv' /\ StepKeepsKeys
<1>0. pc'[d] = step /\ \A e \in Delivery : e # d => pc'[e] = pc[e]
  BY DEF Goto, TypeOK
<1>1. HeardInv'
  BY <1>0 DEF HeardInv, Key
<1>2. \A e \in Delivery, s \in Session, w \in Worker \cup {Nobody} : Runs(e, s, w)' <=> Runs(e, s, w)
  BY <1>0 DEF Runs, Key
<1>3. ASSUME NEW e \in Delivery, Engaged(e)'
      PROVE  /\ at'[e] = at[e]
             /\ Engaged(e) \/ (affinity[Key(e)] = at[e] /\ ttl[Key(e)] = TTL)
  BY <1>0, <1>3 DEF Engaged
<1>4. ASSUME NEW s \in Session, NEW w, ttl[s] = TTL PROVE Explained(s, w)
  BY <1>4, Ages DEF Explained
<1>5. ASSUME NEW e \in Delivery, Engaged(e)', affinity'[Key(e)] = at'[e]
      PROVE  Explained(Key(e), at[e])
  BY <1>3, <1>4, <1>5, KeyType DEF AgeInv
<1>6. AgeInv'
  <2> SUFFICES ASSUME NEW e \in Delivery, Engaged(e)', affinity'[Key(e)] = at'[e]
               PROVE  Explained(Key(e), at[e])'
    BY DEF AgeInv, Key
  <2>1. Explained(Key(e), at[e]) /\ at'[e] = at[e]
    BY <1>3, <1>5
  <2>2. Key(e) \in Session /\ at[e] \in Worker \cup {Nobody}
    BY KeyType DEF TypeOK
  <2>3. \A f \in Delivery : Runs(f, Key(e), at[e])' <=> Runs(f, Key(e), at[e])
    BY <1>2, <2>1, <2>2
  <2> QED
    BY <2>1, <2>3 DEF Explained, Slack, Key
<1>7. StepKeepsKeys
  BY <1>3 DEF StepKeepsKeys
<1> QED
  BY <1>1, <1>6, <1>7

LEMMA NothingKeeps ==
  ASSUME TypeOK, HeardInv, AgeInv,
         UNCHANGED <<affinity, ttl, unrenewed, renewIn, pc, at>>
  PROVE  HeardInv' /\ AgeInv' /\ StepKeepsKeys
<1>1. HeardInv'
  BY DEF HeardInv, Key
<1>2. AgeInv'
  BY DEF AgeInv, Explained, Engaged, Runs, Slack, Key
<1>3. StepKeepsKeys
  BY DEF StepKeepsKeys, Engaged
<1> QED
  BY <1>1, <1>2, <1>3

\* A key is set or refreshed: Renew, Claim, _affinity_renew_loop.
LEMMA FreshKeeps ==
  ASSUME TypeOK, TypeOK', AtInv, HeardInv, AgeInv,
         NEW d \in Delivery, at[d] \in Worker, UNCHANGED at,
         ttl'[Key(d)] = TTL \/ affinity'[Key(d)] = Nobody,
         affinity'[Key(d)] = affinity[Key(d)]
            \/ (affinity[Key(d)] = Nobody /\ affinity'[Key(d)] = at[d]),
         \A s \in Session \ {Key(d)} :
            affinity'[s] = affinity[s] /\ ttl'[s] = ttl[s] /\ unrenewed'[s] = unrenewed[s],
         \A e \in Delivery \ {d} : pc'[e] = pc[e] /\ renewIn'[e] = renewIn[e],
         \/ pc'[d] = "running" /\ pc[d] = "running"
         \/ pc'[d] = "dedup" /\ affinity'[Key(d)] = at[d]
  PROVE  HeardInv' /\ AgeInv' /\ StepKeepsKeys
<1>0. /\ Nobody \notin Worker
      /\ \A e \in Delivery : Key(e) \in Session
      /\ \A e \in Delivery \ {d} : pc[e] # "unsent" => at[e] \in Worker
  BY GatewayAssumption, KeyType DEF AtInv
<1>1. HeardInv'
  <2> SUFFICES ASSUME NEW e \in Delivery
               PROVE  /\ pc'[e] = "renew" => affinity'[Key(e)] = at[e]
                      /\ pc'[e] = "claim" => affinity'[Key(e)] = Nobody \/ ttl'[Key(e)] = TTL
                      /\ pc'[e] = "reresolve" => affinity'[Key(e)] # Nobody /\ ttl'[Key(e)] = TTL
    BY DEF HeardInv, Key
  <2>1. CASE e = d
    BY <2>1
  <2>2. CASE e # d /\ Key(e) # Key(d)
    BY <1>0, <2>2 DEF HeardInv
  <2>3. CASE e # d /\ Key(e) = Key(d)
    BY <1>0, <2>3 DEF HeardInv
  <2> QED
    BY <2>1, <2>2, <2>3
<1>2. ASSUME NEW s \in Session, NEW w \in Worker, s # Key(d)
      PROVE  Explained(s, w)' <=> Explained(s, w)
  <2>1. \A e \in Delivery : Runs(e, s, w)' <=> Runs(e, s, w)
    BY <1>2 DEF Runs, Key
  <2>2. \A e \in Delivery : Runs(e, s, w) => renewIn'[e] = renewIn[e]
    BY <1>2 DEF Runs
  <2>3. ttl'[s] = ttl[s] /\ Slack(s)' = Slack(s)
    BY <1>2 DEF Slack
  <2> QED
    BY <2>1, <2>2, <2>3 DEF Explained
<1>3. ASSUME NEW s \in Session, NEW w \in Worker, ttl'[s] = TTL PROVE Explained(s, w)'
  <2>1. /\ TTL \in Nat /\ Slack(s)' \in Nat /\ RenewalInterval \in Nat
        /\ \A e \in Delivery : renewIn'[e] \in Nat /\ renewIn'[e] <= RenewalInterval
    <3>1. unrenewed'[s] \in Nat /\ renewIn' \in [Delivery -> 0..RenewalInterval]
      BY DEF TypeOK
    <3>2. TTL \in Nat /\ RenewalInterval \in Nat
      BY GatewayAssumption
    <3>3. \A n \in Nat : RenewalInterval * n \in Nat
      BY <3>2
    <3> QED
      BY <3>1, <3>2, <3>3 DEF Slack
  <2> QED
    BY <1>3, <2>1 DEF Explained
<1>4. AgeInv'
  <2> SUFFICES ASSUME NEW e \in Delivery, Engaged(e)', affinity'[Key(e)] = at'[e]
               PROVE  Explained(Key(e), at[e])'
    BY DEF AgeInv, Key
  <2>1. at[e] \in Worker /\ at'[e] = at[e]
    BY <1>0 DEF Engaged
  <2>2. CASE Key(e) = Key(d)
    <3>1. ttl'[Key(e)] = TTL
      BY <1>0, <2>1, <2>2
    <3> QED
      BY <1>0, <1>3, <2>1, <3>1
  <2>3. CASE Key(e) # Key(d)
    <3>1. Engaged(e) /\ affinity[Key(e)] = at[e]
      BY <1>0, <2>1, <2>3 DEF Engaged
    <3> QED
      BY <1>0, <1>2, <2>1, <2>3, <3>1 DEF AgeInv
  <2> QED
    BY <2>2, <2>3
<1>5. StepKeepsKeys
  <2> SUFFICES ASSUME NEW e \in Delivery, Engaged(e)', affinity'[Key(e)] # at'[e]
               PROVE  Engaged(e) /\ affinity[Key(e)] # at[e]
    BY DEF StepKeepsKeys
  <2>1. CASE e = d
    BY <1>0, <2>1 DEF Engaged
  <2>2. CASE e # d
    <3>1. Engaged(e) /\ at[e] \in Worker
      BY <1>0, <2>2 DEF Engaged
    <3> QED
      BY <1>0, <2>2, <3>1
  <2> QED
    BY <2>1, <2>2
<1> QED
  BY <1>1, <1>4, <1>5

LEMMA StartKeeps ==
  ASSUME TypeOK, HeardInv, AgeInv, NEW d \in Delivery, StartRun(d)
  PROVE  HeardInv' /\ AgeInv' /\ StepKeepsKeys
<1>0. /\ UNCHANGED <<affinity, ttl, unrenewed, at>>
      /\ pc[d] = "queued" /\ pc'[d] = "running" /\ renewIn'[d] = RenewalInterval
      /\ \A e \in Delivery : e # d => pc'[e] = pc[e] /\ renewIn'[e] = renewIn[e]
      /\ \A e \in Delivery : ~Runs(e, Key(d), at[d])
  BY DEF StartRun, CanStart, Goto, TypeOK, redis, Runs
<1>1. HeardInv'
  BY <1>0 DEF HeardInv, Key
<1>2. \A e \in Delivery : Engaged(e)' <=> Engaged(e)
  BY <1>0 DEF Engaged
<1>3. ASSUME NEW s \in Session, NEW w, Explained(s, w) PROVE Explained(s, w)'
  <2>0. /\ TTL - ttl[s] \in Int /\ RenewalInterval \in Nat /\ Slack(s) \in Nat
        /\ Slack(s)' = Slack(s) /\ ttl'[s] = ttl[s]
    BY <1>0, Ages DEF Slack
  <2>1. CASE s = Key(d) /\ w = at[d]
    <3>1. TTL - ttl[s] <= Slack(s)
      BY <1>0, <1>3, <2>1 DEF Explained
    <3>2. \A e \in Delivery : Runs(e, s, w)' => e = d
      BY <1>0, <2>1 DEF Runs, Key
    <3>3. Runs(d, s, w)'
      BY <1>0, <2>1 DEF Runs, Key
    <3>4. TTL - ttl'[s] <= Slack(s)' + (RenewalInterval - renewIn'[d])
      BY <1>0, <2>0, <3>1
    <3> QED
      BY <3>2, <3>3, <3>4 DEF Explained
  <2>2. CASE s # Key(d) \/ w # at[d]
    <3>1. \A e \in Delivery : Runs(e, s, w)' <=> Runs(e, s, w)
      BY <1>0, <2>2 DEF Runs, Key
    <3>2. \A e \in Delivery : Runs(e, s, w) => renewIn'[e] = renewIn[e]
      BY <1>0, <2>2 DEF Runs
    <3> QED
      BY <1>3, <2>0, <3>1, <3>2 DEF Explained
  <2> QED
    BY <2>1, <2>2
<1>4. AgeInv'
  <2> SUFFICES ASSUME NEW e \in Delivery, Engaged(e)', affinity'[Key(e)] = at'[e]
               PROVE  Explained(Key(e), at[e])'
    BY DEF AgeInv, Key
  <2>1. Explained(Key(e), at[e]) /\ Key(e) \in Session
    BY <1>0, <1>2, KeyType DEF AgeInv
  <2>2. Explained(Key(e), at[e])'
    BY <1>0, <1>3, <2>1 DEF Explained, Runs, Key, Slack
  <2> QED
    BY <2>2
<1>5. StepKeepsKeys
  BY <1>0, <1>2 DEF StepKeepsKeys
<1> QED
  BY <1>1, <1>4, <1>5

LEMMA FinishKeeps ==
  ASSUME TypeOK, OneRun, HeardInv, AgeInv, NEW d \in Delivery, FinishRun(d)
  PROVE  HeardInv' /\ AgeInv' /\ StepKeepsKeys
<1>0. /\ UNCHANGED <<affinity, ttl, at>> /\ Key(d) \in Session
      /\ pc[d] = "running" /\ pc'[d] = "done"
      /\ \A e \in Delivery : e # d => pc'[e] = pc[e] /\ renewIn'[e] = renewIn[e]
      /\ unrenewed'[Key(d)] = unrenewed[Key(d)] + 1
      /\ \A s \in Session : s # Key(d) => unrenewed'[s] = unrenewed[s]
  BY KeyType DEF FinishRun, Goto, TypeOK
<1>1. HeardInv'
  BY <1>0 DEF HeardInv, Key
<1>2. \A e \in Delivery : Engaged(e)' => Engaged(e)
  BY <1>0 DEF Engaged
<1>3. ASSUME NEW s \in Session, NEW w, Explained(s, w) PROVE Explained(s, w)'
  <2>0. /\ TTL \in Nat /\ ttl[s] \in Nat /\ RenewalInterval \in Nat /\ Slack(s) \in Nat
        /\ \A e \in Delivery : renewIn[e] \in Nat /\ renewIn[e] <= RenewalInterval
        /\ unrenewed[s] \in Nat /\ ttl'[s] = ttl[s]
    BY <1>0, Ages
  <2>1. CASE s = Key(d)
    <3>1. Slack(s)' = Slack(s) + RenewalInterval
      BY <1>0, <2>0, <2>1, MoreSlack DEF Slack
    <3>2. \A e \in Delivery : Runs(e, s, w)' => Runs(e, s, w) /\ renewIn'[e] = renewIn[e]
      BY <1>0 DEF Runs, Key
    <3>3. TTL - ttl[s] <= Slack(s) + RenewalInterval
      <4>1. CASE \E e \in Delivery : Runs(e, s, w)
        <5>1. PICK e \in Delivery : Runs(e, s, w)
          BY <4>1
        <5>2. TTL - ttl[s] <= Slack(s) + (RenewalInterval - renewIn[e])
          BY <1>3, <5>1 DEF Explained
        <5> QED
          BY <2>0, <5>2
      <4>2. CASE \A e \in Delivery : ~Runs(e, s, w)
        BY <1>3, <2>0, <4>2 DEF Explained
      <4> QED
        BY <4>1, <4>2
    <3>4. ASSUME NEW e \in Delivery, Runs(e, s, w)'
          PROVE  TTL - ttl'[s] <= Slack(s)' + (RenewalInterval - renewIn'[e])
      <4>1. TTL - ttl[s] <= Slack(s) + (RenewalInterval - renewIn[e]) /\ renewIn'[e] = renewIn[e]
        BY <1>3, <3>2, <3>4 DEF Explained
      <4> QED
        BY <2>0, <3>1, <4>1
    <3>5. TTL - ttl'[s] <= Slack(s)'
      BY <2>0, <3>1, <3>3
    <3> QED
      BY <3>4, <3>5 DEF Explained
  <2>2. CASE s # Key(d)
    <3>1. \A e \in Delivery : Runs(e, s, w)' <=> Runs(e, s, w)
      BY <1>0, <2>2 DEF Runs, Key
    <3>2. \A e \in Delivery : Runs(e, s, w) => renewIn'[e] = renewIn[e]
      BY <1>0, <2>2 DEF Runs
    <3>3. Slack(s)' = Slack(s)
      BY <1>0, <2>2 DEF Slack
    <3> QED
      BY <1>3, <2>0, <3>1, <3>2, <3>3 DEF Explained
  <2> QED
    BY <2>1, <2>2
<1>4. AgeInv'
  <2> SUFFICES ASSUME NEW e \in Delivery, Engaged(e)', affinity'[Key(e)] = at'[e]
               PROVE  Explained(Key(e), at[e])'
    BY DEF AgeInv, Key
  <2>1. Explained(Key(e), at[e]) /\ Key(e) \in Session
    BY <1>0, <1>2, KeyType DEF AgeInv
  <2>2. Explained(Key(e), at[e])'
    BY <1>0, <1>3, <2>1 DEF Explained, Runs, Key, Slack
  <2> QED
    BY <2>2
<1>5. StepKeepsKeys
  BY <1>0, <1>2 DEF StepKeepsKeys
<1> QED
  BY <1>1, <1>4, <1>5

\* Time passes only when no handler can move, so an engaged worker is in a run.
LEMMA TickFindsRun ==
  ASSUME Placement, QueueInv, PromptHandlers, Tick, NEW d \in Delivery, Engaged(d)
  PROVE  \E e \in Delivery : Runs(e, Key(d), at[d]) /\ renewIn[e] > 0
<1>1. /\ \A e \in Delivery : pc[e] = "running" => renewIn[e] > 0
      /\ \A e \in Delivery : pc[e] \notin InHandler /\ ~CanStart(e)
  BY DEF Tick
<1>2. CASE pc[d] = "running"
  BY <1>1, <1>2 DEF Runs
<1>3. CASE pc[d] = "queued"
  <2>1. at[d] \in Worker /\ Key(d) \in Session /\ Waits(d) /\ InLine(at[d], Key(d))
    BY <1>3, KeyType DEF Placement, AtInv, QueueInv
  <2>2. queue[at[d]][Key(d)] \in Seq(Delivery)
    BY <2>1 DEF Placement, TypeOK
  <2> DEFINE q == queue[at[d]][Key(d)]
             h == q[1]
  <2>3. 1 \in 1..Len(q) /\ q # <<>> /\ Head(q) = h /\ h \in Delivery
    BY <2>1, <2>2 DEF Waits
  <2>4. pc[h] = "queued" /\ at[h] = at[d] /\ Key(h) = Key(d)
    BY <2>1, <2>3 DEF InLine
  <2>5. ~CanStart(h)
    BY <1>1, <2>3
  <2>6. \E e \in Delivery : pc[e] = "running" /\ at[e] = at[h] /\ Key(e) = Key(h)
    BY <2>3, <2>4, <2>5 DEF CanStart
  <2> QED
    BY <1>1, <2>4, <2>6 DEF Runs
<1> QED
  BY <1>1, <1>2, <1>3 DEF Engaged, InHandler

LEMMA TickKeeps ==
  ASSUME Placement, QueueInv, HeardInv, AgeInv, PromptHandlers, Tick
  PROVE  HeardInv' /\ AgeInv' /\ StepKeepsKeys
<1>0. /\ TypeOK /\ AtInv /\ OneRun
      /\ UNCHANGED <<pc, at, unrenewed>>
      /\ \A s \in Session : ttl'[s] = IF ttl[s] > 0 THEN ttl[s] - 1 ELSE 0
      /\ \A s \in Session : affinity'[s] = IF ttl[s] > 1 THEN affinity[s] ELSE Nobody
      /\ \A d \in Delivery : pc[d] = "running" => renewIn'[d] = renewIn[d] - 1 /\ renewIn[d] > 0
      /\ \A d \in Delivery : pc[d] \notin InHandler
      /\ Nobody \notin Worker
  BY GatewayAssumption DEF Tick, Placement, QueueInv
<1>1. HeardInv'
  BY <1>0 DEF HeardInv, InHandler, RouteCalls
<1>2. \A d \in Delivery : Engaged(d)' <=> Engaged(d)
  BY <1>0 DEF Engaged
<1>3. ASSUME NEW d \in Delivery, Engaged(d)
      PROVE  \E e \in Delivery : Runs(e, Key(d), at[d]) /\ renewIn[e] > 0
  BY <1>3, TickFindsRun
<1>4. ASSUME NEW d \in Delivery, Engaged(d)', affinity'[Key(d)] = at'[d]
      PROVE  Explained(Key(d), at[d])'
  <2> DEFINE s == Key(d)
             w == at[d]
  <2>0. /\ TTL \in Nat /\ ttl[s] \in Nat /\ RenewalInterval \in Nat /\ Slack(s) \in Nat
        /\ \A e \in Delivery : renewIn[e] \in Nat /\ renewIn[e] <= RenewalInterval
        /\ s \in Session
    BY <1>0, Ages, KeyType
  <2>1. Engaged(d) /\ w \in Worker
    BY <1>0, <1>2, <1>4 DEF AtInv, Engaged
  <2>2. affinity[s] = w /\ ttl[s] > 1 /\ ttl'[s] = ttl[s] - 1 /\ at'[d] = w
    BY <1>0, <1>4, <2>0, <2>1
  <2>3. Explained(s, w)
    BY <2>1, <2>2 DEF AgeInv
  <2>4. Slack(s)' = Slack(s)
    BY <1>0 DEF Slack, Key
  <2>5. \A e \in Delivery : Runs(e, s, w)' <=> Runs(e, s, w)
    BY <1>0 DEF Runs, Key
  <2>6. ASSUME NEW e \in Delivery, Runs(e, s, w)
        PROVE  TTL - ttl'[s] <= Slack(s)' + (RenewalInterval - renewIn'[e])
    <3>1. TTL - ttl[s] <= Slack(s) + (RenewalInterval - renewIn[e])
      BY <2>3, <2>6 DEF Explained
    <3>2. renewIn'[e] = renewIn[e] - 1
      BY <1>0, <2>6 DEF Runs
    <3> QED
      BY <2>0, <2>2, <2>4, <3>1, <3>2
  <2>7. \E e \in Delivery : Runs(e, s, w)
    BY <1>3, <2>1
  <2> QED
    BY <2>5, <2>6, <2>7 DEF Explained
<1>5. AgeInv'
  BY <1>4 DEF AgeInv, Key
<1>6. StepKeepsKeys
  <2> SUFFICES ASSUME NEW d \in Delivery, Engaged(d)', affinity'[Key(d)] # at'[d],
                      affinity[Key(d)] = at[d]
               PROVE  TTL <= RenewalInterval * (unrenewed[Key(d)] + 1)
    BY <1>2 DEF StepKeepsKeys
  <2> DEFINE s == Key(d)
  <2>0. /\ TTL \in Nat /\ ttl[s] \in Nat /\ RenewalInterval \in Nat /\ Slack(s) \in Nat
        /\ \A e \in Delivery : renewIn[e] \in Nat /\ renewIn[e] <= RenewalInterval
        /\ s \in Session /\ unrenewed[s] \in Nat
    BY <1>0, Ages, KeyType
  <2>1. ttl[s] <= 1
    BY <1>0, <2>0
  <2>2. Engaged(d) /\ Explained(s, at[d])
    BY <1>2 DEF AgeInv
  <2>3. PICK e \in Delivery : Runs(e, s, at[d]) /\ renewIn[e] > 0
    BY <1>3, <2>2
  <2>4. TTL - ttl[s] <= Slack(s) + (RenewalInterval - renewIn[e])
    BY <2>2, <2>3 DEF Explained
  <2>5. TTL <= Slack(s) + RenewalInterval
    BY <2>0, <2>1, <2>3, <2>4
  <2> QED
    BY <2>0, <2>5, MoreSlack DEF Slack
<1> QED
  BY <1>1, <1>5, <1>6

LEMMA NoFault ==
  ASSUME TypeOK, [Next]_vars, faults' = 0
  PROVE  /\ faults = 0
         /\ ~RedisFails
         /\ \A w \in Worker : ~Crash(w) /\ ~LoseSubscription(w)
<1>1. faults \in Nat
  BY GatewayAssumption DEF TypeOK
<1>2. \A kind : ~Inject(kind)
  BY <1>1 DEF Inject
<1>3. ~RedisFails /\ \A w \in Worker : ~Crash(w) /\ ~LoseSubscription(w)
  BY <1>2 DEF RedisFails, Crash, LoseSubscription
<1>4. ASSUME NEW w \in Worker,
             \/ Boot(w) \/ Subscribe(w) \/ Ready(w) \/ DropConnection(w) \/ Consume(w)
      PROVE  UNCHANGED faults
  BY <1>4 DEF Boot, Subscribe, Ready, DropConnection, Consume
<1>5. ASSUME NEW d \in Delivery, HandlerStep(d) \/ RunStep(d) PROVE UNCHANGED faults
  BY <1>5 DEF HandlerStep, RunStep, Resolve, Renew, Claim, ReResolve, Forward, ForceClaim,
              RouteError, Dedup, DedupFallback, Enqueue, PrepareError, PublishReplyLost,
              StartRun, RenewLoop, FinishRun
<1>6. ASSUME NEW d \in Delivery, NEW w \in Worker, Arrive(d, w) PROVE UNCHANGED faults
  BY <1>6 DEF Arrive
<1>7. ASSUME RedisRecovers \/ Tick \/ UNCHANGED vars PROVE UNCHANGED faults
  BY <1>7 DEF RedisRecovers, Tick, vars
<1>8. faults = 0
  BY <1>3, <1>4, <1>5, <1>6, <1>7 DEF Next
<1> QED
  BY <1>3, <1>8

\* Every owner that is forwarded to is ready, so every publication is received.
LEMMA CalmForward ==
  ASSUME AddressInv, Calm, NEW d \in Delivery, Forward(d)
  PROVE  /\ Publish(d, owner[d])
         /\ UNCHANGED <<affinity, ttl, unrenewed, redisUp, status, subscribed, renewIn>>
<1>1. pc[d] = "forward" /\ owner[d] \in Worker
  BY DEF Forward, AddressInv, Placement, OwnerInv
<1>2. Named(owner[d])
  BY <1>1 DEF Named
<1>3. status[owner[d]] = "up"
  BY <1>1, <1>2 DEF AddressInv, NamedWasUp, Calm
<1>4. Receives(owner[d])
  BY <1>1, <1>3 DEF Receives, Calm
<1> QED
  BY <1>4 DEF Forward, redis

LEMMA CalmHandler ==
  ASSUME AddressInv, LeaseInv, TypeOK', NEW d \in Delivery, HandlerStep(d)
  PROVE  /\ HeardInv' /\ AgeInv' /\ StepKeepsKeys
         /\ UNCHANGED <<redisUp, status, subscribed>>
         /\ \A e \in Delivery : pc'[e] # "force"
<1> USE DEF LeaseInv
<1>0. /\ TypeOK /\ AtInv /\ redisUp /\ Key(d) \in Session /\ Nobody \notin Worker
      /\ pc \in [Delivery -> PC] /\ at \in [Delivery -> Worker \cup {Nobody}]
      /\ affinity \in [Session -> Worker \cup {Nobody}]
      /\ ttl \in [Session -> 0..TTL] /\ unrenewed \in [Session -> Nat]
      /\ \A e \in Delivery : pc[e] # "force"
  BY GatewayAssumption, KeyType DEF AddressInv, Placement, TypeOK, Calm
<1>a. ASSUME NEW step \in PC, Goto(d, step),
             UNCHANGED <<affinity, ttl, unrenewed, renewIn, redisUp, status, subscribed>>,
             \A e \in Delivery : e # d => at'[e] = at[e],
             pc[d] # "running", step \notin {"running", "force"},
             step = "renew" => affinity[Key(d)] = at'[d],
             step = "claim" => affinity[Key(d)] = Nobody,
             step = "reresolve" => affinity[Key(d)] # Nobody /\ ttl[Key(d)] = TTL,
             step \in {"dedup", "prepare", "queued"} =>
                 /\ at'[d] = at[d]
                 /\ Engaged(d) \/ (affinity[Key(d)] = at[d] /\ ttl[Key(d)] = TTL)
      PROVE  /\ HeardInv' /\ AgeInv' /\ StepKeepsKeys
             /\ UNCHANGED <<redisUp, status, subscribed>>
             /\ \A e \in Delivery : pc'[e] # "force"
  <2>1. \A e \in Delivery : pc'[e] # "force"
    BY <1>0, <1>a DEF Goto
  <2>2. HeardInv' /\ AgeInv' /\ StepKeepsKeys
    BY <1>0, <1>a, StillKeeps
  <2> QED
    BY <1>a, <2>1, <2>2
<1>b. {"renew", "claim", "forward", "dedup", "reresolve", "inbox", "prepare", "duplicate",
       "queued"} \subseteq PC
  BY DEF PC, InHandler, RouteCalls, Terminal
<1>1. CASE Resolve(d)
  <2>1. /\ UNCHANGED <<affinity, ttl, unrenewed, renewIn, redisUp, status, subscribed, at>>
        /\ pc[d] = "resolve"
    BY <1>1 DEF Resolve, redis, process
  <2>2. \/ Goto(d, "renew") /\ affinity[Key(d)] = at[d]
        \/ Goto(d, "claim") /\ affinity[Key(d)] = Nobody
        \/ Goto(d, "forward")
    BY <1>1 DEF Resolve, ForwardTo
  <2> QED
    BY <1>a, <1>b, <2>1, <2>2
<1>2. CASE ReResolve(d)
  <2>1. /\ UNCHANGED <<affinity, ttl, unrenewed, renewIn, redisUp, status, subscribed, at>>
        /\ pc[d] = "reresolve"
    BY <1>2 DEF ReResolve, redis, process
  <2>2. affinity[Key(d)] # Nobody /\ ttl[Key(d)] = TTL
    BY <2>1 DEF HeardInv
  <2>3. \/ Goto(d, "dedup") /\ affinity[Key(d)] = at[d]
        \/ Goto(d, "forward")
    BY <1>2, <2>2 DEF ReResolve, ForwardTo
  <2> QED
    BY <1>a, <1>b, <2>1, <2>2, <2>3
<1>3. CASE Claim(d) /\ affinity[Key(d)] # Nobody
  <2>1. /\ UNCHANGED <<affinity, ttl, unrenewed, renewIn, redisUp, status, subscribed, at>>
        /\ pc[d] = "claim" /\ Goto(d, "reresolve")
    BY <1>3 DEF Claim, process
  <2>2. ttl[Key(d)] = TTL
    BY <1>3, <2>1 DEF HeardInv
  <2> QED
    BY <1>3, <1>a, <1>b, <2>1, <2>2
<1>4. CASE Forward(d)
  <2>1. /\ UNCHANGED <<affinity, ttl, unrenewed, renewIn, redisUp, status, subscribed>>
        /\ pc[d] = "forward" /\ Goto(d, "inbox")
    BY <1>4, CalmForward DEF Forward, Publish
  <2>2. \A e \in Delivery : e # d => at'[e] = at[e]
    BY <1>0, <1>4, CalmForward DEF Publish
  <2> QED
    BY <1>a, <1>b, <2>1, <2>2
<1>5. CASE Dedup(d) \/ Enqueue(d)
  <2>1. /\ UNCHANGED <<affinity, ttl, unrenewed, renewIn, redisUp, status, subscribed, at>>
        /\ pc[d] \in {"dedup", "prepare"}
    BY <1>5 DEF Dedup, Enqueue, redis, process
  <2>2. \E step \in {"prepare", "duplicate", "queued"} : Goto(d, step)
    BY <1>5 DEF Dedup, Enqueue, Pass, Reject
  <2>3. Engaged(d)
    BY <2>1 DEF Engaged
  <2> QED
    BY <1>a, <1>b, <2>1, <2>2, <2>3
<1>c. ASSUME UNCHANGED <<redisUp, status, subscribed, at, renewIn>>, Goto(d, "dedup"),
             TypeOK', at[d] \in Worker, affinity'[Key(d)] = at[d], ttl'[Key(d)] = TTL,
             affinity[Key(d)] \in {Nobody, at[d]},
             \A s \in Session : s # Key(d) =>
                affinity'[s] = affinity[s] /\ ttl'[s] = ttl[s] /\ unrenewed'[s] = unrenewed[s]
      PROVE  /\ HeardInv' /\ AgeInv' /\ StepKeepsKeys
             /\ UNCHANGED <<redisUp, status, subscribed>>
             /\ \A e \in Delivery : pc'[e] # "force"
  <2>1. pc'[d] = "dedup" /\ \A e \in Delivery : e # d => pc'[e] = pc[e] /\ renewIn'[e] = renewIn[e]
    BY <1>0, <1>c DEF Goto
  <2>2. HeardInv' /\ AgeInv' /\ StepKeepsKeys
    BY <1>0, <1>c, <2>1, FreshKeeps
  <2>3. \A e \in Delivery : pc'[e] # "force"
    BY <1>0, <2>1
  <2> QED
    BY <1>c, <2>2, <2>3
<1>6. CASE Renew(d) \/ (Claim(d) /\ affinity[Key(d)] = Nobody)
  <2>1. /\ UNCHANGED <<redisUp, status, subscribed, at, renewIn>>
        /\ Goto(d, "dedup") /\ pc[d] \in {"renew", "claim"}
    BY <1>6 DEF Renew, Claim, process
  <2>2. at[d] \in Worker
    BY <1>0, <2>1 DEF AtInv
  <2>3. affinity[Key(d)] \in {Nobody, at[d]}
    BY <1>6 DEF Renew, HeardInv
  <2>4. /\ affinity'[Key(d)] = at[d] /\ ttl'[Key(d)] = TTL
        /\ \A s \in Session : s # Key(d) =>
              affinity'[s] = affinity[s] /\ ttl'[s] = ttl[s] /\ unrenewed'[s] = unrenewed[s]
    <3>1. CASE Renew(d)
      <4>1. affinity[Key(d)] = at[d]
        BY <3>1 DEF Renew, HeardInv
      <4>2. Refresh(Key(d))
        BY <3>1 DEF Renew
      <4> QED
        BY <1>0, <2>2, <4>1, <4>2 DEF Refresh
    <3>2. CASE Claim(d) /\ affinity[Key(d)] = Nobody
      <4>1. SetOwner(Key(d), at[d])
        BY <3>2 DEF Claim
      <4> QED
        BY <1>0, <4>1 DEF SetOwner
    <3> QED
      BY <1>6, <3>1, <3>2
  <2> QED
    BY <1>c, <2>1, <2>2, <2>3, <2>4
<1>7. ~ForceClaim(d) /\ ~RouteError(d) /\ ~DedupFallback(d) /\ ~PrepareError(d)
      /\ \A e \in Delivery : ~PublishReplyLost(d, e)
  BY <1>0 DEF ForceClaim, RouteError, DedupFallback, PrepareError, PublishReplyLost
<1> QED
  BY <1>1, <1>2, <1>3, <1>4, <1>5, <1>6, <1>7 DEF HandlerStep

LEMMA CalmRun ==
  ASSUME AddressInv, QueueInv, LeaseInv, TypeOK', NEW d \in Delivery, RunStep(d)
  PROVE  /\ HeardInv' /\ AgeInv' /\ StepKeepsKeys
         /\ UNCHANGED <<redisUp, status, subscribed>>
         /\ \A e \in Delivery : pc'[e] # "force"
<1> USE DEF LeaseInv
<1>0. /\ TypeOK /\ AtInv /\ redisUp /\ Key(d) \in Session /\ Nobody \notin Worker
      /\ pc \in [Delivery -> PC]
      /\ affinity \in [Session -> Worker \cup {Nobody}]
      /\ ttl \in [Session -> 0..TTL] /\ unrenewed \in [Session -> Nat]
      /\ renewIn \in [Delivery -> 0..RenewalInterval]
      /\ \A e \in Delivery : pc[e] # "force"
      /\ OneRun
  BY GatewayAssumption, KeyType DEF AddressInv, Placement, TypeOK, Calm, QueueInv
<1>1. UNCHANGED <<redisUp, status, subscribed>>
  BY DEF RunStep, StartRun, RenewLoop, FinishRun, redis, process
<1>2. \A e \in Delivery : pc'[e] # "force"
  BY <1>0 DEF RunStep, StartRun, RenewLoop, FinishRun, Goto
<1>3. CASE RenewLoop(d)
  <2>1. /\ pc[d] = "running" /\ UNCHANGED <<pc, at>> /\ at[d] \in Worker
        /\ \A e \in Delivery \ {d} : renewIn'[e] = renewIn[e]
    BY <1>0, <1>3 DEF RenewLoop, AtInv
  <2>2. Refresh(Key(d))
    BY <1>0, <1>3 DEF RenewLoop
  <2>3. /\ UNCHANGED affinity
        /\ ttl'[Key(d)] = TTL \/ affinity'[Key(d)] = Nobody
        /\ \A s \in Session \ {Key(d)} : ttl'[s] = ttl[s] /\ unrenewed'[s] = unrenewed[s]
    BY <1>0, <2>2 DEF Refresh
  <2>4. HeardInv' /\ AgeInv' /\ StepKeepsKeys
    BY <1>0, <2>1, <2>3, FreshKeeps
  <2> QED
    BY <1>1, <1>2, <2>4
<1> QED
  BY <1>0, <1>1, <1>2, <1>3, StartKeeps, FinishKeeps DEF RunStep

LEMMA NextKeepsLease ==
  ASSUME AddressInv, QueueInv, LeaseInv, TypeOK', PromptHandlers, SubscribeFirst,
         [Next]_vars, faults' = 0
  PROVE  LeaseInv' /\ StepKeepsKeys
<1> USE DEF LeaseInv
<1>0. /\ Placement /\ TypeOK /\ redisUp
      /\ pc \in [Delivery -> PC] /\ at \in [Delivery -> Worker \cup {Nobody}]
      /\ status \in [Worker -> {"off", "booting", "up", "dead"}]
      /\ subscribed \in [Worker -> BOOLEAN]
      /\ inbox \in [Worker -> Seq(Delivery)]
      /\ \A e \in Delivery : pc[e] # "force"
  BY DEF AddressInv, Placement, TypeOK, Calm
<1>1. ~RedisFails /\ \A w \in Worker : ~Crash(w) /\ ~LoseSubscription(w)
  BY <1>0, NoFault
<1>2. ~RedisRecovers /\ \A w \in Worker : ~DropConnection(w)
  BY DEF Calm, RedisRecovers, DropConnection
<1>a. ASSUME UNCHANGED <<redisUp, status, subscribed>>, \A e \in Delivery : pc'[e] # "force"
      PROVE  Calm'
  BY <1>a DEF Calm
<1>3. ASSUME NEW w \in Worker, Boot(w) \/ Subscribe(w) \/ Ready(w)
      PROVE  LeaseInv' /\ StepKeepsKeys
  <2>1. UNCHANGED <<affinity, ttl, unrenewed, renewIn, pc, at, redisUp>>
    BY <1>3 DEF Boot, Subscribe, Ready, redis, handler
  <2>2. \A v \in Worker : status'[v] # "dead" /\ (status'[v] = "up" => subscribed'[v])
    BY <1>0, <1>3 DEF Boot, Subscribe, Ready, Calm
  <2>3. Calm'
    BY <1>0, <2>1, <2>2 DEF Calm
  <2> QED
    BY <1>0, <2>1, <2>3, NothingKeeps
<1>4. ASSUME NEW w \in Worker, Consume(w) PROVE LeaseInv' /\ StepKeepsKeys
  <2> DEFINE h == Head(inbox[w])
  <2>1. UNCHANGED <<affinity, ttl, unrenewed, renewIn, at, redisUp, status, subscribed>>
    BY <1>4 DEF Consume, redis
  <2>2. h \in Delivery /\ pc[h] = "inbox"
    <3>1. inbox[w] # <<>> /\ 1 \in 1..Len(inbox[w]) /\ h = inbox[w][1]
      BY <1>0, <1>4 DEF Consume
    <3> QED
      BY <1>0, <3>1 DEF Placement, InboxInv
  <2>3. \E step \in {"resolve", "lost"} : Goto(h, step)
    BY <1>4 DEF Consume
  <2>4. {"resolve", "lost"} \subseteq PC
    BY DEF PC, InHandler, RouteCalls, Terminal
  <2> HIDE DEF h
  <2>5. HeardInv' /\ AgeInv' /\ StepKeepsKeys
    BY <1>0, <2>1, <2>2, <2>3, <2>4, StillKeeps
  <2>6. \A e \in Delivery : pc'[e] # "force"
    BY <1>0, <2>3 DEF Goto
  <2> QED
    BY <1>a, <2>1, <2>5, <2>6
<1>5. ASSUME NEW d \in Delivery, NEW w \in Worker, Arrive(d, w)
      PROVE  LeaseInv' /\ StepKeepsKeys
  <2>1. /\ UNCHANGED <<affinity, ttl, unrenewed, renewIn, redisUp, status, subscribed>>
        /\ pc[d] = "unsent" /\ Goto(d, "resolve")
        /\ \A e \in Delivery : e # d => at'[e] = at[e]
    BY <1>0, <1>5 DEF Arrive, redis, process
  <2>2. "resolve" \in PC
    BY DEF PC, InHandler, RouteCalls
  <2>3. HeardInv' /\ AgeInv' /\ StepKeepsKeys
    BY <1>0, <2>1, <2>2, StillKeeps
  <2>4. \A e \in Delivery : pc'[e] # "force"
    BY <1>0, <2>1 DEF Goto
  <2> QED
    BY <1>a, <2>1, <2>3, <2>4
<1>6. ASSUME NEW d \in Delivery, HandlerStep(d) \/ RunStep(d) PROVE LeaseInv' /\ StepKeepsKeys
  BY <1>6, <1>a, CalmHandler, CalmRun
<1>7. CASE Tick
  <2>1. UNCHANGED <<redisUp, status, subscribed, pc>>
    BY <1>7 DEF Tick, process
  <2> QED
    BY <1>0, <1>7, <1>a, <2>1, TickKeeps
<1>8. CASE UNCHANGED vars
  <2>1. UNCHANGED <<affinity, ttl, unrenewed, renewIn, pc, at, redisUp, status, subscribed>>
    BY <1>8 DEF vars, redis, process, handler
  <2> QED
    BY <1>0, <1>a, <2>1, NothingKeeps
<1> QED
  BY <1>1, <1>2, <1>3, <1>4, <1>5, <1>6, <1>7, <1>8 DEF Next

KeptInv == AddressInv /\ QueueInv /\ (faults = 0 => LeaseInv)

\* The inductive invariant behind the next theorem: the queues of runs, what a
\* handler has just read, and how old a key may be.
THEOREM KeysAreExplained ==
  ASSUME PromptHandlers, SubscribeFirst PROVE Spec => []KeptInv
<1>1. Init /\ AddressInv => KeptInv
  <2> SUFFICES ASSUME Init, AddressInv PROVE KeptInv
    OBVIOUS
  <2>1. QueueInv
    BY DEF Init, QueueInv, InLine, OneRun
  <2>2. LeaseInv
    BY DEF Init, LeaseInv, Calm, HeardInv, AgeInv, Engaged
  <2> QED
    BY <2>1, <2>2 DEF KeptInv
<1>2. KeptInv /\ AddressInv' /\ [Next]_vars => KeptInv'
  <2> SUFFICES ASSUME KeptInv, AddressInv', [Next]_vars PROVE KeptInv'
    OBVIOUS
  <2>1. Placement /\ TypeOK /\ TypeOK'
    BY DEF KeptInv, AddressInv, Placement
  <2>2. QueueInv'
    BY <2>1, NextKeepsQueueInv DEF KeptInv
  <2>3. ASSUME faults' = 0 PROVE LeaseInv'
    BY <2>1, <2>3, NoFault, NextKeepsLease DEF KeptInv
  <2> QED
    BY <2>2, <2>3 DEF KeptInv
<1> QED
  BY <1>1, <1>2, AddressCorrect, PTL DEF Spec

\* Until something fails, with handlers that take no time and workers that
\* subscribe before they receive, a worker past routing holds its session's key,
\* and loses it only to enough runs too short to renew it (_affinity_renew_loop).
THEOREM EngagedWorkersOwnTheirKeys ==
  ASSUME PromptHandlers, SubscribeFirst PROVE Spec => EngagedOwnsKey
<1> DEFINE Step == faults' = 0 => StepKeepsKeys
<1>1. KeptInv /\ TypeOK' /\ [Next]_vars => [Step]_vars
  <2> SUFFICES ASSUME KeptInv, TypeOK', [Next]_vars, faults' = 0 PROVE StepKeepsKeys
    OBVIOUS
  <2>1. TypeOK
    BY DEF KeptInv, AddressInv, Placement
  <2> QED
    BY <2>1, NoFault, NextKeepsLease DEF KeptInv
<1>2. Spec => [][Step]_vars
  BY <1>1, KeysAreExplained, TypeCorrect, PTL DEF Spec
<1> QED
  BY <1>2 DEF EngagedOwnsKey, StepKeepsKeys
=============================================================================

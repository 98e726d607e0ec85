----------------------- MODULE DistributedMutex_proofs -----------------------
(***************************************************************************)
(* Theorems about DistributedMutex, for any clients, tokens and durations. *)
(***************************************************************************)
EXTENDS DistributedMutex, TLAPS

(***************************************************************************)
(* Types                                                                   *)
(***************************************************************************)
\* A heartbeat never renews the lock of nobody.
HasToken(c) == phase[c] = "entering" \/ heart[c] \in Beating => token[c] # NoToken

TypeInv == TypeOK /\ \A c \in Client : HasToken(c)

LEMMA TypeInit == Init => TypeInv
BY MutexAssumption DEF Init, TypeInv, TypeOK, HasToken, Phases, Hearts, Beating

LEMMA TypeOperation ==
  ASSUME TypeInv, NEW c \in Client, Operation(c)
  PROVE  TypeInv'
<1> USE MutexAssumption DEF TypeInv, HasToken, TypeOK, Phases, Hearts, Beating, redis, client
<1>1. CASE \E t \in Token : Acquire(c, t) \/ LoseAcquire(c, t)
  BY <1>1 DEF Acquire, LoseAcquire
<1>2. CASE Enter(c) \/ FailToSpawn(c)
  BY <1>2 DEF Enter, FailToSpawn
<1>3. CASE Renew(c)
  <2>1. ttl' \in 0 .. TTL /\ (key = NoToken <=> ttl' = 0)
    <3>1. token[c] # NoToken
      BY <1>3 DEF Renew
    <3>2. CASE key = token[c]
      BY <1>3, <3>1, <3>2 DEF Renew
    <3>3. CASE key # token[c]
      BY <1>3, <3>3 DEF Renew
    <3> QED
      BY <3>2, <3>3
  <2>2. heart' \in [Client -> Hearts]
    BY <1>3 DEF Renew
  <2> QED
    BY <1>3, <2>1, <2>2 DEF Renew
<1>4. CASE Resume(c) \/ FailToRenew(c)
  BY <1>4 DEF Resume, FailToRenew
<1>5. CASE Leave(c) \/ FailToRelease(c)
  BY <1>5 DEF Leave, FailToRelease
<1>6. CASE Release(c)
  BY <1>6 DEF Release
<1>7. CASE Shutdown(c)
  BY <1>7 DEF Shutdown
<1>8. CASE Crash(c)
  BY <1>8 DEF Crash
<1> QED
  BY <1>1, <1>2, <1>3, <1>4, <1>5, <1>6, <1>7, <1>8 DEF Operation

LEMMA TypeTick == TypeInv /\ Tick => TypeInv'
<1> SUFFICES ASSUME TypeInv, Tick PROVE TypeInv'
  OBVIOUS
<1> USE MutexAssumption DEF TypeInv, HasToken, TypeOK
<1>1. \A c \in Client : Timed(c) => timer[c] < Interval + Delay[c]
  BY DEF Tick, Timed, Punctual
<1>2. timer' \in [Client -> Nat] /\ \A c \in Client : timer'[c] <= Interval + Delay[c]
  BY <1>1 DEF Tick
<1>3. ttl' \in 0 .. TTL /\ (key' = NoToken <=> ttl' = 0) /\ key' \in Token \cup {NoToken}
  BY DEF Tick
<1> QED
  BY <1>2, <1>3 DEF Tick

\* Every variable keeps its type, and the key lives exactly as long as its TTL.
THEOREM TypeCorrect == Spec => []TypeOK
<1>1. TypeInv /\ [Next]_vars => TypeInv'
  <2>1. TypeInv /\ UNCHANGED vars => TypeInv'
    BY DEF TypeInv, HasToken, TypeOK, vars, redis, client
  <2> QED
    BY <2>1, TypeOperation, TypeTick DEF Next
<1>2. TypeInv => TypeOK
  BY DEF TypeInv
<1> QED
  BY <1>1, <1>2, TypeInit, PTL DEF Spec

(***************************************************************************)
(* Tokens                                                                  *)
(***************************************************************************)
\* Tokens in use were drawn, and no two clients have the same.
TokenInv ==
    /\ key \in spent \cup {NoToken}
    /\ \A c \in Client : token[c] \in spent \cup {NoToken}
    /\ \A c, d \in Client : token[c] = token[d] /\ token[c] # NoToken => c = d

LEMMA TokenStep == TypeOK /\ TokenInv /\ [Next]_vars => TokenInv'
<1> SUFFICES ASSUME TypeOK, TokenInv, [Next]_vars PROVE TokenInv'
  OBVIOUS
<1> USE DEF TokenInv, TypeOK
<1>1. ASSUME NEW c \in Client, NEW t \in Token, Acquire(c, t)
      PROVE  TokenInv'
  BY <1>1 DEF Acquire
<1>2. ASSUME NEW c \in Client, NEW t \in Token, LoseAcquire(c, t)
      PROVE  TokenInv'
  BY <1>2 DEF LoseAcquire, client
<1>3. ASSUME NEW c \in Client, Crash(c)
      PROVE  TokenInv'
  BY <1>3 DEF Crash, redis
<1>4. CASE UNCHANGED <<spent, token>> /\ (key' = key \/ key' = NoToken)
  BY <1>4
<1>5. ASSUME NEW c \in Client,
             Enter(c) \/ FailToSpawn(c) \/ Renew(c) \/ Resume(c) \/ FailToRenew(c)
               \/ Leave(c) \/ Release(c) \/ FailToRelease(c) \/ Shutdown(c)
      PROVE  UNCHANGED <<spent, token>> /\ (key' = key \/ key' = NoToken)
  BY <1>5 DEF Enter, FailToSpawn, Renew, Resume, FailToRenew, Leave, Release,
              FailToRelease, Shutdown, redis
<1>6. CASE Tick \/ UNCHANGED vars
  BY <1>4, <1>6 DEF Tick, vars, redis, client
<1> QED
  BY <1>1, <1>2, <1>3, <1>4, <1>5, <1>6 DEF Next, Operation

LEMMA TokenInvariant == Spec => [](TypeOK /\ TokenInv)
<1>1. Init => TokenInv
  BY DEF Init, TokenInv
<1> QED
  BY <1>1, TokenStep, TypeCorrect, PTL DEF Spec

\* The key is deleted before its time only by the client it belongs to.
THEOREM OnlyHoldersRelease == Spec => OnlyHolderReleases
<1>1. ASSUME TypeOK, [Next]_vars, key # NoToken, key' = NoToken, ttl > 1
      PROVE  \E c \in Client : phase[c] = "leaving" /\ token[c] = key
  <2> USE <1>1
  <2>1. ASSUME NEW c \in Client, Release(c)
        PROVE  phase[c] = "leaving" /\ token[c] = key
    BY <2>1 DEF Release, redis
  <2>2. CASE UNCHANGED vars
    BY <2>2 DEF vars, redis
  <2>3. CASE Tick
    BY <2>3, MutexAssumption DEF Tick, TypeOK
  <2>4. ASSUME NEW c \in Client, NEW t \in Token, Acquire(c, t) \/ LoseAcquire(c, t)
        PROVE  FALSE
    BY <2>4 DEF Acquire, LoseAcquire
  <2>5. ASSUME NEW c \in Client,
               Enter(c) \/ FailToSpawn(c) \/ Renew(c) \/ Resume(c) \/ FailToRenew(c)
                 \/ Leave(c) \/ FailToRelease(c) \/ Shutdown(c) \/ Crash(c)
        PROVE  FALSE
    BY <2>5 DEF Enter, FailToSpawn, Renew, Resume, FailToRenew, Leave, FailToRelease,
                Shutdown, Crash, redis
  <2> QED
    BY <2>1, <2>2, <2>3, <2>4, <2>5 DEF Next, Operation
<1> QED
  BY <1>1, TypeCorrect, PTL DEF Spec, OnlyHolderReleases

(***************************************************************************)
(* The lease                                                               *)
(***************************************************************************)
\* c has the key, and its TTL was set at most so long ago.
Holds(c) == key = token[c] /\ token[c] # NoToken

Lease(c) ==
    /\ phase[c] = "entering" =>
         /\ heart[c] = "none" /\ Holds(c)
         /\ timer[c] <= Delay[c] /\ ttl + timer[c] >= TTL
    /\ phase[c] = "in" => heart[c] # "none"
    /\ heart[c] \in Beating => heart[c] # "refused" /\ phase[c] = "in" /\ Holds(c)
    /\ heart[c] = "sleeping" => ttl + timer[c] + Delay[c] >= TTL
    /\ heart[c] = "renewed" => timer[c] >= Interval /\ ttl + timer[c] >= TTL + Interval

LeaseInv == \A c \in Client : Prompt(c) => Lease(c)

\* What other clients do leaves a lease alone: they get the key only when it
\* is free, and they release only their own.
LEMMA LeaseOfOthers ==
  ASSUME TypeOK, TypeOK', TokenInv, LeaseInv, NEW c \in Client, NEW d \in Client,
         c # d, Operation(d), Prompt(c)
  PROVE  Lease(c)'
<1>1. /\ phase'[c] = phase[c] /\ token'[c] = token[c]
      /\ heart'[c] = heart[c] /\ timer'[c] = timer[c]
  <2>1. CASE \E t \in Token : Acquire(d, t) \/ LoseAcquire(d, t)
    BY <2>1 DEF Acquire, LoseAcquire, client, TypeOK
  <2>2. CASE Enter(d) \/ FailToSpawn(d) \/ Renew(d) \/ Resume(d) \/ FailToRenew(d)
    BY <2>2 DEF Enter, FailToSpawn, Renew, Resume, FailToRenew, TypeOK
  <2>3. CASE Leave(d) \/ Release(d) \/ FailToRelease(d) \/ Shutdown(d) \/ Crash(d)
    BY <2>3 DEF Leave, Release, FailToRelease, Shutdown, Crash, TypeOK
  <2> QED
    BY <2>1, <2>2, <2>3 DEF Operation
<1>2. Holds(c) => key' = key /\ ttl' >= ttl
  <2> SUFFICES ASSUME Holds(c) PROVE key' = key /\ ttl' >= ttl
    OBVIOUS
  <2>1. key # NoToken /\ key # token[d] /\ ttl \in Nat /\ TTL >= ttl
    BY MutexAssumption DEF Holds, TokenInv, TypeOK
  <2>2. CASE \E t \in Token : Acquire(d, t) \/ LoseAcquire(d, t)
    BY <2>1, <2>2 DEF Acquire, LoseAcquire
  <2>3. CASE Enter(d) \/ FailToSpawn(d) \/ Renew(d) \/ Resume(d) \/ FailToRenew(d)
    BY <2>1, <2>3 DEF Enter, FailToSpawn, Renew, Resume, FailToRenew, redis
  <2>4. CASE Leave(d) \/ Release(d) \/ FailToRelease(d) \/ Shutdown(d) \/ Crash(d)
    BY <2>1, <2>4 DEF Leave, Release, FailToRelease, Shutdown, Crash, redis
  <2> QED
    BY <2>2, <2>3, <2>4 DEF Operation
<1>3. Lease(c)
  BY DEF LeaseInv
<1>4. ttl \in Nat /\ ttl' \in Nat /\ timer[c] \in Nat
  BY MutexAssumption DEF TypeOK
<1> QED
  BY <1>1, <1>2, <1>3, <1>4, MutexAssumption DEF Lease, Holds, Beating

LEMMA LeaseOfOwn ==
  ASSUME TypeOK, LeaseInv, NEW c \in Client, Operation(c), Prompt(c)
  PROVE  Lease(c)'
<1>0. /\ Lease(c)
      /\ ttl \in Nat /\ timer[c] \in Nat /\ timer[c] <= Interval + Delay[c]
      /\ TTL \in Nat /\ Interval \in Nat /\ Delay[c] \in Nat
      /\ phase \in [Client -> Phases]
      /\ token \in [Client -> Token \cup {NoToken}]
      /\ heart \in [Client -> Hearts]
      /\ timer \in [Client -> Nat]
      /\ NoToken \notin Token
  BY MutexAssumption DEF TypeOK, LeaseInv
<1> USE <1>0 DEF Lease, Holds, Beating
<1>1. ASSUME NEW t \in Token, Acquire(c, t)
      PROVE  Lease(c)'
  <2>1. /\ phase'[c] = "entering" /\ heart'[c] = "none"
        /\ timer'[c] = 0 /\ token'[c] = t /\ key' = t /\ ttl' = TTL
    BY <1>1 DEF Acquire
  <2> QED
    BY <2>1
<1>2. ASSUME NEW t \in Token, LoseAcquire(c, t)
      PROVE  Lease(c)'
  <2>1. phase[c] = "out" /\ heart[c] \notin Beating
    BY <1>2 DEF LoseAcquire
  <2> QED
    BY <1>2, <2>1 DEF LoseAcquire, client
<1>3. CASE Enter(c)
  <2>1. /\ phase'[c] = "in" /\ heart'[c] = "sleeping" /\ timer'[c] = 0
        /\ token'[c] = token[c] /\ key' = key /\ ttl' = ttl
        /\ phase[c] = "entering"
    BY <1>3 DEF Enter, redis
  <2> QED
    BY <2>1
<1>4. CASE FailToSpawn(c)
  <2>1. phase'[c] = "out" /\ heart'[c] = "none"
    BY <1>4 DEF FailToSpawn
  <2> QED
    BY <2>1
<1>5. CASE Renew(c)
  <2>1. /\ phase'[c] = "in" /\ heart'[c] = "renewed" /\ timer'[c] = timer[c]
        /\ token'[c] = token[c] /\ key' = key /\ ttl' = TTL /\ timer[c] >= Interval
        /\ Holds(c)
    BY <1>5 DEF Renew
  <2> QED
    BY <2>1
<1>6. CASE Resume(c)
  <2>1. /\ phase'[c] = "in" /\ heart'[c] = "sleeping" /\ timer'[c] = 0
        /\ token'[c] = token[c] /\ key' = key /\ ttl' = ttl /\ heart[c] = "renewed"
    BY <1>6 DEF Resume, redis
  <2> QED
    BY <2>1
<1>7. CASE FailToRenew(c)
  <2>1. phase'[c] = phase[c] /\ phase[c] = "in" /\ heart'[c] = "failed"
    BY <1>7 DEF FailToRenew
  <2> QED
    BY <2>1
<1>8. CASE Leave(c)
  <2>1. phase'[c] = "leaving" /\ heart'[c] = "none"
    BY <1>8 DEF Leave
  <2> QED
    BY <2>1
<1>9. CASE Release(c) \/ FailToRelease(c)
  <2>1. phase'[c] = "out" /\ heart'[c] = heart[c] /\ heart[c] \notin Beating
    BY <1>9 DEF Release, FailToRelease
  <2> QED
    BY <2>1
<1>10. CASE Shutdown(c)
  <2>1. /\ phase'[c] = phase[c] /\ token'[c] = token[c] /\ key' = key /\ ttl' = ttl
        /\ \/ heart'[c] = "cancelled" /\ heart[c] \in Beating
           \/ heart'[c] = heart[c] /\ timer'[c] = timer[c] /\ heart[c] \notin Beating
    BY <1>10 DEF Shutdown, redis
  <2> QED
    BY <2>1
<1>11. CASE Crash(c)
  <2>1. phase'[c] = "out" /\ heart'[c] = "none"
    BY <1>11 DEF Crash
  <2> QED
    BY <2>1
<1> QED
  BY <1>1, <1>2, <1>3, <1>4, <1>5, <1>6, <1>7, <1>8, <1>9, <1>10, <1>11 DEF Operation

LEMMA LeaseTick ==
  ASSUME TypeOK, LeaseInv, Tick, NEW c \in Client, Prompt(c)
  PROVE  Lease(c)'
<1>0. /\ Lease(c)
      /\ ttl \in Nat /\ timer[c] \in Nat
      /\ TTL \in Nat /\ Interval \in Nat /\ Delay[c] \in Nat
      /\ TTL > Interval + 2 * Delay[c]
      /\ UNCHANGED <<phase, token, heart>>
  BY MutexAssumption DEF TypeOK, LeaseInv, Tick, Prompt
<1>1. timer'[c] = IF Timed(c) THEN timer[c] + 1 ELSE timer[c]
  BY DEF Tick
<1>2. /\ phase[c] = "entering" => timer[c] < Delay[c]
      /\ heart[c] \in Beating => timer[c] < Interval + Delay[c]
  BY DEF Tick, Punctual
<1>3. CASE phase[c] # "entering" /\ heart[c] \notin Beating
  BY <1>0, <1>3 DEF Lease, Beating
<1>4. CASE Timed(c)
  <2>1. timer'[c] = timer[c] + 1
    BY <1>1, <1>4
  <2>2. ttl > 1
    BY <1>0, <1>2, <1>4 DEF Lease, Timed, Beating
  <2>3. ttl' = ttl - 1 /\ key' = key
    BY <1>0, <2>2 DEF Tick
  <2> QED
    BY <1>0, <1>2, <2>1, <2>2, <2>3 DEF Lease, Holds, Beating
<1> QED
  BY <1>3, <1>4 DEF Timed

LEMMA LeaseInvariant == Spec => []LeaseInv
<1>1. Init => LeaseInv
  BY DEF Init, LeaseInv, Lease, Beating
<1>2. TypeOK /\ TypeOK' /\ TokenInv /\ LeaseInv /\ [Next]_vars => LeaseInv'
  <2> SUFFICES ASSUME TypeOK, TypeOK', TokenInv, LeaseInv, [Next]_vars,
                      NEW c \in Client, Prompt(c)
               PROVE  Lease(c)'
    BY DEF LeaseInv, Prompt
  <2>1. CASE UNCHANGED vars
    BY <2>1 DEF LeaseInv, Lease, Holds, vars, redis, client
  <2>2. ASSUME NEW d \in Client, Operation(d)
        PROVE  Lease(c)'
    BY <2>2, LeaseOfOthers, LeaseOfOwn
  <2> QED
    BY <2>1, <2>2, LeaseTick DEF Next
<1> QED
  BY <1>1, <1>2, TokenInvariant, PTL DEF Spec

\* A prompt client that passes check_alive has the lock, however late the
\* others are.
THEOREM AliveClientsHaveLock == Spec => []AliveHasLock
<1>1. TypeOK /\ LeaseInv => AliveHasLock
  BY DEF TypeOK, LeaseInv, Lease, Holds, AliveHasLock, Works, Inside, Lost, Hearts, Beating
<1> QED
  BY <1>1, LeaseInvariant, TypeCorrect, PTL

\* The lock belongs to whoever works under it, and only he gives it away.
THEOREM LockKept == Spec => LockIsKept
  BY TypeCorrect, AliveClientsHaveLock, OnlyHoldersRelease, PTL DEF LockIsKept

(***************************************************************************)
(* Mutual exclusion                                                        *)
(***************************************************************************)
Working == {c \in Client : Prompt(c) /\ Works(c)}

LEMMA WorkerHolds ==
  ASSUME TypeOK, LeaseInv, NEW c \in Working
  PROVE  Holds(c) /\ heart[c] \in Beating
BY DEF Working, Works, TypeOK, LeaseInv, Lease, Inside, Lost, Hearts

LEMMA SectionStep ==
  ASSUME TypeOK, TokenInv, LeaseInv, [Next]_vars
  PROVE  [Section!Next]_Working
<1>1. ASSUME NEW c \in Client, Enter(c), Prompt(c)
      PROVE  Section!Next
  <2>1. Holds(c)
    BY <1>1 DEF Enter, LeaseInv, Lease
  <2>2. Working = {}
    <3> SUFFICES ASSUME NEW d \in Working PROVE FALSE
      OBVIOUS
    <3>1. d \in Client /\ phase[d] = "in"
      BY DEF Working, Works, Inside
    <3>2. Holds(d)
      BY WorkerHolds
    <3>3. d = c
      BY <2>1, <3>1, <3>2 DEF Holds, TokenInv
    <3> QED
      BY <1>1, <3>1, <3>3 DEF Enter
  <2>3. Working' = {c}
    <3>1. Inside(c)' /\ ~Lost(c)'
      BY <1>1 DEF Enter, Inside, Lost, TypeOK
    <3>2. \A d \in Client \ {c} : phase'[d] = phase[d] /\ heart'[d] = heart[d]
      BY <1>1 DEF Enter, TypeOK
    <3> QED
      BY <1>1, <2>2, <3>1, <3>2 DEF Working, Works, Inside, Lost, Prompt
  <2> QED
    BY <2>2, <2>3 DEF Section!Next, Section!Enter, Working
<1>2. ASSUME NEW c \in Client,
             \A d \in Client \ {c} : phase'[d] = phase[d] /\ heart'[d] = heart[d],
             c \in Working' => c \in Working
      PROVE  [Section!Next]_Working
  <2>1. \A d \in Client \ {c} : d \in Working' <=> d \in Working
    BY <1>2 DEF Working, Works, Inside, Lost, Prompt
  <2>2. Working' = Working \/ (c \in Working /\ Working' = Working \ {c})
    BY <1>2, <2>1 DEF Working
  <2> QED
    BY <2>2 DEF Section!Next, Section!Leave, Working
<1>3. ASSUME NEW c \in Client, NEW t \in Token, Acquire(c, t) \/ LoseAcquire(c, t)
      PROVE  [Section!Next]_Working
  <2>1. /\ \A d \in Client \ {c} : phase'[d] = phase[d] /\ heart'[d] = heart[d]
        /\ phase'[c] # "in"
    BY <1>3 DEF Acquire, LoseAcquire, client, TypeOK
  <2> QED
    BY <1>2, <2>1 DEF Working, Works, Inside
<1>4. ASSUME NEW c \in Client,
             FailToSpawn(c) \/ Leave(c) \/ Release(c) \/ FailToRelease(c) \/ Crash(c)
      PROVE  [Section!Next]_Working
  <2>1. /\ \A d \in Client \ {c} : phase'[d] = phase[d] /\ heart'[d] = heart[d]
        /\ phase'[c] # "in"
    BY <1>4 DEF FailToSpawn, Leave, Release, FailToRelease, Crash, TypeOK
  <2> QED
    BY <1>2, <2>1 DEF Working, Works, Inside
<1>5. ASSUME NEW c \in Client, Renew(c) \/ Resume(c) \/ FailToRenew(c) \/ Shutdown(c)
      PROVE  [Section!Next]_Working
  <2>1. /\ \A d \in Client \ {c} : phase'[d] = phase[d] /\ heart'[d] = heart[d]
        /\ phase'[c] = phase[c]
        /\ heart'[c] = heart[c] \/ heart[c] \in Beating
    BY <1>5 DEF Renew, Resume, FailToRenew, Shutdown, TypeOK, Beating
  <2> QED
    BY <1>2, <2>1 DEF Working, Works, Inside, Lost, Beating, Prompt
<1>6. CASE Tick \/ UNCHANGED vars
  BY <1>6 DEF Tick, vars, client, Working, Works, Inside, Lost, Prompt
<1>7. ASSUME NEW c \in Client, Enter(c), ~Prompt(c)
      PROVE  [Section!Next]_Working
  <2>1. \A d \in Client \ {c} : phase'[d] = phase[d] /\ heart'[d] = heart[d]
    BY <1>7 DEF Enter, TypeOK
  <2> QED
    BY <1>2, <1>7, <2>1 DEF Working, Prompt
<1> QED
  BY <1>1, <1>3, <1>4, <1>5, <1>6, <1>7 DEF Next, Operation

\* Prompt clients that pass check_alive exclude each other.
THEOREM AliveClientsExcludeEachOther == Spec => ImplementsCriticalSection
<1>1. Init => Section!Init
  BY DEF Init, Section!Init, Works, Inside
<1>2. TypeOK /\ TokenInv /\ LeaseInv /\ [Next]_vars => [Section!Next]_Working
  BY SectionStep
<1> QED
  BY <1>1, <1>2, TokenInvariant, LeaseInvariant, PTL
     DEF Spec, ImplementsCriticalSection, Section!Spec, Working
=============================================================================

-------------------------- MODULE DistributedMutex --------------------------
(***************************************************************************)
(* The lock of the curator cycle: a Redis key that holds a token and       *)
(* expires, a heartbeat task that renews it while its client is inside     *)
(* "async with", and check_alive, by which the client asks whether it      *)
(* still has it (storage/lock/mutex.py over storage/lock/redis.py).        *)
(*                                                                         *)
(* A client is a process that enters the mutex, one cycle after another.   *)
(* Time is counted in ticks.  A reply to client c, or a task of c that is  *)
(* due, may be up to Delay[c] ticks late: the network and whatever blocks  *)
(* the event loop.                                                         *)
(***************************************************************************)
EXTENDS Naturals, FiniteSets

CONSTANTS
    Client,    \* processes that may enter
    Token,     \* values of secrets.token_hex
    NoToken,   \* no token
    TTL,       \* ttl_ms
    Interval,  \* heartbeat_interval_s
    Delay,     \* [Client -> the most a step of it may be late]
    Faults     \* what may go wrong

\* The checks of the constructor are those on TTL and Interval.
ASSUME MutexAssumption ==
    /\ NoToken \notin Token
    /\ TTL \in Nat \ {0}
    /\ Interval \in Nat \ {0}
    /\ 2 * Interval < TTL
    /\ Delay \in [Client -> Nat]
    /\ Faults \subseteq {"error", "crash", "shutdown"}

VARIABLES
    key,     \* the value of the Redis key
    ttl,     \* ticks until it expires
    spent,   \* tokens that were drawn
    phase,   \* [Client -> where it is in "async with"]
    token,   \* [Client -> _token]
    heart,   \* [Client -> its heartbeat task]
    timer,   \* [Client -> ticks since acquire ran, or since the heartbeat slept]
    closed   \* clients whose TaskManager is shut down

redis  == <<key, ttl>>
client == <<phase, token, heart, timer, closed>>
vars   == <<redis, spent, client>>

Phases == {"out", "entering", "in", "leaving"}
Beating == {"sleeping", "renewed", "refused"}
Hearts == {"none", "failed", "cancelled"} \cup Beating

Init ==
    /\ key = NoToken
    /\ ttl = 0
    /\ spent = {}
    /\ phase = [c \in Client |-> "out"]
    /\ token = [c \in Client |-> NoToken]
    /\ heart = [c \in Client |-> "none"]
    /\ timer = [c \in Client |-> 0]
    /\ closed = {}

\* Mutant: only the event counts, not the end of the task.
LostIfSignalled(c) == heart[c] = "failed"

\* lost: the heartbeat has failed, or its task has ended without a word.
Lost(c) == heart[c] \in {"failed", "cancelled"}

Inside(c) == phase[c] = "in"

(***************************************************************************)
(* __aenter__                                                              *)
(***************************************************************************)
\* Mutant: SET without NX.
AcquireBusy(c, t) ==
    /\ phase[c] = "out"
    /\ t \notin spent
    /\ key' = t
    /\ ttl' = TTL
    /\ spent' = spent \cup {t}
    /\ token' = [token EXCEPT ![c] = t]
    /\ phase' = [phase EXCEPT ![c] = "entering"]
    /\ heart' = [heart EXCEPT ![c] = "none"]
    /\ timer' = [timer EXCEPT ![c] = 0]
    /\ UNCHANGED closed

\* SET NX PX of a fresh token; a busy lock raises and changes nothing.
Acquire(c, t) ==
    /\ phase[c] = "out"
    /\ t \notin spent
    /\ key = NoToken
    /\ key' = t
    /\ ttl' = TTL
    /\ spent' = spent \cup {t}
    /\ token' = [token EXCEPT ![c] = t]
    /\ phase' = [phase EXCEPT ![c] = "entering"]
    /\ heart' = [heart EXCEPT ![c] = "none"]
    /\ timer' = [timer EXCEPT ![c] = 0]
    /\ UNCHANGED closed

\* The SET runs but its reply is lost: acquire raises, nobody has the token.
LoseAcquire(c, t) ==
    /\ "error" \in Faults
    /\ phase[c] = "out"
    /\ t \notin spent
    /\ key = NoToken
    /\ key' = t
    /\ ttl' = TTL
    /\ spent' = spent \cup {t}
    /\ UNCHANGED client

\* The token arrives and the heartbeat starts its first sleep.
Enter(c) ==
    /\ phase[c] = "entering"
    /\ c \notin closed
    /\ phase' = [phase EXCEPT ![c] = "in"]
    /\ heart' = [heart EXCEPT ![c] = "sleeping"]
    /\ timer' = [timer EXCEPT ![c] = 0]
    /\ UNCHANGED <<redis, spent, token, closed>>

\* A closed TaskManager spawns no heartbeat: __aenter__ raises, and the key
\* is left to expire.
FailToSpawn(c) ==
    /\ phase[c] = "entering"
    /\ c \in closed
    /\ phase' = [phase EXCEPT ![c] = "out"]
    /\ timer' = [timer EXCEPT ![c] = 0]
    /\ UNCHANGED <<redis, spent, token, heart, closed>>

(***************************************************************************)
(* _heartbeat                                                              *)
(***************************************************************************)
\* Mutant: PEXPIRE whoever holds the key.
RenewBlindly(c) ==
    /\ heart[c] = "sleeping"
    /\ timer[c] >= Interval
    /\ ttl' = IF key = NoToken THEN 0 ELSE TTL
    /\ heart' = [heart EXCEPT ![c] = "renewed"]
    /\ UNCHANGED <<key, spent, phase, token, timer, closed>>

\* The sleep is over and the renewal script runs.
Renew(c) ==
    /\ heart[c] = "sleeping"
    /\ timer[c] >= Interval
    /\ IF key = token[c]
       THEN ttl' = TTL /\ heart' = [heart EXCEPT ![c] = "renewed"]
       ELSE heart' = [heart EXCEPT ![c] = "refused"] /\ UNCHANGED ttl
    /\ UNCHANGED <<key, spent, phase, token, timer, closed>>

\* The reply arrives: sleep again, or set the event and raise LockLostError.
Resume(c) ==
    /\ heart[c] \in {"renewed", "refused"}
    /\ heart' = [heart EXCEPT ![c] = IF @ = "renewed" THEN "sleeping" ELSE "failed"]
    /\ timer' = [timer EXCEPT ![c] = 0]
    /\ UNCHANGED <<redis, spent, phase, token, closed>>

\* The renewal times out, before or after Redis has run it.
FailToRenew(c) ==
    /\ "error" \in Faults
    /\ heart[c] \in Beating
    /\ heart[c] = "sleeping" => timer[c] >= Interval
    /\ heart' = [heart EXCEPT ![c] = "failed"]
    /\ timer' = [timer EXCEPT ![c] = 0]
    /\ UNCHANGED <<redis, spent, phase, token, closed>>

(***************************************************************************)
(* __aexit__                                                               *)
(***************************************************************************)
\* Mutant: the heartbeat is left running.
LeaveBeating(c) ==
    /\ phase[c] = "in"
    /\ phase' = [phase EXCEPT ![c] = "leaving"]
    /\ UNCHANGED <<redis, spent, token, heart, timer, closed>>

\* The body is over, by itself or by LockLostError; the heartbeat is
\* cancelled.
Leave(c) ==
    /\ phase[c] = "in"
    /\ phase' = [phase EXCEPT ![c] = "leaving"]
    /\ heart' = [heart EXCEPT ![c] = "none"]
    /\ timer' = [timer EXCEPT ![c] = 0]
    /\ UNCHANGED <<redis, spent, token, closed>>

\* The release script deletes the key if it still holds the token.
Release(c) ==
    /\ phase[c] = "leaving"
    /\ phase' = [phase EXCEPT ![c] = "out"]
    /\ IF key = token[c]
       THEN key' = NoToken /\ ttl' = 0
       ELSE UNCHANGED redis
    /\ UNCHANGED <<spent, token, heart, timer, closed>>

\* The release does not reach Redis; the error is only logged.
FailToRelease(c) ==
    /\ "error" \in Faults
    /\ phase[c] = "leaving"
    /\ phase' = [phase EXCEPT ![c] = "out"]
    /\ UNCHANGED <<redis, spent, token, heart, timer, closed>>

(***************************************************************************)
(* The process and the clock                                               *)
(***************************************************************************)
\* TaskManager.shutdown cancels the heartbeat.  A cycle that is itself a task
\* is cancelled with it and leaves; one run by a command goes on.
Shutdown(c) ==
    /\ "shutdown" \in Faults
    /\ c \notin closed
    /\ closed' = closed \cup {c}
    /\ heart' = [heart EXCEPT ![c] = IF @ \in Beating THEN "cancelled" ELSE @]
    /\ timer' = [timer EXCEPT ![c] = IF heart[c] \in Beating THEN 0 ELSE @]
    /\ UNCHANGED <<redis, spent, phase, token>>

\* The process dies, or ends after a shutdown; a new one takes its place.
Crash(c) ==
    /\ "crash" \in Faults
    /\ phase' = [phase EXCEPT ![c] = "out"]
    /\ token' = [token EXCEPT ![c] = NoToken]
    /\ heart' = [heart EXCEPT ![c] = "none"]
    /\ timer' = [timer EXCEPT ![c] = 0]
    /\ closed' = closed \ {c}
    /\ UNCHANGED <<redis, spent>>

Timed(c) == phase[c] = "entering" \/ heart[c] \in Beating

\* What is due comes before the next tick.
Punctual(c) ==
    /\ phase[c] = "entering" => timer[c] < Delay[c]
    /\ heart[c] \in Beating => timer[c] < Interval + Delay[c]

Tick ==
    /\ key # NoToken \/ \E c \in Client : Timed(c)
    /\ \A c \in Client : Punctual(c)
    /\ timer' = [c \in Client |-> IF Timed(c) THEN timer[c] + 1 ELSE timer[c]]
    /\ ttl' = IF ttl = 0 THEN 0 ELSE ttl - 1
    /\ key' = IF ttl' = 0 THEN NoToken ELSE key
    /\ UNCHANGED <<spent, phase, token, heart, closed>>

Operation(c) ==
    \/ \E t \in Token : Acquire(c, t) \/ LoseAcquire(c, t)
    \/ Enter(c) \/ FailToSpawn(c)
    \/ Renew(c) \/ Resume(c) \/ FailToRenew(c)
    \/ Leave(c) \/ Release(c) \/ FailToRelease(c)
    \/ Shutdown(c) \/ Crash(c)

Next == Tick \/ \E c \in Client : Operation(c)

Spec == Init /\ [][Next]_vars

\* Time passes, and tasks that are ready are resumed.  How long a client stays
\* inside is its own affair.
Fairness ==
    /\ WF_vars(Tick)
    /\ \A c \in Client :
        /\ WF_vars(Enter(c) \/ FailToSpawn(c))
        /\ WF_vars(Renew(c) \/ Resume(c))
        /\ WF_vars(Release(c))

\* A cycle comes to its end: its model calls are bounded by timeouts.
FiniteCycles == \A c \in Client : WF_vars(Leave(c))

FairSpec == Spec /\ Fairness

(***************************************************************************)
(* What it promises                                                        *)
(***************************************************************************)
\* Types, and that the key has a life exactly when it has a value.
TypeOK ==
    /\ key \in Token \cup {NoToken}
    /\ ttl \in 0 .. TTL
    /\ spent \subseteq Token
    /\ phase \in [Client -> Phases]
    /\ token \in [Client -> Token \cup {NoToken}]
    /\ heart \in [Client -> Hearts]
    /\ timer \in [Client -> Nat]
    /\ \A c \in Client : timer[c] <= Interval + Delay[c]
    /\ closed \subseteq Client
    /\ key = NoToken <=> ttl = 0

\* An interval and two late steps pass before the lock of c expires: that
\* of the heartbeat, and that of the reply to the SET or the renewal.
Prompt(c) == TTL > Interval + 2 * Delay[c]

\* Passing check_alive.
Works(c) == Inside(c) /\ ~Lost(c)

\* A prompt client that passes check_alive has the lock, whatever the others
\* do and whatever fails (check_alive, _heartbeat).
AliveHasLock == \A c \in Client : Prompt(c) /\ Works(c) => key = token[c]

\* The key goes only when it expires or its holder releases it: an expired
\* holder never deletes the lock of the next one (_RELEASE_SCRIPT).
OnlyHolderReleases ==
    [][key # NoToken /\ key' = NoToken /\ ttl > 1
         => \E c \in Client : phase[c] = "leaving" /\ token[c] = key]_vars

\* The lock belongs to whoever works under it, and nobody else takes it away
\* before it expires.
LockIsKept == [](TypeOK /\ AliveHasLock) /\ OnlyHolderReleases

\* However long it stays, a client whose lock is gone gets to know it.
LossIsNoticed ==
    \A c \in Client : Inside(c) /\ key # token[c] ~> Lost(c) \/ ~Inside(c)

\* Whatever becomes of its holder, a lock comes free again.
LockComesFree == FiniteCycles => (key # NoToken ~> key = NoToken)

\* Prompt clients work one at a time.
Section ==
    INSTANCE CriticalSection WITH
        inside <- {c \in Client : Prompt(c) /\ Works(c)}

ImplementsCriticalSection == Section!Spec
=============================================================================

----------------------------- MODULE UserTiers -----------------------------
(***************************************************************************)
(* Who may do what in one channel (auth, core/commands/admin.py and        *)
(* tier_store.py): the profiles of users, which /admin user set changes,   *)
(* the tier a chat has chosen with /tier, and the tier a run gets.         *)
(*                                                                         *)
(* Profiles come from Redis or, where Redis has none or does not answer,   *)
(* from the settings; a command reads several keys, one after the other,   *)
(* before it writes one, and a run reads two.                              *)
(***************************************************************************)
EXTENDS Naturals, FiniteSets, FiniteSetsExt

CONSTANTS
    User, Task, None,
    Tier,           \* permission tiers
    Configured,     \* [User -> the profile in the settings, or None]
    Operator,       \* users of admin_user_ids
    Deployed,       \* the deployment's default tier
    MaxCommands, MaxEvents    \* bounds: /admin commands, failures and expiries

Role == {"admin", "member"}
Profile == [role : Role, tier : Tier \cup {None}]

TiersAssumption ==
    /\ Deployed \in Tier /\ None \notin Tier /\ Operator \subseteq User
    /\ Configured \in [User -> Profile \cup {None}]
    /\ \E u \in User : Configured[u] # None /\ Configured[u].role = "admin"

VARIABLES
    stored,     \* [User -> the profile in Redis, or None]
    chosen,     \* the tier of the chat in Redis, or None
    at,         \* [Task -> what it does next]
    job,        \* [Task -> what it has been told and has read]
    commands, events,
    shaken      \* history: a key expired, or a misled command has written

redis == <<stored, chosen>>
vars == <<redis, at, job, commands, events, shaken>>

\* What a task is asked to do (by, target, role, tier), what it has read
\* (current, keys, seen, session), and as history, whether a read failed or was
\* overtaken, how often a tier changed meanwhile, and the tiers then in force.
NoJob ==
    [by |-> None, target |-> None, role |-> None, tier |-> None, current |-> None,
     keys |-> {}, seen |-> [u \in User |-> None], session |-> None,
     misled |-> FALSE, changes |-> 0, possible |-> {}]

Init ==
    /\ stored = [u \in User |-> None] /\ chosen = None
    /\ at = [t \in Task |-> "idle"] /\ job = [t \in Task |-> NoJob]
    /\ commands = 0 /\ events = 0 /\ shaken = FALSE

-----------------------------------------------------------------------------
\* _build_default_store: what the settings say of a user.
FromSettings(u) ==
    IF Configured[u] # None THEN Configured[u] ELSE [role |-> "member", tier |-> None]

\* RedisJsonStore.get, if Redis has answered with p.
Known(u, p) == IF p # None THEN p ELSE FromSettings(u)
ProfileOf(u) == Known(u, stored[u])

\* _is_admin
IsAdmin(u, p) == p.role = "admin" \/ u \in Operator

\* resolve_effective_tier: the first that is set.
FirstSet(tiers) == tiers[Min({i \in DOMAIN tiers : tiers[i] # None})]

\* The tier of a run; those of the web come with a tier of their own or with
\* none, and do not ask for the chat's.
TierFor(j, profile) == FirstSet(<<j.tier, j.session, profile.tier, Deployed>>)
InForce(j, profiles, chat) ==
    FirstSet(<<j.tier, IF j.target = "chat" THEN chat ELSE None,
               Known(j.by, profiles[j.by]).tier, Deployed>>)

Works == UNCHANGED events
Fails == events < MaxEvents /\ events' = events + 1

\* A task that reads a key gets what is there, or does not get it.
Reads(t, value, got, misled) ==
    \/ got = value /\ misled = job[t].misled /\ Works
    \/ got = None /\ misled /\ Fails

Go(t, next) == at' = [at EXCEPT ![t] = next]
Ends(t) == Go(t, "idle") /\ job' = [job EXCEPT ![t] = NoJob]

\* Others get to know of a change only if they read again.
Overtaken(except, profiles, chat) ==
    [t \in Task |->
       IF t = except THEN NoJob
       ELSE IF at[t] \in {"fetch", "scan", "look up", "save"}
            THEN [job[t] EXCEPT !.misled = TRUE]
       ELSE IF at[t] = "resolve"
            THEN [job[t] EXCEPT !.changes = IF @ < 2 THEN @ + 1 ELSE @,
                                !.possible = @ \cup {InForce(job[t], profiles, chat)}]
       ELSE job[t]]

-----------------------------------------------------------------------------
(***************************************************************************)
(* /admin user set                                                         *)
(***************************************************************************)
\* The command adapter looks up the role of u; whoever is no admin is told so.
Admit(t, u, target, role, tier) ==
    /\ at[t] = "idle" /\ commands < MaxCommands
    /\ \E p \in {stored[u], None}, misled \in BOOLEAN :
         /\ Reads(t, stored[u], p, misled)
         /\ IsAdmin(u, Known(u, p))
         /\ job' = [job EXCEPT ![t] = [NoJob EXCEPT !.by = u, !.target = target, !.role = role,
                                                    !.tier = tier, !.misled = misled]]
    /\ Go(t, "fetch") /\ commands' = commands + 1
    /\ UNCHANGED <<redis, shaken>>

\* Mutant: whoever demotes another is asked the same, himself he may demote.
FetchOthers(t) ==
    /\ at[t] = "fetch"
    /\ \E p \in {stored[job[t].target], None}, misled \in BOOLEAN :
         LET current == Known(job[t].target, p)
             role == IF job[t].role # None THEN job[t].role ELSE current.role
         IN  /\ Reads(t, stored[job[t].target], p, misled)
             /\ job' = [job EXCEPT ![t].current = current, ![t].role = role, ![t].misled = misled]
             /\ Go(t, IF job[t].by # job[t].target /\ current.role = "admin" /\ role # "admin"
                      THEN "scan" ELSE "save")
    /\ UNCHANGED <<redis, commands, shaken>>

\* It gets the profile; an admin who demotes himself must not be the last.
Fetch(t) ==
    /\ at[t] = "fetch"
    /\ \E p \in {stored[job[t].target], None}, misled \in BOOLEAN :
         LET current == Known(job[t].target, p)
             role == IF job[t].role # None THEN job[t].role ELSE current.role
         IN  /\ Reads(t, stored[job[t].target], p, misled)
             /\ job' = [job EXCEPT ![t].current = current, ![t].role = role, ![t].misled = misled]
             /\ Go(t, IF job[t].by = job[t].target /\ current.role = "admin" /\ role # "admin"
                      THEN "scan" ELSE "save")
    /\ UNCHANGED <<redis, commands, shaken>>

\* list_users: the keys ...
Scan(t) ==
    /\ at[t] = "scan"
    /\ \/ job' = [job EXCEPT ![t].keys = {u \in User : stored[u] # None}] /\ Works
       \/ job' = [job EXCEPT ![t].misled = TRUE] /\ Fails
    /\ Go(t, "look up")
    /\ UNCHANGED <<redis, commands, shaken>>

\* ... their values, one by one ...
LookUp(t, u) ==
    /\ at[t] = "look up" /\ u \in job[t].keys
    /\ \E p \in {stored[u], None}, misled \in BOOLEAN :
         /\ Reads(t, stored[u], p, misled)
         /\ job' = [job EXCEPT ![t].keys = @ \ {u}, ![t].seen[u] = p, ![t].misled = misled]
    /\ UNCHANGED <<redis, at, commands, shaken>>

\* ... and those the settings know besides.
Listed(t, u) == Known(u, job[t].seen[u])

\* The last admin stays; otherwise the profile is changed in the given fields.
Judge(t) ==
    /\ at[t] = "look up" /\ job[t].keys = {}
    /\ IF Cardinality({u \in User : Listed(t, u).role = "admin"}) <= 1
       THEN Ends(t)
       ELSE Go(t, "save") /\ UNCHANGED job
    /\ UNCHANGED <<redis, commands, events, shaken>>

\* RedisJsonStore.set; it may fail, or only its reply be lost.
Save(t) ==
    /\ at[t] = "save"
    /\ LET updated == [role |-> job[t].role,
                       tier |-> IF job[t].tier # None THEN job[t].tier ELSE job[t].current.tier]
           after == [stored EXCEPT ![job[t].target] = updated]
       IN  stored' = after /\ job' = Overtaken(t, after, chosen)
    /\ Go(t, "idle")
    /\ shaken' = (shaken \/ job[t].misled)
    /\ UNCHANGED <<chosen, commands, events>>

FailToSave(t) ==
    /\ at[t] = "save"
    /\ Fails /\ Ends(t)
    /\ UNCHANGED <<redis, commands, shaken>>

-----------------------------------------------------------------------------
(***************************************************************************)
(* /tier and the runs                                                      *)
(***************************************************************************)
\* cmd_tier in Feishu: the chat chooses a tier.
ChooseTier(tier) ==
    /\ chosen' = tier /\ job' = Overtaken(None, stored, tier)
    /\ UNCHANGED <<stored, at, commands, events, shaken>>

\* A run in Feishu looks up the tier of the chat ...
BeginInChat(t, u) ==
    /\ at[t] = "idle"
    /\ \E tier \in {chosen, None}, misled \in BOOLEAN :
         LET j == [NoJob EXCEPT !.by = u, !.target = "chat", !.session = tier, !.misled = misled]
         IN  /\ Reads(t, chosen, tier, misled)
             /\ job' = [job EXCEPT ![t] = [j EXCEPT !.possible = {InForce(j, stored, chosen)}]]
    /\ Go(t, "resolve")
    /\ UNCHANGED <<redis, commands, shaken>>

\* ... one in the web gets what the message says, if anything ...
BeginInWeb(t, u, tier) ==
    /\ at[t] = "idle"
    /\ LET j == [NoJob EXCEPT !.by = u, !.tier = tier]
       IN  job' = [job EXCEPT ![t] = [j EXCEPT !.possible = {InForce(j, stored, chosen)}]]
    /\ Go(t, "resolve")
    /\ UNCHANGED <<redis, commands, events, shaken>>

\* ... and then both the profile of the user: resolve_profile_and_tier.
Resolve(t) ==
    /\ at[t] = "resolve"
    /\ \E p \in {stored[job[t].by], None}, misled \in BOOLEAN :
         /\ Reads(t, stored[job[t].by], p, misled)
         /\ job' = [job EXCEPT ![t].tier = TierFor(job[t], Known(job[t].by, p)),
                               ![t].misled = misled]
    /\ Go(t, "run")
    /\ UNCHANGED <<redis, commands, shaken>>

RunEnds(t) ==
    /\ at[t] = "run"
    /\ Ends(t)
    /\ UNCHANGED <<redis, commands, events, shaken>>

-----------------------------------------------------------------------------
\* Thirty days after a profile was set, however often it was read since; seven
\* days after the chat chose.
ProfileExpires(u) ==
    /\ stored[u] # None /\ Fails
    /\ stored' = [stored EXCEPT ![u] = None] /\ shaken' = TRUE
    /\ job' = Overtaken(None, [stored EXCEPT ![u] = None], chosen)
    /\ UNCHANGED <<chosen, at, commands>>

TierExpires ==
    /\ chosen # None /\ Fails
    /\ chosen' = None /\ job' = Overtaken(None, stored, None)
    /\ UNCHANGED <<stored, at, commands, shaken>>

AdminStep(t) ==
    \/ \E u, target \in User, role \in Role \cup {None}, tier \in Tier \cup {None} :
         Admit(t, u, target, role, tier)
    \/ Fetch(t) \/ Scan(t) \/ (\E u \in User : LookUp(t, u)) \/ Judge(t)
    \/ Save(t) \/ FailToSave(t)

RunStep(t) ==
    \/ \E u \in User : \/ BeginInChat(t, u)
                       \/ \E tier \in Tier \cup {None} : BeginInWeb(t, u, tier)
    \/ Resolve(t) \/ RunEnds(t)

Next ==
    \/ \E t \in Task : AdminStep(t) \/ RunStep(t)
    \/ \E tier \in Tier : ChooseTier(tier)
    \/ \E u \in User : ProfileExpires(u)
    \/ TierExpires

Spec == Init /\ [][Next]_vars

-----------------------------------------------------------------------------
(***************************************************************************)
(* Properties                                                              *)
(***************************************************************************)
TypeOK ==
    /\ stored \in [User -> Profile \cup {None}] /\ chosen \in Tier \cup {None}
    /\ at \in [Task -> {"idle", "fetch", "scan", "look up", "save", "resolve", "run"}]
    /\ \A t \in Task : at[t] = "idle" => job[t] = NoJob
    /\ \A t \in Task : at[t] = "run" => job[t].tier \in Tier
    /\ commands \in 0 .. MaxCommands /\ events \in 0 .. MaxEvents

\* Someone can always use /admin, as long as no profile expires and no command
\* writes after a read that failed or that another command has overtaken: the
\* guard against the last admin's demotion of himself is enough, because who
\* demotes another is an admin himself (_handle_set).
AnAdminStays == shaken \/ \E u \in User : IsAdmin(u, ProfileOf(u))

\* A run gets a tier that was in force at some moment between its two reads, if
\* no read failed and no more than one change fell between them
\* (_dispatch_and_reply, resolve_effective_tier).
TierWasInForce ==
    \A t \in Task :
        at[t] = "run" /\ ~job[t].misled /\ job[t].changes <= 1
        => job[t].tier \in job[t].possible

\* Admins and tiers are what the commands have made of them.
TiersHold == TypeOK /\ AnAdminStays /\ TierWasInForce
=============================================================================

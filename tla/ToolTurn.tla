------------------------------ MODULE ToolTurn ------------------------------
(***************************************************************************)
(* The tool turns of one run: the runner evaluates the permission tier of  *)
(* every tool call of an answer, has the channel's approval hook wait for  *)
(* the user's decisions one call after the other, executes what is left    *)
(* and appends the results.  The user decides in the web client or on a    *)
(* Feishu card, when and as often as he likes; MCP tools come and go       *)
(* meanwhile, and the run may be aborted or cancelled.                     *)
(***************************************************************************)
EXTENDS Naturals, Sequences, FiniteSets, FiniteSetsExt

CONSTANTS
    Tool,           \* names of tools
    Mcp,            \* tools of MCP servers: the model writes their names with __
    Write,          \* tools of class "write"
    Parallel,       \* tools without side effects
    Gated,          \* tools_requiring_approval
    Forced,         \* [Mcp -> forced_tier of the server, or "none"]
    MaxCalls,       \* bound on the tool calls of a run
    MaxBatch,       \* bound on the tool calls of an answer
    Threshold,      \* retry.unknown_tool_threshold
    MaxClicks,      \* bound on the decisions a user sends
    MaxChanges      \* bound on MCP tools coming and going

Tier == {"yolo", "approval", "read-only"}
Decision == {"approve", "deny"}
Call == 1..MaxCalls

ASSUME ToolTurnAssumption ==
    /\ Mcp \subseteq Tool /\ Write \subseteq Tool /\ Gated \subseteq Tool
    /\ Parallel \subseteq Tool \ Write
    /\ Forced \in [Mcp -> Tier \cup {"none"}]
    /\ MaxCalls \in Nat /\ MaxBatch \in Nat /\ Threshold \in Nat \ {0}
    /\ MaxClicks \in Nat /\ MaxChanges \in Nat

VARIABLES
    channel,     \* its hook: "web", "feishu", or "none"
    tier,        \* the turn's permission tier
    present,     \* tools in the registry
    phase,       \* where the runner is
    tool,        \* the tool that each call of the run names, a sequence
    batch,       \* calls of the answer in hand
    gated,       \* calls of the batch that still await a decision
    asking,      \* the call that the hook waits for, or 0
    heard,       \* the pending entry's decision, or "none"
    denied,      \* calls of the batch that were refused
    todo,        \* calls of the batch that are still to be executed
    result,      \* [Call -> what became of it, "none" before]
    answers,     \* [Call -> number of results stored for it]
    loop,        \* unknown-tool loop: the tool's name, its count, warned
    card,        \* [Call -> what its Feishu card shows]
    inbox,       \* clicks on their way from Feishu's thread to the loop
    aborted,     \* the abort event
    requested,   \* calls that the user was asked about
    said,        \* history: <<call, decision>> recorded during its wait
    stray,       \* history: calls with a click that came too late, or to
                 \* another worker
    away,        \* history: calls whose tool was not registered when the
                 \* tiers were evaluated
    warnings,    \* history: calls to which only guidance was given
    clicks,
    changes

turn  == <<batch, gated, denied, todo>>
ask   == <<asking, heard>>
user  == <<card, inbox, said, stray, clicks>>
env   == <<channel, tier>>
vars  == <<env, present, phase, tool, turn, ask, result, answers, loop, user, aborted,
           requested, away, warnings, changes>>

Quiet == [name |-> "none", count |-> 0, warned |-> FALSE]

Init ==
    /\ channel \in {"web", "feishu", "none"}
    /\ tier \in Tier
    /\ \E P \in SUBSET Mcp : present = (Tool \ Mcp) \cup P
    /\ phase = "model"
    /\ tool = <<>>
    /\ batch = {} /\ gated = {} /\ denied = {} /\ todo = {}
    /\ asking = 0 /\ heard = "none"
    /\ result = [c \in Call |-> "none"]
    /\ answers = [c \in Call |-> 0]
    /\ loop = Quiet
    /\ card = [c \in Call |-> "none"]
    /\ inbox = <<>>
    /\ aborted = FALSE
    /\ requested = {} /\ said = {} /\ stray = {} /\ away = {} /\ warnings = {}
    /\ clicks = 0 /\ changes = 0

-----------------------------------------------------------------------------
(* The model's answer and the loop detection.                              *)

\* The registry's keys do not hold the names that the model uses for MCP tools.
Named(t) == t \in present \ Mcp

\* _update_tool_loop_state for an answer that names the tools of seq.
Looped(seq) ==
    LET unknown == {i \in DOMAIN seq : ~Named(seq[i])}
        n       == seq[Min(unknown)]
        same    == loop.name \in {"none", n}
        count   == (IF same THEN loop.count ELSE 0) + 1
        warned  == same /\ loop.warned
    IN  IF unknown = {} THEN [act |-> "proceed", loop |-> Quiet]
        ELSE [act  |-> IF warned THEN "terminate" ELSE IF count >= Threshold THEN "warn" ELSE "proceed",
              loop |-> [name |-> n, count |-> count, warned |-> warned \/ count >= Threshold]]

Respond(seq) ==
    LET new == (Len(tool) + 1)..(Len(tool) + Len(seq))
        l   == Looped(seq)
    IN  /\ phase = "model"
        /\ ~aborted
        /\ Len(tool) + Len(seq) <= MaxCalls
        /\ tool' = tool \o seq
        /\ loop' = l.loop
        /\ phase' = CASE l.act = "terminate" -> "tool_loop"
                      [] l.act = "warn"      -> "model"
                      [] OTHER               -> "tiers"
        /\ batch' = IF l.act = "proceed" THEN new ELSE {}
        /\ warnings' = IF l.act = "proceed" THEN warnings ELSE warnings \cup new
        /\ UNCHANGED <<env, present, gated, denied, todo, ask, result, answers, user, aborted,
                       requested, away, changes>>

\* An answer without tool calls, an error, the abort or the last iteration.
Over ==
    /\ phase = "model"
    /\ phase' = "over"
    /\ UNCHANGED <<env, present, tool, turn, ask, result, answers, loop, user, aborted, requested,
                   away, warnings, changes>>

-----------------------------------------------------------------------------
(* The permission tiers.                                                   *)

Rank == [x \in Tier \cup {"none"} |->
            CASE x = "read-only" -> 2 [] x = "approval" -> 1 [] OTHER -> 0]

Stricter(t) == t \in Mcp /\ Rank[Forced[t]] > Rank[tier]

CallTier(c) ==
    LET t == tool[c] IN IF t \in present /\ Stricter(t) THEN Forced[t] ELSE tier

\* Read-only mode refuses what writes, and what nobody knows.
Refused(c) == CallTier(c) = "read-only" /\ tool[c] \notin present \ Write

NeedsApproval(c) ==
    /\ CallTier(c) = "approval"
    /\ tool[c] \in present
    /\ Stricter(tool[c]) \/ (channel # "none" /\ tool[c] \in Gated)

Evaluate ==
    LET needing == {c \in batch : NeedsApproval(c)} IN
    /\ phase = "tiers"
    /\ denied' = {c \in batch : Refused(c)} \cup (IF channel = "none" THEN needing ELSE {})
    /\ gated' = IF channel = "none" THEN {} ELSE needing
    /\ requested' = requested \cup gated'
    /\ away' = away \cup {c \in batch : tool[c] \notin present}
    /\ phase' = IF gated' = {} THEN "sort" ELSE "ask"
    /\ UNCHANGED <<env, present, tool, batch, todo, ask, result, answers, loop, user, aborted,
                   warnings, changes>>

-----------------------------------------------------------------------------
(* The approval hooks.                                                     *)

\* The next gated call gets its pending entry; on Feishu its card is posted.
Ask(c) ==
    /\ phase = "ask"
    /\ c \in gated
    /\ \A b \in gated : c <= b
    /\ asking' = c
    /\ heard' = "none"
    /\ gated' = gated \ {c}
    /\ phase' = IF channel = "web" THEN "wait" ELSE "post"
    /\ UNCHANGED <<env, present, tool, batch, denied, todo, result, answers, loop, user, aborted,
                   requested, away, warnings, changes>>

Posted ==
    /\ phase = "post"
    /\ card' = [card EXCEPT ![asking] = "buttons"]
    /\ phase' = "wait"
    /\ UNCHANGED <<env, present, tool, turn, ask, result, answers, loop, inbox, said, stray, clicks,
                   aborted, requested, away, warnings, changes>>

\* The entry is discarded and the hook goes on to the next call.
Settle(decision) ==
    /\ denied' = IF decision = "approve" THEN denied ELSE denied \cup {asking}
    /\ asking' = 0
    /\ heard' = "none"
    /\ phase' = IF gated = {} THEN "sort" ELSE "ask"

\* The card cannot be posted, or its id does not come back.
NotPosted ==
    /\ phase = "post"
    /\ Settle("deny")
    /\ card' \in {card, [card EXCEPT ![asking] = "buttons"]}
    /\ UNCHANGED <<env, present, tool, batch, gated, todo, result, answers, loop, inbox, said,
                   stray, clicks, aborted, requested, away, warnings, changes>>

\* The waiter resumes after a decision.
WakeWeb ==
    /\ phase = "wait" /\ channel = "web"
    /\ heard # "none"
    /\ Settle(heard)
    /\ UNCHANGED <<env, present, tool, batch, gated, todo, result, answers, loop, user, aborted,
                   requested, away, warnings, changes>>

\* Mutant: a wait that timed out counts as approved.
TimeOutApproves ==
    /\ phase = "wait" /\ channel = "web"
    /\ heard = "none"
    /\ Settle("approve")
    /\ UNCHANGED <<env, present, tool, batch, gated, todo, result, answers, loop, user, aborted,
                   requested, away, warnings, changes>>

\* Mutant: the wait has no timeout.
TimeOutNever ==
    /\ phase = "wait" /\ channel = "web"
    /\ FALSE
    /\ Settle("deny")
    /\ UNCHANGED <<env, present, tool, batch, gated, todo, result, answers, loop, user, aborted,
                   requested, away, warnings, changes>>

TimeOutWeb ==
    /\ phase = "wait" /\ channel = "web"
    /\ heard = "none"
    /\ Settle("deny")
    /\ UNCHANGED <<env, present, tool, batch, gated, todo, result, answers, loop, user, aborted,
                   requested, away, warnings, changes>>

\* On Feishu the outcome is fixed first; the entry stays until the countdown
\* has been cancelled and, after a timeout, until the card has been patched.
Decide ==
    /\ phase = "wait" /\ channel = "feishu"
    /\ heard' = IF heard = "none" THEN "timeout" ELSE heard
    /\ phase' = "close"
    /\ UNCHANGED <<env, present, tool, turn, asking, result, answers, loop, user, aborted,
                   requested, away, warnings, changes>>

\* The terminal card is patched, or the patch fails.
Close ==
    /\ phase = "close"
    /\ Settle(heard)
    /\ card' \in {card, [card EXCEPT ![asking] = heard]}
    /\ UNCHANGED <<env, present, tool, batch, gated, todo, result, answers, loop, inbox, said,
                   stray, clicks, aborted, requested, away, warnings, changes>>

\* The countdown task patches the card while nothing was decided.
Countdown ==
    /\ phase = "wait" /\ channel = "feishu"
    /\ heard = "none"
    /\ card[asking] # "buttons"
    /\ card' = [card EXCEPT ![asking] = "buttons"]
    /\ UNCHANGED <<env, present, phase, tool, turn, ask, result, answers, loop, inbox, said, stray,
                   clicks, aborted, requested, away, warnings, changes>>

-----------------------------------------------------------------------------
(* The user.                                                               *)

Waiting(c) == phase = "wait" /\ asking = c

\* set_decision: the entry takes the last decision, until the waiter resumes.
Record(c, d) ==
    IF Waiting(c)
    THEN heard' = d /\ said' = said \cup {<<c, d>>} /\ UNCHANGED stray
    ELSE stray' = stray \cup {c} /\ UNCHANGED <<heard, said>>

\* tool.approve.
Approve(c, d) ==
    /\ channel = "web"
    /\ c \in requested
    /\ clicks < MaxClicks
    /\ clicks' = clicks + 1
    /\ Record(c, d)
    /\ UNCHANGED <<env, present, phase, tool, turn, asking, result, answers, loop, card, inbox,
                   aborted, requested, away, warnings, changes>>

\* A click is answered at once with the card of the decision, and recorded by
\* the loop later, if it came to the worker that waits.
Click(c, d, here) ==
    /\ card[c] # "none"
    /\ clicks < MaxClicks
    /\ clicks' = clicks + 1
    /\ card' = [card EXCEPT ![c] = d]
    /\ IF here
       THEN inbox' = Append(inbox, <<c, d>>) /\ UNCHANGED stray
       ELSE stray' = stray \cup {c} /\ UNCHANGED inbox
    /\ UNCHANGED <<env, present, phase, tool, turn, ask, result, answers, loop, said, aborted,
                   requested, away, warnings, changes>>

Arrive ==
    /\ inbox # <<>>
    /\ inbox' = Tail(inbox)
    /\ Record(Head(inbox)[1], Head(inbox)[2])
    /\ UNCHANGED <<env, present, phase, tool, turn, asking, result, answers, loop, card, clicks,
                   aborted, requested, away, warnings, changes>>

-----------------------------------------------------------------------------
(* Execution.                                                              *)

\* Results for the refused calls are stored; the others are to be executed.
Sort ==
    /\ phase = "sort"
    /\ result' = [c \in Call |-> IF c \in denied THEN "denied" ELSE result[c]]
    /\ answers' = [c \in Call |-> IF c \in denied THEN answers[c] + 1 ELSE answers[c]]
    /\ todo' = batch \ denied
    /\ phase' = IF batch \subseteq denied THEN "model" ELSE "run"
    /\ batch' = IF batch \subseteq denied THEN {} ELSE batch
    /\ denied' = IF batch \subseteq denied THEN {} ELSE denied
    /\ UNCHANGED <<env, present, tool, gated, ask, loop, user, aborted, requested, away, warnings,
                   changes>>

Reads(c) == tool[c] \in present \cap Parallel

\* The tool runs to its result or its timeout, or the abort stops it.
Outcome(c) ==
    IF tool[c] \notin present THEN {"absent"}
    ELSE {"ran"} \cup (IF aborted THEN {"aborted"} ELSE {})

\* Reads run in parallel, then the others one after the other.
Run(c) ==
    /\ phase = "run"
    /\ c \in todo
    /\ Reads(c) \/ \A b \in todo : ~Reads(b) /\ c <= b
    /\ \E o \in Outcome(c) : result' = [result EXCEPT ![c] = o]
    /\ todo' = todo \ {c}
    /\ UNCHANGED <<env, present, phase, tool, batch, gated, denied, ask, answers, loop, user,
                   aborted, requested, away, warnings, changes>>

\* The results are stored.
Finish ==
    /\ phase = "run"
    /\ todo = {}
    /\ answers' = [c \in Call |-> IF c \in batch \ denied THEN answers[c] + 1 ELSE answers[c]]
    /\ batch' = {}
    /\ denied' = {}
    /\ phase' = "model"
    /\ UNCHANGED <<env, present, tool, gated, todo, ask, result, loop, user, aborted, requested,
                   away, warnings, changes>>

-----------------------------------------------------------------------------
Abort ==
    /\ ~aborted
    /\ phase \notin {"over", "tool_loop"}
    /\ aborted' = TRUE
    /\ UNCHANGED <<env, present, phase, tool, turn, ask, result, answers, loop, user, requested,
                   away, warnings, changes>>

\* The task of the run is cancelled; the hook discards its entry.
Cancel ==
    /\ phase \notin {"over", "tool_loop"}
    /\ phase' = "over"
    /\ asking' = 0
    /\ heard' = "none"
    /\ UNCHANGED <<env, present, tool, turn, result, answers, loop, user, aborted, requested, away,
                   warnings, changes>>

\* A server's tools are registered or removed.
Change(t) ==
    /\ changes < MaxChanges
    /\ changes' = changes + 1
    /\ present' = IF t \in present THEN present \ {t} ELSE present \cup {t}
    /\ UNCHANGED <<env, phase, tool, turn, ask, result, answers, loop, user, aborted, requested,
                   away, warnings>>

Runner ==
    \/ Evaluate \/ Posted \/ NotPosted \/ WakeWeb \/ TimeOutWeb \/ Decide \/ Close
    \/ Sort \/ Finish
    \/ \E c \in Call : Ask(c) \/ Run(c)

Next ==
    \/ \E n \in 1..MaxBatch : \E seq \in [1..n -> Tool] : Respond(seq)
    \/ Over
    \/ Runner
    \/ Countdown
    \/ \E c \in Call, d \in Decision : Approve(c, d)
    \/ \E c \in Call, d \in Decision, here \in BOOLEAN : Click(c, d, here)
    \/ Arrive
    \/ Abort
    \/ Cancel
    \/ \E t \in Mcp : Change(t)

Spec == Init /\ [][Next]_vars

\* The runner goes on: a wait ends by its timeout, a tool by its own.
FairSpec == Spec /\ WF_vars(Runner)

-----------------------------------------------------------------------------
(* Properties.                                                             *)

TypeOK ==
    /\ channel \in {"web", "feishu", "none"} /\ tier \in Tier
    /\ present \subseteq Tool
    /\ phase \in {"model", "tiers", "ask", "post", "wait", "close", "sort", "run", "over",
                  "tool_loop"}
    /\ tool \in Seq(Tool) /\ Len(tool) <= MaxCalls
    /\ batch \subseteq 1..Len(tool)
    /\ gated \subseteq batch /\ denied \subseteq batch /\ todo \subseteq batch
    /\ asking \in batch \cup {0}
    /\ heard \in Decision \cup {"none", "timeout"}
    /\ result \in [Call -> {"none", "denied", "absent", "ran", "aborted"}]
    /\ answers \in [Call -> 0..1]
    /\ loop \in [name : Tool \cup {"none"}, count : 0..MaxCalls, warned : BOOLEAN]
    /\ card \in [Call -> {"none", "buttons", "timeout"} \cup Decision]
    /\ inbox \in Seq(Call \X Decision)
    /\ aborted \in BOOLEAN
    /\ said \subseteq Call \X Decision
    /\ requested \subseteq Call /\ stray \subseteq Call /\ away \subseteq Call
    /\ warnings \subseteq Call
    /\ clicks \in 0..MaxClicks /\ changes \in 0..MaxChanges

\* What the tiers and the settings ask of a call, whatever the registry holds.
Needs(c) ==
    LET t == tool[c] IN
    IF Stricter(t) THEN Forced[t]
    ELSE IF tier = "approval" /\ (channel = "none" \/ t \notin Gated) THEN "yolo" ELSE tier

\* A tool runs only as the tiers and the user allow: none that writes in
\* read-only mode, none that needs approval without an approval recorded while
\* the call was pending; and no call that was only approved is refused.  It may
\* fail for a tool that was not registered when the tiers were evaluated and is
\* when the call is executed (run_agent_stream, before_tool_execution).
RunsAsAllowed ==
    \A c \in Call :
        /\ result[c] \in {"ran", "aborted"} /\ c \notin away =>
              /\ Needs(c) = "read-only" => tool[c] \notin Write
              /\ Needs(c) = "approval" => <<c, "approve">> \in said
        /\ result[c] = "denied" /\ <<c, "approve">> \in said => <<c, "deny">> \in said

\* When the model is asked again, each of its tool calls has exactly one
\* result, refused ones included; only the calls of an answer that got the
\* loop guidance have none (run_agent_stream).
EveryCallAnswered ==
    phase = "model" =>
        \A c \in 1..Len(tool) : answers[c] = IF c \in warnings THEN 0 ELSE 1

\* The card of a call that was decided does not show the opposite, unless a
\* click came after the wait or to another worker (_route, _patch_terminal_card).
CardTellsOutcome ==
    \A c \in Call \ (stray \cup {inbox[i][1] : i \in DOMAIN inbox}) :
        /\ result[c] \in {"ran", "absent", "aborted"} => card[c] # "deny"
        /\ result[c] = "denied" => card[c] # "approve"

\* Every tool turn ends, whether the user decides or not: a wait for a decision
\* that never comes, or that was given before the call was pending, ends by its
\* timeout (_wait_for_user_decision).
TurnsEnd == (phase \notin {"model", "over", "tool_loop"}) ~> (phase \in {"model", "over"})

\* Every tool call is allowed, answered and shown as it went
\* (run_agent_stream and the approval hooks).
CallsAreSettled ==
    /\ TypeOK /\ RunsAsAllowed /\ EveryCallAnswered /\ CardTellsOutcome
=============================================================================

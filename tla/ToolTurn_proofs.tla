-------------------------- MODULE ToolTurn_proofs --------------------------
(***************************************************************************)
(* Theorems about ToolTurn, for any tools, tiers, calls and clicks: tools  *)
(* run only as tiers and users allow, every call is answered once, and the *)
(* cards tell what happened.                                               *)
(***************************************************************************)
EXTENDS ToolTurn, SequenceTheorems, WellFoundedInduction, TLAPS

(***************************************************************************)
(* The inductive invariant                                                 *)
(***************************************************************************)
\* The run goes on.
Live == phase \notin {"over", "tool_loop"}

Ran == {"ran", "absent", "aborted"}
InInbox(c) == \E i \in DOMAIN inbox : inbox[i][1] = c
Settled(c) == c \notin stray /\ ~InInbox(c)

\* What the tiers and the user allow.
Allowed(c) ==
    c \notin away =>
        /\ Needs(c) = "read-only" => tool[c] \notin Write
        /\ Needs(c) = "approval" => <<c, "approve">> \in said

\* A refusal is not against an approval.
Deniable(c) == <<c, "approve">> \in said => <<c, "deny">> \in said

Silent(c) == \A d \in Decision : <<c, d>> \notin said

\* Calls that nobody can have decided about.
Fresh(c) ==
    \/ c > Len(tool)
    \/ c \in gated
    \/ phase = "tiers" /\ c \in batch
    \/ phase = "post" /\ c = asking

PhaseInv ==
    /\ phase \in {"model", "tool_loop"} =>
          batch = {} /\ gated = {} /\ denied = {} /\ todo = {}
    /\ phase = "tiers" => gated = {} /\ denied = {}
    /\ phase \in {"sort", "run"} => gated = {}
    /\ Live /\ phase # "run" => todo = {}
    /\ phase = "run" => todo \cap denied = {}
    /\ phase = "ask" => channel # "none" /\ gated # {}
    /\ phase \in {"post", "close"} => channel = "feishu"
    /\ phase = "wait" => channel # "none"
    /\ phase \in {"post", "wait", "close"} <=> asking # 0
    /\ asking # 0 => asking \in batch \ (gated \cup denied)
    /\ phase = "wait" => heard # "timeout"
    /\ phase = "close" => heard # "none"
    /\ phase \notin {"wait", "close"} => heard = "none"
    /\ gated \cap denied = {}

\* Results and their number.
AnswerInv ==
    /\ \A c \in Call : c > Len(tool) => result[c] = "none" /\ answers[c] = 0 /\ c \notin warnings
    /\ Live => \A c \in 1..Len(tool) \ batch : answers[c] = IF c \in warnings THEN 0 ELSE 1
    /\ Live => \A c \in batch :
          /\ c \notin warnings
          /\ answers[c] = IF phase = "run" /\ c \in denied THEN 1 ELSE 0
          /\ phase # "run" \/ c \in todo => result[c] = "none"
          /\ phase = "run" => (result[c] = "denied" <=> c \in denied)

SaidInv ==
    /\ \A c \in Call : Fresh(c) => Silent(c) /\ card[c] = "none"
    /\ phase \in {"wait", "close"} =>
          /\ heard \in {"none", "timeout"} => Silent(asking)
          /\ heard \in Decision => <<asking, heard>> \in said

PermitInv ==
    /\ Live => \A c \in denied : Deniable(c)
    /\ Live => \A c \in gated \cup ({asking} \ {0}) : c \notin away => Needs(c) # "read-only"
    /\ Live /\ phase # "tiers" =>
          \A c \in batch \ (denied \cup gated \cup {asking}) : Allowed(c)

\* Whose click the card of the call that is waited for shows.
LastClick(c) ==
    \A i \in DOMAIN inbox :
        inbox[i][1] = c /\ (\A j \in DOMAIN inbox : j > i => inbox[j][1] # c)
            => inbox[i][2] = card[c]

CardInv ==
    /\ channel # "feishu" => \A c \in Call : card[c] = "none"
    /\ phase \in {"wait", "close"} /\ asking \notin stray /\ card[asking] \in Decision =>
          /\ ~InInbox(asking) => heard = card[asking]
          /\ phase = "wait" => LastClick(asking)
    /\ Live => \A c \in denied : Settled(c) => card[c] # "approve"
    /\ Live /\ phase # "tiers" =>
          \A c \in batch \ (denied \cup gated \cup {asking}) : Settled(c) => card[c] # "deny"

\* What has happened was allowed, and its cards tell it.
OutcomeInv ==
    \A c \in Call :
        /\ result[c] \in {"ran", "aborted"} => Allowed(c)
        /\ result[c] = "denied" => Deniable(c)
        /\ Settled(c) => /\ result[c] \in Ran => card[c] # "deny"
                         /\ result[c] = "denied" => card[c] # "approve"

TurnInv ==
    /\ TypeOK /\ loop.count <= Len(tool)
    /\ PhaseInv /\ AnswerInv /\ SaidInv /\ PermitInv /\ CardInv /\ OutcomeInv

(***************************************************************************)
(* Operators                                                               *)
(***************************************************************************)
LEMMA MinIn == ASSUME NEW S \in SUBSET Nat, S # {} PROVE Min(S) \in S
<1> DEFINE R == {p \in Nat \X Nat : p[1] < p[2]}
<1>1. IsWellFoundedOn(R, Nat)
  BY NatLessThanWellFounded DEF OpToRel
<1>2. PICK m \in S : \A k \in S : <<k, m>> \notin R
  <2> HIDE DEF R
  <2> QED
    BY <1>1, WFMin
<1>3. ASSUME NEW k \in S PROVE m <= k
  <2>1. k \in Nat /\ m \in Nat /\ <<k, m>> \notin R
    BY <1>2
  <2>2. ~ (k < m)
    BY <2>1
  <2> QED
    BY <2>1, <2>2
<1> QED
  BY <1>3 DEF Min

\* Calls keep the tools they name.
ToolKept ==
    /\ Len(tool)' \in Nat /\ Len(tool) <= Len(tool)'
    /\ \A c \in 1..Len(tool) : tool'[c] = tool[c]

LEMMA Extended ==
  ASSUME tool \in Seq(Tool), NEW n \in Nat, NEW seq \in [1..n -> Tool], tool' = tool \o seq
  PROVE  /\ tool' \in Seq(Tool) /\ Len(seq) = n /\ Len(tool') = Len(tool) + n
         /\ \A c \in 1..Len(tool) : tool'[c] = tool[c]
<1>1. seq \in Seq(Tool) /\ Len(seq) = n
  OBVIOUS
<1>2. /\ tool \o seq \in Seq(Tool)
      /\ Len(tool \o seq) = Len(tool) + Len(seq)
      /\ \A i \in 1 .. Len(tool) + Len(seq) :
            (tool \o seq)[i] = IF i <= Len(tool) THEN tool[i] ELSE seq[i - Len(tool)]
  BY <1>1, ConcatProperties
<1> QED
  BY <1>1, <1>2

\* The loop detection counts a tool of the answer at most once more.
LEMMA LoopedType ==
  ASSUME loop \in [name : Tool \cup {"none"}, count : 0..MaxCalls, warned : BOOLEAN],
         NEW n \in Nat \ {0}, NEW seq \in [1..n -> Tool]
  PROVE  /\ Looped(seq).loop \in [name : Tool \cup {"none"}, count : Nat, warned : BOOLEAN]
         /\ Looped(seq).loop.count <= loop.count + 1
         /\ Looped(seq).act \in {"terminate", "warn", "proceed"}
<1> DEFINE unknown == {i \in DOMAIN seq : ~Named(seq[i])}
           m       == seq[Min(unknown)]
           same    == loop.name \in {"none", m}
           count   == (IF same THEN loop.count ELSE 0) + 1
           warned  == same /\ loop.warned
<1>0. loop.count \in Nat /\ loop.warned \in BOOLEAN /\ MaxCalls \in Nat
  BY ToolTurnAssumption
<1>1. CASE unknown = {}
  <2>1. Looped(seq) = [act |-> "proceed", loop |-> Quiet]
    BY <1>1 DEF Looped
  <2> QED
    BY <1>0, <2>1 DEF Quiet
<1>2. CASE unknown # {}
  <2>1. unknown \in SUBSET Nat
    OBVIOUS
  <2>2. Min(unknown) \in 1..n
    BY <1>2, <2>1, MinIn
  <2>3. m \in Tool
    BY <2>2
  <2>4. count \in Nat /\ count <= loop.count + 1 /\ warned \in BOOLEAN
    BY <1>0
  <2>5. Looped(seq) =
          [act  |-> IF warned THEN "terminate" ELSE IF count >= Threshold THEN "warn" ELSE "proceed",
           loop |-> [name |-> m, count |-> count, warned |-> warned \/ count >= Threshold]]
    BY <1>2 DEF Looped
  <2> HIDE DEF m, count, warned, unknown, same
  <2>6. /\ Looped(seq).loop = [name |-> m, count |-> count, warned |-> warned \/ count >= Threshold]
        /\ Looped(seq).act \in {"terminate", "warn", "proceed"}
    BY <2>5
  <2> QED
    BY <2>3, <2>4, <2>6
<1> QED
  BY <1>1, <1>2

LEMMA Appended ==
  ASSUME inbox \in Seq(Call \X Decision), NEW c \in Call, NEW d \in Decision,
         inbox' = Append(inbox, <<c, d>>)
  PROVE  /\ inbox' \in Seq(Call \X Decision)
         /\ \A e : InInbox(e)' <=> InInbox(e) \/ e = c
         /\ \A e : e # c /\ card'[e] = card[e] /\ LastClick(e) => LastClick(e)'
         /\ card'[c] = d => LastClick(c)'
<1>1. <<c, d>> \in Call \X Decision
  OBVIOUS
<1>2. /\ inbox' \in Seq(Call \X Decision)
      /\ Len(inbox') = Len(inbox) + 1 /\ Len(inbox) \in Nat
      /\ DOMAIN inbox = 1..Len(inbox) /\ DOMAIN inbox' = 1..Len(inbox)+1
      /\ \A i \in 1..Len(inbox) : inbox'[i] = inbox[i]
      /\ inbox'[Len(inbox)+1] = <<c, d>>
  BY <1>1
<1>3. \A e : InInbox(e)' <=> InInbox(e) \/ e = c
  <2>1. \A i \in DOMAIN inbox' : i \in DOMAIN inbox \/ i = Len(inbox) + 1
    BY <1>2
  <2> QED
    BY <1>2, <2>1 DEF InInbox
<1>4. ASSUME NEW e, e # c, card'[e] = card[e], LastClick(e) PROVE LastClick(e)'
  <2> SUFFICES ASSUME NEW i \in DOMAIN inbox', inbox'[i][1] = e,
                      \A j \in DOMAIN inbox' : j > i => inbox'[j][1] # e
               PROVE  inbox'[i][2] = card'[e]
    BY DEF LastClick
  <2>1. i \in DOMAIN inbox
    BY <1>2, <1>4
  <2>2. inbox[i][1] = e /\ \A j \in DOMAIN inbox : j > i => inbox[j][1] # e
    BY <1>2, <2>1
  <2> QED
    BY <1>2, <1>4, <2>1, <2>2 DEF LastClick
<1>5. ASSUME card'[c] = d PROVE LastClick(c)'
  <2> SUFFICES ASSUME NEW i \in DOMAIN inbox', inbox'[i][1] = c,
                      \A j \in DOMAIN inbox' : j > i => inbox'[j][1] # c
               PROVE  inbox'[i][2] = card'[c]
    BY DEF LastClick
  <2>1. i = Len(inbox) + 1
    BY <1>2
  <2> QED
    BY <1>2, <1>5, <2>1
<1> QED
  BY <1>2, <1>3, <1>4, <1>5

LEMMA Taken ==
  ASSUME inbox \in Seq(Call \X Decision), inbox # <<>>, inbox' = Tail(inbox), UNCHANGED card,
         NEW h, h = Head(inbox)
  PROVE  /\ inbox' \in Seq(Call \X Decision)
         /\ h[1] \in Call /\ h[2] \in Decision
         /\ \A e : InInbox(e) <=> InInbox(e)' \/ e = h[1]
         /\ \A e : LastClick(e) => LastClick(e)'
         /\ LastClick(h[1]) /\ ~InInbox(h[1])' =>
               card[h[1]] = h[2]
<1>1. /\ inbox' \in Seq(Call \X Decision) /\ h \in Call \X Decision
      /\ Len(inbox) \in Nat \ {0} /\ Len(inbox') = Len(inbox) - 1
      /\ DOMAIN inbox = 1..Len(inbox) /\ DOMAIN inbox' = 1..Len(inbox)-1
      /\ \A i \in DOMAIN inbox' : inbox'[i] = inbox[i+1]
      /\ h = inbox[1]
  OBVIOUS
<1>2. \A i \in DOMAIN inbox : i = 1 \/ (i - 1 \in DOMAIN inbox' /\ inbox'[i-1] = inbox[i])
  BY <1>1
<1>3. \A e : InInbox(e) <=> InInbox(e)' \/ e = h[1]
  <2>1. ASSUME NEW e, InInbox(e) PROVE InInbox(e)' \/ e = h[1]
    BY <1>1, <1>2, <2>1 DEF InInbox
  <2>2. ASSUME NEW e, InInbox(e)' \/ e = h[1] PROVE InInbox(e)
    <3>1. 1 \in DOMAIN inbox /\ \A i \in DOMAIN inbox' : i + 1 \in DOMAIN inbox
      BY <1>1
    <3> QED
      BY <1>1, <2>2, <3>1 DEF InInbox
  <2> QED
    BY <2>1, <2>2
<1>4. ASSUME NEW e, LastClick(e) PROVE LastClick(e)'
  <2> SUFFICES ASSUME NEW i \in DOMAIN inbox', inbox'[i][1] = e,
                      \A j \in DOMAIN inbox' : j > i => inbox'[j][1] # e
               PROVE  inbox'[i][2] = card[e]
    BY DEF LastClick
  <2>1. i + 1 \in DOMAIN inbox /\ inbox[i+1] = inbox'[i]
    BY <1>1
  <2>2. \A j \in DOMAIN inbox : j > i + 1 => inbox[j][1] # e
    <3>1. SUFFICES ASSUME NEW j \in DOMAIN inbox, j > i + 1 PROVE inbox[j][1] # e
      OBVIOUS
    <3>2. j - 1 \in DOMAIN inbox' /\ inbox'[j-1] = inbox[j] /\ j - 1 > i
      BY <1>1, <1>2, <3>1
    <3> QED
      BY <3>2
  <2> QED
    BY <1>4, <2>1, <2>2 DEF LastClick
<1>5. ASSUME LastClick(h[1]), ~InInbox(h[1])'
      PROVE  card[h[1]] = h[2]
  <2>1. 1 \in DOMAIN inbox /\ inbox[1][1] = h[1]
    BY <1>1
  <2>2. \A j \in DOMAIN inbox : j > 1 => inbox[j][1] # h[1]
    <3>1. SUFFICES ASSUME NEW j \in DOMAIN inbox, j > 1 PROVE inbox[j][1] # h[1]
      OBVIOUS
    <3>2. j - 1 \in DOMAIN inbox' /\ inbox'[j-1] = inbox[j]
      BY <1>1, <1>2, <3>1
    <3> QED
      BY <1>5, <3>2 DEF InInbox
  <2> QED
    BY <1>1, <1>5, <2>1, <2>2 DEF LastClick
<1>6. h[1] \in Call /\ h[2] \in Decision
  BY <1>1
<1> QED
  BY <1>1, <1>3, <1>4, <1>5, <1>6

LEMMA Constants ==
  /\ MaxCalls \in Nat /\ MaxBatch \in Nat /\ MaxClicks \in Nat /\ MaxChanges \in Nat
  /\ Mcp \subseteq Tool /\ Forced \in [Mcp -> Tier \cup {"none"}]
BY ToolTurnAssumption

LEMMA Base ==
  ASSUME TypeOK
  PROVE  /\ Len(tool) \in Nat /\ Len(tool) <= MaxCalls
         /\ 1..Len(tool) \subseteq Call /\ 0 \notin Call
         /\ batch \subseteq 1..Len(tool) /\ batch \subseteq Call
         /\ gated \subseteq batch /\ denied \subseteq batch /\ todo \subseteq batch
BY Constants DEF TypeOK, Call

-----------------------------------------------------------------------------
(* What is settled stays as it is.                                         *)

LEMMA AllowedKept ==
  ASSUME TypeOK, ToolKept, UNCHANGED <<channel, tier>>, away \subseteq away',
         said \subseteq said', NEW c \in 1..Len(tool), Allowed(c)
  PROVE  Allowed(c)'
<1>1. tool'[c] = tool[c]
  BY DEF ToolKept
<1>2. Needs(c)' = Needs(c)
  BY <1>1 DEF Needs, Stricter
<1> QED
  BY <1>1, <1>2 DEF Allowed

LEMMA OutcomeKept ==
  ASSUME TypeOK, AnswerInv, OutcomeInv, ToolKept, UNCHANGED <<channel, tier, result>>,
         away \subseteq away', said \subseteq said',
         \A c \in Call : result[c] # "none" =>
             /\ \A d \in Decision : <<c, d>> \in said' => <<c, d>> \in said
             /\ Settled(c)' => Settled(c) /\ card'[c] = card[c]
  PROVE  OutcomeInv'
<1> SUFFICES ASSUME NEW c \in Call, result[c] # "none"
             PROVE  /\ result[c] \in {"ran", "aborted"} => Allowed(c)'
                    /\ result[c] = "denied" => Deniable(c)'
                    /\ Settled(c)' => /\ result[c] \in Ran => card'[c] # "deny"
                                      /\ result[c] = "denied" => card'[c] # "approve"
  BY DEF OutcomeInv, Ran
<1>1. c \in 1..Len(tool)
  BY Base, Constants DEF AnswerInv, Call
<1>2. result[c] \in {"ran", "aborted"} => Allowed(c)'
  BY <1>1, AllowedKept DEF OutcomeInv
<1>3. result[c] = "denied" => Deniable(c)'
  BY DEF OutcomeInv, Deniable, Decision
<1> QED
  BY <1>2, <1>3 DEF OutcomeInv

LEMMA SameTool == ASSUME TypeOK, UNCHANGED tool PROVE ToolKept
BY Base DEF ToolKept

LEMMA SettledSame ==
  ASSUME UNCHANGED <<inbox, stray>> PROVE \A c : Settled(c)' <=> Settled(c)
BY DEF Settled, InInbox

\* The decisions for a call that is decided change nothing that was settled.
Settling(d) ==
    /\ asking # 0
    /\ Settle(d)
    /\ d = "approve" => <<asking, "approve">> \in said
    /\ d # "approve" => Deniable(asking)
    /\ card' \in [Call -> {"none", "buttons", "timeout"} \cup Decision]
    /\ \A c \in Call \ {asking} : card'[c] = card[c]
    /\ channel # "feishu" => card' = card
    /\ Settled(asking) => IF d = "approve" THEN card'[asking] # "deny"
                                           ELSE card'[asking] # "approve"
    /\ UNCHANGED <<env, present, tool, batch, gated, todo, result, answers, loop, inbox, said,
                   stray, clicks, aborted, requested, away, warnings, changes>>

LEMMA SettlingInv == ASSUME TurnInv, NEW d, Settling(d) PROVE TurnInv'
<1>0. /\ TypeOK /\ PhaseInv /\ AnswerInv /\ SaidInv /\ PermitInv /\ CardInv /\ OutcomeInv
      /\ loop.count <= Len(tool)
  BY DEF TurnInv
<1>1. /\ phase \in {"post", "wait", "close"} /\ asking \in batch \ (gated \cup denied)
      /\ asking \in 1..Len(tool) /\ asking \in Call
      /\ todo = {} /\ channel # "none" /\ result[asking] = "none"
  BY <1>0, Base DEF Settling, PhaseInv, AnswerInv, Live
<1>2. /\ denied' = IF d = "approve" THEN denied ELSE denied \cup {asking}
      /\ asking' = 0 /\ heard' = "none"
      /\ phase' = IF gated = {} THEN "sort" ELSE "ask"
  BY DEF Settling, Settle
<1>3. /\ UNCHANGED <<channel, tier, present, tool, batch, gated, todo, result, answers, loop,
                     inbox, said, stray, clicks, aborted, requested, away, warnings, changes>>
      /\ card' \in [Call -> {"none", "buttons", "timeout"} \cup Decision]
  BY DEF Settling, env
<1>4. \A c : Settled(c)' <=> Settled(c)
  BY <1>3, SettledSame
<1>5. TypeOK' /\ (loop.count <= Len(tool))'
  <2>1. /\ phase' \in {"sort", "ask"} /\ denied' \subseteq batch' /\ asking' \in batch' \cup {0}
        /\ heard' \in Decision \cup {"none", "timeout"}
    BY <1>0, <1>1, <1>2, <1>3, Base
  <2> QED
    BY <1>0, <1>3, <2>1 DEF TypeOK
<1>6. PhaseInv'
  BY <1>0, <1>1, <1>2, <1>3 DEF PhaseInv, Live
<1>7. AnswerInv'
  BY <1>0, <1>1, <1>2, <1>3 DEF AnswerInv, Live
<1>8. SaidInv'
  <2>1. \A c \in Call : Fresh(c)' => Fresh(c) /\ c # asking
    BY <1>1, <1>2, <1>3, Base, <1>0 DEF Fresh
  <2>2. \A c \in Call : Silent(c) => Silent(c)'
    BY <1>3 DEF Silent
  <2> QED
    BY <1>0, <1>2, <2>1, <2>2 DEF SaidInv, Settling
<1>9. PermitInv'
  <2>1. \A c \in denied' : Deniable(c)'
    BY <1>0, <1>1, <1>2, <1>3 DEF PermitInv, Deniable, Live, Settling
  <2>2. \A c : Needs(c)' = Needs(c) /\ (Allowed(c)' <=> Allowed(c))
    BY <1>3 DEF Needs, Stricter, Allowed
  <2>3. Allowed(asking) \/ d # "approve"
    BY <1>0, <1>1 DEF PermitInv, Live, Allowed, Settling
  <2>4. \A c \in batch \ (denied' \cup gated) : Allowed(c)
    BY <1>0, <1>1, <1>2, <2>3 DEF PermitInv, Live
  <2> QED
    BY <1>0, <1>1, <1>2, <1>3, <2>1, <2>2, <2>4 DEF PermitInv, Live
<1>10. CardInv'
  <2>1. \A c \in denied' : Settled(c) => card'[c] # "approve"
    BY <1>0, <1>1, <1>2, Base DEF CardInv, Live, Settling
  <2>2. \A c \in batch \ (denied' \cup gated) : Settled(c) => card'[c] # "deny"
    BY <1>0, <1>1, <1>2, Base DEF CardInv, Live, Settling
  <2>3. channel # "feishu" => \A c \in Call : card'[c] = "none"
    BY <1>0 DEF CardInv, Settling
  <2> QED
    BY <1>2, <1>3, <1>4, <2>1, <2>2, <2>3 DEF CardInv
<1>11. OutcomeInv'
  <2>1. \A c \in Call : result[c] # "none" => card'[c] = card[c]
    BY <1>1 DEF Settling
  <2> QED
    BY <1>0, <1>3, <1>4, <2>1, OutcomeKept, SameTool
<1> QED
  BY <1>5, <1>6, <1>7, <1>8, <1>9, <1>10, <1>11 DEF TurnInv

LEMMA DecisionsSettle ==
  ASSUME TurnInv, NotPosted \/ WakeWeb \/ TimeOutWeb \/ Close
  PROVE  TurnInv'
<1>0. /\ TypeOK /\ PhaseInv /\ SaidInv /\ CardInv
      /\ card \in [Call -> {"none", "buttons", "timeout"} \cup Decision]
  BY DEF TurnInv, TypeOK
<1>1. asking \in Call /\ asking # 0
  BY <1>0, Base DEF PhaseInv, NotPosted, WakeWeb, TimeOutWeb, Close
<1>2. \A d \in Decision : Silent(asking) => Deniable(asking) /\ <<asking, d>> \notin said
  BY DEF Silent, Deniable, Decision
<1>3. CASE NotPosted
  <2>1. card[asking] = "none" /\ Silent(asking) /\ channel = "feishu"
    BY <1>0, <1>1, <1>3 DEF SaidInv, Fresh, NotPosted, PhaseInv
  <2>2. \/ card' = card
        \/ card' = [card EXCEPT ![asking] = "buttons"]
    BY <1>3 DEF NotPosted
  <2>3. /\ card' \in [Call -> {"none", "buttons", "timeout"} \cup Decision]
        /\ \A c \in Call \ {asking} : card'[c] = card[c]
        /\ card'[asking] # "approve"
    BY <1>0, <1>1, <2>1, <2>2
  <2>4. /\ Settle("deny")
        /\ UNCHANGED <<env, present, tool, batch, gated, todo, result, answers, loop, inbox, said,
                       stray, clicks, aborted, requested, away, warnings, changes>>
    BY <1>3 DEF NotPosted
  <2>5. Settling("deny")
    BY <1>1, <1>2, <2>1, <2>3, <2>4 DEF Settling, Decision
  <2> QED
    BY <2>5, SettlingInv
<1>4. CASE WakeWeb \/ TimeOutWeb
  <2>1. phase = "wait" /\ channel = "web" /\ \A c \in Call : card[c] = "none"
    BY <1>0, <1>4 DEF WakeWeb, TimeOutWeb, CardInv
  <2>2. PICK d : /\ Settle(d) /\ (d = heard \/ (d = "deny" /\ heard = "none"))
                 /\ d = heard => heard # "none"
    BY <1>4 DEF WakeWeb, TimeOutWeb
  <2>3. /\ d = "approve" => <<asking, "approve">> \in said
        /\ d # "approve" => Deniable(asking)
    <3>1. heard \in Decision \cup {"none"}
      BY <1>0, <2>1 DEF PhaseInv, TypeOK
    <3>2. heard \in Decision => <<asking, heard>> \in said
      BY <1>0, <2>1 DEF SaidInv
    <3>3. heard = "none" => Silent(asking)
      BY <1>0, <2>1 DEF SaidInv
    <3> QED
      BY <1>2, <2>2, <3>1, <3>2, <3>3 DEF Decision, Deniable
  <2>4. UNCHANGED <<env, present, tool, batch, gated, todo, result, answers, loop, user, aborted,
                    requested, away, warnings, changes>>
    BY <1>4 DEF WakeWeb, TimeOutWeb
  <2>5. Settling(d)
    BY <1>0, <1>1, <2>1, <2>2, <2>3, <2>4 DEF Settling, user
  <2> QED
    BY <2>5, SettlingInv
<1>5. CASE Close
  <2>1. phase = "close" /\ channel = "feishu" /\ heard # "none" /\ Settle(heard)
    BY <1>0, <1>5 DEF Close, PhaseInv
  <2>2. heard \in Decision \cup {"timeout"}
    BY <1>0, <2>1 DEF TypeOK
  <2>3. /\ heard = "approve" => <<asking, "approve">> \in said
        /\ heard # "approve" => Deniable(asking)
    <3>1. heard \in Decision => <<asking, heard>> \in said
      BY <1>0, <2>1 DEF SaidInv
    <3>2. heard = "timeout" => Silent(asking)
      BY <1>0, <2>1 DEF SaidInv
    <3> QED
      BY <1>2, <2>2, <3>1, <3>2 DEF Decision, Deniable
  <2>4. Settled(asking) /\ card[asking] \in Decision => heard = card[asking]
    BY <1>0, <2>1 DEF CardInv, Settled
  <2>5. card' = card \/ card' = [card EXCEPT ![asking] = heard]
    BY <1>5 DEF Close
  <2>6. /\ card' \in [Call -> {"none", "buttons", "timeout"} \cup Decision]
        /\ \A c \in Call \ {asking} : card'[c] = card[c]
        /\ card'[asking] \in {card[asking], heard}
    BY <1>0, <1>1, <2>2, <2>5
  <2>7. Settled(asking) => IF heard = "approve" THEN card'[asking] # "deny"
                                                ELSE card'[asking] # "approve"
    BY <2>2, <2>4, <2>6 DEF Decision
  <2>8. UNCHANGED <<env, present, tool, batch, gated, todo, result, answers, loop, inbox, said,
                    stray, clicks, aborted, requested, away, warnings, changes>>
    BY <1>5 DEF Close
  <2>9. Settling(heard)
    BY <1>1, <2>1, <2>3, <2>6, <2>7, <2>8 DEF Settling
  <2> QED
    BY <2>9, SettlingInv
<1> QED
  BY <1>3, <1>4, <1>5

-----------------------------------------------------------------------------
(* The answers of the model and the tiers.                                 *)

LEMMA RespondInv ==
  ASSUME TurnInv, NEW n \in 1..MaxBatch, NEW seq \in [1..n -> Tool], Respond(seq)
  PROVE  TurnInv'
<1>0. /\ TypeOK /\ PhaseInv /\ AnswerInv /\ SaidInv /\ PermitInv /\ CardInv /\ OutcomeInv
      /\ loop.count <= Len(tool)
  BY DEF TurnInv
<1> DEFINE new == (Len(tool) + 1)..(Len(tool) + Len(seq))
<1>1. n \in Nat \ {0}
  BY Constants
<1>2. /\ tool' \in Seq(Tool) /\ Len(seq) = n /\ Len(tool') = Len(tool) + n
      /\ \A c \in 1..Len(tool) : tool'[c] = tool[c]
      /\ Len(tool) \in Nat /\ Len(tool') <= MaxCalls
  BY <1>0, <1>1, Base, Extended DEF Respond, TypeOK
<1>3. ToolKept
  BY <1>1, <1>2 DEF ToolKept
<1>4. /\ new \subseteq Call /\ new \subseteq 1..Len(tool')
      /\ \A c \in new : c > Len(tool)
      /\ \A c \in 1..Len(tool') : c \in 1..Len(tool) \/ c \in new
      /\ \A c \in Call : c > Len(tool') => c > Len(tool)
  BY <1>1, <1>2, Constants DEF Call
<1>5. /\ phase = "model" /\ batch = {} /\ gated = {} /\ denied = {} /\ todo = {} /\ asking = 0
      /\ heard = "none"
  BY <1>0 DEF Respond, PhaseInv
<1>6. /\ UNCHANGED <<channel, tier, present, gated, denied, todo, asking, heard, result, answers,
                     card, inbox, said, stray, clicks, aborted, requested, away, changes>>
      /\ \/ phase' = "tiers" /\ batch' = new /\ warnings' = warnings
         \/ phase' \in {"model", "tool_loop"} /\ batch' = {} /\ warnings' = warnings \cup new
  <2>1. /\ phase' = CASE Looped(seq).act = "terminate" -> "tool_loop"
                        [] Looped(seq).act = "warn"      -> "model"
                        [] OTHER                         -> "tiers"
        /\ batch' = IF Looped(seq).act = "proceed" THEN new ELSE {}
        /\ warnings' = IF Looped(seq).act = "proceed" THEN warnings ELSE warnings \cup new
    BY DEF Respond
  <2>2. Looped(seq).act \in {"terminate", "warn", "proceed"}
    BY <1>0, <1>1, LoopedType DEF TypeOK
  <2>3. \/ phase' = "tiers" /\ batch' = new /\ warnings' = warnings
        \/ phase' \in {"model", "tool_loop"} /\ batch' = {} /\ warnings' = warnings \cup new
    <3> HIDE DEF new
    <3> QED
      BY <2>1, <2>2
  <2>4. UNCHANGED <<channel, tier, present, gated, denied, todo, asking, heard, result, answers,
                    card, inbox, said, stray, clicks, aborted, requested, away, changes>>
    BY DEF Respond, env, ask, user
  <2> QED
    BY <2>3, <2>4
<1> HIDE DEF new
<1>7. TypeOK' /\ (loop.count <= Len(tool))'
  <2>1. /\ loop' \in [name : Tool \cup {"none"}, count : Nat, warned : BOOLEAN]
        /\ loop'.count <= loop.count + 1
    BY <1>0, <1>1, LoopedType DEF Respond, TypeOK
  <2>2. loop'.count \in Nat /\ loop.count \in Nat
    BY <1>0, <2>1, Constants DEF TypeOK
  <2>3. loop'.count <= Len(tool') /\ loop'.count \in 0..MaxCalls
    BY <1>0, <1>1, <1>2, <2>1, <2>2, Constants
  <2>4. loop' \in [name : Tool \cup {"none"}, count : 0..MaxCalls, warned : BOOLEAN]
    BY <2>1, <2>3
  <2>5. /\ batch' \subseteq 1..Len(tool') /\ warnings' \subseteq Call
        /\ gated' \subseteq batch' /\ denied' \subseteq batch' /\ todo' \subseteq batch'
        /\ asking' \in batch' \cup {0}
        /\ phase' \in {"tiers", "model", "tool_loop"}
    BY <1>0, <1>4, <1>5, <1>6 DEF TypeOK
  <2> QED
    BY <1>0, <1>2, <1>6, <2>3, <2>4, <2>5 DEF TypeOK
<1>8. PhaseInv'
  BY <1>5, <1>6 DEF PhaseInv, Live
<1>9. AnswerInv'
  <2>1. \A c \in Call : c > Len(tool) => result[c] = "none" /\ answers[c] = 0 /\ c \notin warnings
    BY <1>0 DEF AnswerInv
  <2>2. \A c \in 1..Len(tool) : answers[c] = IF c \in warnings THEN 0 ELSE 1
    BY <1>0, <1>5 DEF AnswerInv, Live
  <2>3. \A c \in Call : c > Len(tool') =>
          result[c] = "none" /\ answers[c] = 0 /\ c \notin warnings'
    <3>1. ASSUME NEW c \in Call, c > Len(tool') PROVE c \notin new
      BY <1>2, <1>4, <3>1
    <3> QED
      BY <1>4, <1>6, <2>1, <3>1
  <2>4. \A c \in 1..Len(tool') \ batch' : answers[c] = IF c \in warnings' THEN 0 ELSE 1
    <3>1. ASSUME NEW c \in 1..Len(tool) PROVE c \notin new
      BY <1>2, <1>4, <3>1
    <3> QED
      BY <1>4, <1>6, <2>1, <2>2, <3>1
  <2>5. \A c \in batch' : c \notin warnings' /\ answers[c] = 0 /\ result[c] = "none"
    BY <1>4, <1>6, <2>1
  <2> QED
    BY <1>5, <1>6, <2>3, <2>4, <2>5 DEF AnswerInv, Live
<1>10. SaidInv'
  <2>1. \A c \in Call : Fresh(c)' => Fresh(c)
    BY <1>4, <1>5, <1>6 DEF Fresh
  <2> QED
    BY <1>0, <1>6, <2>1 DEF SaidInv, Silent
<1>11. PermitInv'
  BY <1>5, <1>6 DEF PermitInv
<1>12. CardInv'
  BY <1>0, <1>5, <1>6 DEF CardInv
<1>13. OutcomeInv'
  <2>1. \A c : Settled(c)' <=> Settled(c)
    BY <1>6, SettledSame
  <2> QED
    BY <1>0, <1>3, <1>6, <2>1, OutcomeKept
<1> QED
  BY <1>7, <1>8, <1>9, <1>10, <1>11, <1>12, <1>13 DEF TurnInv

LEMMA EndInv == ASSUME TurnInv, Over \/ Cancel PROVE TurnInv'
<1>0. /\ TypeOK /\ PhaseInv /\ AnswerInv /\ SaidInv /\ PermitInv /\ CardInv /\ OutcomeInv
      /\ loop.count <= Len(tool)
  BY DEF TurnInv
<1>1. /\ UNCHANGED <<channel, tier, present, tool, batch, gated, denied, todo, result, answers,
                     loop, card, inbox, said, stray, clicks, aborted, requested, away, warnings,
                     changes>>
      /\ phase' = "over" /\ asking' = 0 /\ heard' = "none"
  BY <1>0 DEF Over, Cancel, env, turn, ask, user, PhaseInv
<1>2. TypeOK' /\ (loop.count <= Len(tool))'
  BY <1>0, <1>1 DEF TypeOK
<1>3. PhaseInv'
  BY <1>0, <1>1 DEF PhaseInv, Live
<1>4. AnswerInv'
  BY <1>0, <1>1 DEF AnswerInv, Live
<1>5. SaidInv'
  BY <1>0, <1>1 DEF SaidInv, Fresh, Silent
<1>6. PermitInv' /\ CardInv'
  BY <1>0, <1>1 DEF PermitInv, CardInv, Live
<1>7. OutcomeInv'
  <2>1. \A c : Settled(c)' <=> Settled(c)
    BY <1>1, SettledSame
  <2> QED
    BY <1>0, <1>1, <2>1, OutcomeKept, SameTool
<1> QED
  BY <1>2, <1>3, <1>4, <1>5, <1>6, <1>7 DEF TurnInv

\* What neither is refused nor needs approval is allowed, for a registered tool.
LEMMA TierSound ==
  ASSUME NEW c, tool[c] \in present
  PROVE  /\ NeedsApproval(c) => Needs(c) # "read-only"
         /\ ~Refused(c) => (Needs(c) = "read-only" => tool[c] \notin Write)
         /\ ~NeedsApproval(c) => Needs(c) # "approval"
<1>1. /\ Stricter(tool[c]) => CallTier(c) = Forced[tool[c]] /\ Needs(c) = Forced[tool[c]]
      /\ ~Stricter(tool[c]) => CallTier(c) = tier
      /\ ~Stricter(tool[c]) =>
            Needs(c) = IF tier = "approval" /\ (channel = "none" \/ tool[c] \notin Gated)
                       THEN "yolo" ELSE tier
  BY DEF CallTier, Needs
<1> QED
  BY <1>1 DEF NeedsApproval, Refused

LEMMA EvaluateInv == ASSUME TurnInv, Evaluate PROVE TurnInv'
<1>0. /\ TypeOK /\ PhaseInv /\ AnswerInv /\ SaidInv /\ PermitInv /\ CardInv /\ OutcomeInv
      /\ loop.count <= Len(tool)
  BY DEF TurnInv
<1>1. /\ UNCHANGED <<channel, tier, present, tool, batch, todo, asking, heard, result, answers,
                     loop, card, inbox, said, stray, clicks, aborted, warnings, changes>>
      /\ phase = "tiers" /\ phase' = IF gated' = {} THEN "sort" ELSE "ask"
      /\ gated' = IF channel = "none" THEN {} ELSE {c \in batch : NeedsApproval(c)}
      /\ denied' = {c \in batch : Refused(c)}
                     \cup (IF channel = "none" THEN {c \in batch : NeedsApproval(c)} ELSE {})
      /\ requested' = requested \cup gated'
      /\ away' = away \cup {c \in batch : tool[c] \notin present}
  BY DEF Evaluate, env, ask, user
<1>2. todo = {} /\ asking = 0 /\ heard = "none"
  BY <1>0, <1>1 DEF PhaseInv, Live
<1>3. /\ gated' \subseteq batch /\ denied' \subseteq batch /\ batch \subseteq Call
      /\ gated' \cap denied' = {}
  <2>1. \A c : Refused(c) => ~NeedsApproval(c)
    BY DEF Refused, NeedsApproval
  <2> QED
    BY <1>0, <1>1, <2>1, Base
<1>4. \A c \in batch : Silent(c) /\ card[c] = "none"
  BY <1>0, <1>1, <1>3 DEF SaidInv, Fresh
<1>5. TypeOK' /\ (loop.count <= Len(tool))'
  <2>1. requested' \subseteq Call /\ away' \subseteq Call /\ phase' \in {"sort", "ask"}
    BY <1>0, <1>1, <1>3 DEF TypeOK
  <2> QED
    BY <1>0, <1>1, <1>3, <2>1 DEF TypeOK
<1>6. PhaseInv'
  BY <1>0, <1>1, <1>2, <1>3 DEF PhaseInv, Live
<1>7. AnswerInv'
  BY <1>0, <1>1 DEF AnswerInv, Live
<1>8. SaidInv'
  <2>1. \A c \in Call : Fresh(c)' => Fresh(c)
    BY <1>1, <1>3 DEF Fresh
  <2> QED
    BY <1>0, <1>1, <2>1 DEF SaidInv, Silent
<1>9. PermitInv'
  <2>1. \A c : Needs(c)' = Needs(c)
    BY <1>1 DEF Needs, Stricter
  <2>2. \A c \in denied' : Deniable(c)'
    BY <1>1, <1>3, <1>4 DEF Deniable, Silent, Decision
  <2>3. \A c \in gated' : c \notin away' => Needs(c) # "read-only"
    BY <1>1, TierSound
  <2>4. \A c \in batch \ (denied' \cup gated') : Allowed(c)'
    BY <1>1, <2>1, TierSound DEF Allowed
  <2> QED
    BY <1>1, <1>2, <2>1, <2>2, <2>3, <2>4 DEF PermitInv
<1>10. CardInv'
  <2>1. channel # "feishu" => \A c \in Call : card[c] = "none"
    BY <1>0 DEF CardInv
  <2>2. phase' \notin {"wait", "close"}
    BY <1>1
  <2> QED
    BY <1>1, <1>3, <1>4, <2>1, <2>2 DEF CardInv
<1>11. OutcomeInv'
  <2>1. \A c : Settled(c)' <=> Settled(c)
    BY <1>1, SettledSame
  <2> QED
    BY <1>0, <1>1, <2>1, OutcomeKept, SameTool
<1> QED
  BY <1>5, <1>6, <1>7, <1>8, <1>9, <1>10, <1>11 DEF TurnInv

-----------------------------------------------------------------------------
(* The hooks and the user.                                                 *)

LEMMA AskInv == ASSUME TurnInv, NEW c \in Call, Ask(c) PROVE TurnInv'
<1>0. /\ TypeOK /\ PhaseInv /\ AnswerInv /\ SaidInv /\ PermitInv /\ CardInv /\ OutcomeInv
      /\ loop.count <= Len(tool)
  BY DEF TurnInv
<1>1. /\ UNCHANGED <<channel, tier, present, tool, batch, denied, todo, result, answers,
                     loop, card, inbox, said, stray, clicks, aborted, requested, away, warnings,
                     changes>>
      /\ phase = "ask" /\ phase' = IF channel = "web" THEN "wait" ELSE "post"
      /\ asking' = c /\ heard' = "none" /\ gated' = gated \ {c} /\ c \in gated
  BY DEF Ask, env, user
<1>2. /\ channel # "none" /\ c \in batch /\ c \notin denied /\ c # 0 /\ todo = {} /\ asking = 0
      /\ Silent(c) /\ card[c] = "none" /\ batch \subseteq Call
  BY <1>0, <1>1, Base DEF PhaseInv, SaidInv, Fresh, Live
<1>3. TypeOK' /\ (loop.count <= Len(tool))'
  BY <1>0, <1>1, <1>2 DEF TypeOK
<1>4. PhaseInv'
  <2>1. channel = "web" \/ channel = "feishu"
    BY <1>0, <1>2 DEF TypeOK
  <2> QED
    BY <1>0, <1>1, <1>2, <2>1 DEF PhaseInv, Live
<1>5. AnswerInv'
  BY <1>0, <1>1 DEF AnswerInv, Live
<1>6. SaidInv'
  <2>1. \A e \in Call : Fresh(e)' => Fresh(e)
    BY <1>1, <1>2 DEF Fresh
  <2> QED
    BY <1>0, <1>1, <1>2, <2>1 DEF SaidInv, Silent, Decision
<1>7. /\ \A e \in batch \ (denied' \cup gated' \cup {asking'}) : e \in batch \ (denied \cup gated)
      /\ \A e \in batch \ (denied \cup gated) : e \in batch \ (denied \cup gated \cup {asking})
  <2>1. \A e \in batch : e # 0
    BY <1>0, Base
  <2>2. gated \cup denied = gated' \cup {asking'} \cup denied'
    BY <1>1
  <2> QED
    BY <1>1, <1>2, <2>1, <2>2
<1>8. PermitInv'
  <2>1. \A e : Needs(e)' = Needs(e) /\ (Allowed(e)' <=> Allowed(e)) /\ (Deniable(e)' <=> Deniable(e))
    BY <1>1 DEF Needs, Stricter, Allowed, Deniable
  <2>2. \A e \in denied : Deniable(e)
    BY <1>0, <1>1 DEF PermitInv, Live
  <2>3. \A e \in gated : e \notin away => Needs(e) # "read-only"
    BY <1>0, <1>1 DEF PermitInv, Live
  <2>4. \A e \in batch \ (denied \cup gated) : Allowed(e)
    BY <1>0, <1>1, <1>2, <1>7 DEF PermitInv, Live
  <2>5. \A e \in gated' \cup ({asking'} \ {0}) : e \in gated
    BY <1>1
  <2> QED
    BY <1>1, <1>7, <2>1, <2>2, <2>3, <2>4, <2>5 DEF PermitInv
<1>9. CardInv'
  <2>1. \A e : Settled(e)' <=> Settled(e)
    BY <1>1, SettledSame
  <2>2. card[c] \notin Decision
    BY <1>2 DEF Decision
  <2>3. channel # "feishu" => \A e \in Call : card[e] = "none"
    BY <1>0 DEF CardInv
  <2>4. \A e \in denied : Settled(e) => card[e] # "approve"
    BY <1>0, <1>1 DEF CardInv, Live
  <2>5. \A e \in batch \ (denied \cup gated) : Settled(e) => card[e] # "deny"
    BY <1>0, <1>1, <1>7 DEF CardInv, Live
  <2> QED
    BY <1>1, <1>7, <2>1, <2>2, <2>3, <2>4, <2>5 DEF CardInv
<1>10. OutcomeInv'
  <2>1. \A e : Settled(e)' <=> Settled(e)
    BY <1>1, SettledSame
  <2> QED
    BY <1>0, <1>1, <2>1, OutcomeKept, SameTool
<1> QED
  BY <1>3, <1>4, <1>5, <1>6, <1>8, <1>9, <1>10 DEF TurnInv

\* Steps of the hook and of the user in which nothing is settled.
Deciding ==
    /\ asking # 0 \/ UNCHANGED <<phase, heard>>
    /\ UNCHANGED <<channel, tier, present, tool, batch, gated, denied, todo, asking, result,
                   answers, loop, aborted, requested, away, warnings, changes>>

LEMMA DecidingInv ==
  ASSUME TurnInv, Deciding, TypeOK', PhaseInv', SaidInv', CardInv', OutcomeInv',
         phase' \in {"wait", "close"} \/ UNCHANGED phase,
         said \subseteq said', \A c \in denied, d \in Decision : <<c, d>> \in said' => <<c, d>> \in said
  PROVE  TurnInv'
<1>0. /\ TypeOK /\ PhaseInv /\ AnswerInv /\ PermitInv /\ loop.count <= Len(tool)
  BY DEF TurnInv
<1>1. Live' <=> Live /\ (phase = "run" <=> phase' = "run") /\ (phase = "tiers" <=> phase' = "tiers")
  BY <1>0 DEF Deciding, PhaseInv, Live
<1>2. AnswerInv'
  BY <1>0, <1>1 DEF AnswerInv, Deciding
<1>3. PermitInv'
  <2>1. \A e : Needs(e)' = Needs(e) /\ (Allowed(e) => Allowed(e)')
    BY DEF Deciding, Needs, Stricter, Allowed
  <2>2. \A e \in denied : Deniable(e) => Deniable(e)'
    BY DEF Deniable, Decision
  <2> QED
    BY <1>0, <1>1, <2>1, <2>2 DEF PermitInv, Deciding
<1> QED
  BY <1>0, <1>2, <1>3 DEF TurnInv, Deciding

LEMMA HookInv == ASSUME TurnInv, Posted \/ Decide \/ Countdown PROVE TurnInv'
<1>0. /\ TypeOK /\ PhaseInv /\ AnswerInv /\ SaidInv /\ CardInv /\ OutcomeInv
      /\ card \in [Call -> {"none", "buttons", "timeout"} \cup Decision]
      /\ heard \in Decision \cup {"none", "timeout"}
  BY DEF TurnInv, TypeOK
<1>1. /\ phase \in {"post", "wait"} /\ channel = "feishu" /\ asking # 0
      /\ phase' \in {"wait", "close"}
      /\ phase = "post" => phase' = "wait"
  BY <1>0 DEF Posted, Decide, Countdown, PhaseInv
<1>2. /\ asking \in batch \ (gated \cup denied) /\ asking \in Call /\ asking \in 1..Len(tool)
      /\ result[asking] = "none"
  BY <1>0, <1>1, Base DEF PhaseInv, AnswerInv, Live
<1>3. UNCHANGED <<channel, tier, present, tool, batch, gated, denied, todo, asking, result, answers,
                  loop, inbox, said, stray, clicks, aborted, requested, away, warnings, changes>>
  BY DEF Posted, Decide, Countdown, env, turn, ask, user
<1>4. \/ heard' = heard /\ heard = "none" /\ phase' = "wait"
         /\ card' = [card EXCEPT ![asking] = "buttons"]
      \/ heard' = (IF heard = "none" THEN "timeout" ELSE heard) /\ card' = card
         /\ phase = "wait" /\ phase' = "close"
  BY <1>0 DEF Posted, Decide, Countdown, ask, user, PhaseInv
<1>5. /\ card' \in [Call -> {"none", "buttons", "timeout"} \cup Decision]
      /\ \A e \in Call \ {asking} : card'[e] = card[e]
      /\ card'[asking] = "buttons" \/ (card'[asking] = card[asking] /\ phase = "wait" /\ phase' = "close")
      /\ heard' \in Decision \cup {"none", "timeout"}
      /\ heard' = heard \/ heard = "none"
      /\ heard' \in Decision <=> heard \in Decision
  <2>1. "timeout" \notin Decision /\ "none" \notin Decision
    BY DEF Decision
  <2> QED
    BY <1>0, <1>2, <1>4, <2>1
<1>6. Deciding
  BY <1>1, <1>3 DEF Deciding
<1>7. TypeOK'
  BY <1>0, <1>1, <1>3, <1>5 DEF TypeOK
<1>8. PhaseInv'
  BY <1>0, <1>1, <1>2, <1>3, <1>4 DEF PhaseInv, Live
<1>9. SaidInv'
  <2>1. \A e \in Call : Fresh(e)' => Fresh(e) /\ e # asking
    BY <1>0, <1>1, <1>2, <1>3, Base DEF Fresh
  <2>2. heard \in {"none", "timeout"} => Silent(asking)
    BY <1>0, <1>1, <1>2 DEF SaidInv, Fresh, PhaseInv
  <2>3. heard \in Decision => <<asking, heard>> \in said
    BY <1>0, <1>1 DEF SaidInv, PhaseInv, Decision
  <2>4. \A e : Silent(e)' <=> Silent(e)
    BY <1>3 DEF Silent
  <2>5. \A e \in Call : Fresh(e)' => Silent(e)' /\ card'[e] = "none"
    BY <1>0, <1>5, <2>1, <2>4 DEF SaidInv
  <2>6. heard' \in {"none", "timeout"} => Silent(asking)'
    BY <1>0, <1>3, <1>5, <2>2, <2>4
  <2>7. heard' \in Decision => <<asking', heard'>> \in said'
    BY <1>3, <1>5, <2>3 DEF Decision
  <2> QED
    BY <2>5, <2>6, <2>7 DEF SaidInv
<1>10. CardInv'
  <2>1. \A e : (Settled(e)' <=> Settled(e)) /\ (InInbox(e)' <=> InInbox(e))
    BY <1>3, SettledSame DEF InInbox
  <2>2. \A e \in denied : Settled(e) => card'[e] # "approve"
    BY <1>0, <1>1, <1>2, <1>5, Base DEF CardInv, Live
  <2>3. \A e \in batch \ (denied \cup gated \cup {asking}) : Settled(e) => card'[e] # "deny"
    BY <1>0, <1>1, <1>5, Base DEF CardInv, Live
  <2>4. ASSUME asking \notin stray, card'[asking] \in Decision
        PROVE  (~InInbox(asking) => heard' = card'[asking]) /\ phase' # "wait"
    <3>1. card'[asking] = card[asking] /\ phase = "wait" /\ phase' = "close"
      BY <1>5, <2>4 DEF Decision
    <3>2. ~InInbox(asking) => heard = card[asking]
      BY <1>0, <2>4, <3>1 DEF CardInv
    <3> QED
      BY <1>5, <2>4, <3>1, <3>2 DEF Decision
  <2> QED
    BY <1>1, <1>3, <2>1, <2>2, <2>3, <2>4 DEF CardInv
<1>11. OutcomeInv'
  <2>1. \A e : Settled(e)' <=> Settled(e)
    BY <1>3, SettledSame
  <2> QED
    BY <1>0, <1>2, <1>3, <1>5, <2>1, OutcomeKept, SameTool
<1>12. said' = said
  BY <1>3
<1> QED
  BY <1>1, <1>6, <1>7, <1>8, <1>9, <1>10, <1>11, <1>12, DecidingInv

\* A decision is recorded for the call that is waited for, or for none.
LEMMA Recorded ==
  ASSUME TurnInv, NEW c \in Call, NEW d \in Decision, Record(c, d),
         UNCHANGED <<channel, tier, present, phase, tool, batch, gated, denied, todo, asking,
                     result, answers, loop, card, aborted, requested, away, warnings, changes>>
  PROVE  /\ Deciding /\ PhaseInv' /\ SaidInv' /\ said \subseteq said'
         /\ said' \subseteq Call \X Decision /\ stray' \subseteq Call
         /\ heard' \in Decision \cup {"none", "timeout"}
         /\ \A e \in Call : e \in denied \/ result[e] # "none" =>
               \A b \in Decision : <<e, b>> \in said' => <<e, b>> \in said
         /\ stray \subseteq stray'
         /\ IF Waiting(c) THEN heard' = d /\ stray' = stray ELSE heard' = heard /\ c \in stray'
<1>0. TypeOK /\ PhaseInv /\ AnswerInv /\ SaidInv
  BY DEF TurnInv
<1>1. /\ said \subseteq Call \X Decision /\ stray \subseteq Call
      /\ heard \in Decision \cup {"none", "timeout"}
  BY <1>0 DEF TypeOK
<1>2. CASE Waiting(c)
  <2>1. /\ phase = "wait" /\ asking = c /\ c # 0
        /\ c \in batch \ (gated \cup denied) /\ c \in 1..Len(tool) /\ result[c] = "none"
    BY <1>0, <1>2, Base DEF Waiting, PhaseInv, AnswerInv, Live
  <2>2. heard' = d /\ said' = said \cup {<<c, d>>} /\ stray' = stray
    BY <1>2 DEF Record
  <2>3. d \notin {"none", "timeout"}
    BY DEF Decision
  <2>4. PhaseInv'
    BY <1>0, <2>1, <2>2, <2>3 DEF PhaseInv, Live
  <2>5. Deciding
    BY <2>1 DEF Deciding
  <2>6. SaidInv'
    <3>1. \A e \in Call : Fresh(e)' => Fresh(e) /\ e # c
      BY <1>0, <2>1, Base DEF Fresh
    <3>2. \A e : Silent(e) /\ e # c => Silent(e)'
      BY <2>2 DEF Silent
    <3>3. \A e \in Call : Fresh(e)' => Silent(e)' /\ card'[e] = "none"
      BY <1>0, <3>1, <3>2 DEF SaidInv
    <3>4. heard' \notin {"none", "timeout"} /\ <<asking', heard'>> \in said'
      BY <2>1, <2>2, <2>3
    <3> QED
      BY <3>3, <3>4 DEF SaidInv
  <2>7. /\ said \subseteq said' /\ said' \subseteq Call \X Decision /\ stray' \subseteq Call
        /\ stray \subseteq stray'
    BY <1>1, <2>2
  <2>8. \A e \in Call : e \in denied \/ result[e] # "none" =>
           \A b \in Decision : <<e, b>> \in said' => <<e, b>> \in said
    BY <2>1, <2>2
  <2> QED
    BY <1>2, <2>2, <2>4, <2>5, <2>6, <2>7, <2>8
<1>3. CASE ~Waiting(c)
  <2>1. heard' = heard /\ said' = said /\ stray' = stray \cup {c}
    BY <1>3 DEF Record
  <2>2. PhaseInv'
    BY <1>0, <2>1 DEF PhaseInv, Live
  <2>3. SaidInv'
    BY <1>0, <2>1 DEF SaidInv, Fresh, Silent
  <2>4. Deciding
    BY <2>1 DEF Deciding
  <2> QED
    BY <1>1, <1>3, <2>1, <2>2, <2>3, <2>4
<1> QED
  BY <1>2, <1>3

LEMMA ApproveInv ==
  ASSUME TurnInv, NEW c \in Call, NEW d \in Decision, Approve(c, d)
  PROVE  TurnInv'
<1>0. TypeOK /\ AnswerInv /\ CardInv /\ OutcomeInv
  BY DEF TurnInv
<1>1. /\ UNCHANGED <<channel, tier, present, phase, tool, batch, gated, denied, todo, asking,
                     result, answers, loop, card, aborted, requested, away, warnings, changes>>
      /\ inbox' = inbox /\ Record(c, d) /\ channel = "web"
      /\ clicks' = clicks + 1 /\ clicks < MaxClicks
  BY DEF Approve, env, turn
<1>2. /\ Deciding /\ PhaseInv' /\ SaidInv' /\ said \subseteq said'
      /\ said' \subseteq Call \X Decision /\ stray' \subseteq Call
      /\ heard' \in Decision \cup {"none", "timeout"}
      /\ \A e \in Call : e \in denied \/ result[e] # "none" =>
            \A b \in Decision : <<e, b>> \in said' => <<e, b>> \in said
      /\ stray \subseteq stray'
  BY <1>1, Recorded
<1>3. \A e \in Call : card[e] = "none"
  BY <1>0, <1>1 DEF CardInv
<1>4. TypeOK'
  <2>1. clicks' \in 0..MaxClicks
    BY <1>0, <1>1, Constants DEF TypeOK
  <2> QED
    BY <1>0, <1>1, <1>2, <2>1 DEF TypeOK
<1>5. CardInv'
  <2>1. asking \in Call \cup {0} /\ denied \subseteq Call /\ batch \subseteq Call
    BY <1>0, Base DEF TypeOK
  <2>2. phase \in {"wait", "close"} => asking \in Call
    BY <2>1 DEF TurnInv, PhaseInv
  <2>3. \A e \in Call : card'[e] = "none" /\ card'[e] \notin Decision
    BY <1>1, <1>3 DEF Decision
  <2> QED
    BY <1>1, <2>1, <2>2, <2>3 DEF CardInv
<1>6. OutcomeInv'
  <2>1. \A e : Settled(e)' => Settled(e)
    BY <1>1, <1>2 DEF Settled, InInbox
  <2>2. ToolKept
    BY <1>0, <1>1, SameTool
  <2> QED
    BY <1>0, <1>1, <1>2, <2>1, <2>2, OutcomeKept
<1>7. \A e \in denied, b \in Decision : <<e, b>> \in said' => <<e, b>> \in said
  BY <1>0, <1>2, Base
<1>8. UNCHANGED phase
  BY <1>1
<1> QED
  BY <1>2, <1>4, <1>5, <1>6, <1>7, <1>8, DecidingInv

LEMMA ArriveInv == ASSUME TurnInv, Arrive PROVE TurnInv'
<1>0. /\ TypeOK /\ PhaseInv /\ AnswerInv /\ CardInv /\ OutcomeInv
      /\ inbox \in Seq(Call \X Decision)
  BY DEF TurnInv, TypeOK
<1>1. PICK h : h = Head(inbox)
  OBVIOUS
<1>2. /\ UNCHANGED <<channel, tier, present, phase, tool, batch, gated, denied, todo, asking,
                     result, answers, loop, card, clicks, aborted, requested, away, warnings,
                     changes>>
      /\ inbox # <<>> /\ inbox' = Tail(inbox) /\ Record(h[1], h[2])
  BY <1>1 DEF Arrive, env, turn
<1>3. /\ inbox' \in Seq(Call \X Decision)
      /\ h[1] \in Call /\ h[2] \in Decision
      /\ \A e : InInbox(e) <=> InInbox(e)' \/ e = h[1]
      /\ \A e : LastClick(e) => LastClick(e)'
      /\ LastClick(h[1]) /\ ~InInbox(h[1])' => card[h[1]] = h[2]
  BY <1>0, <1>1, <1>2, Taken
<1>4. /\ Deciding /\ PhaseInv' /\ SaidInv' /\ said \subseteq said'
      /\ said' \subseteq Call \X Decision /\ stray' \subseteq Call
      /\ heard' \in Decision \cup {"none", "timeout"}
      /\ \A e \in Call : e \in denied \/ result[e] # "none" =>
            \A b \in Decision : <<e, b>> \in said' => <<e, b>> \in said
      /\ stray \subseteq stray'
      /\ IF Waiting(h[1]) THEN heard' = h[2] /\ stray' = stray
                          ELSE heard' = heard /\ h[1] \in stray'
  BY <1>2, <1>3, Recorded
<1>5. TypeOK'
  BY <1>0, <1>2, <1>3, <1>4 DEF TypeOK
<1>6. \A e : Settled(e)' => Settled(e) \/ (phase = "wait" /\ e = asking)
  BY <1>3, <1>4 DEF Settled, Waiting
<1>7. asking # 0 => asking \in batch \ (gated \cup denied) /\ result[asking] = "none"
  BY <1>0, Base DEF PhaseInv, AnswerInv, Live
<1>8. CardInv'
  <2>1. phase = "wait" => asking # 0
    BY <1>0 DEF PhaseInv
  <2>2. Live => \A e \in denied : Settled(e)' => card[e] # "approve"
    BY <1>0, <1>6, <1>7, <2>1 DEF CardInv
  <2>3. Live /\ phase # "tiers" =>
           \A e \in batch \ (denied \cup gated \cup {asking}) : Settled(e)' => card[e] # "deny"
    BY <1>0, <1>6 DEF CardInv
  <2>4. asking' = asking
    BY <1>2
  <2>5. ASSUME phase \in {"wait", "close"}, asking \notin stray', card[asking] \in Decision
        PROVE  (~InInbox(asking)' => heard' = card[asking]) /\ (phase = "wait" => LastClick(asking)')
    <3>1. asking \notin stray
      BY <1>4, <2>5
    <3>2. /\ ~InInbox(asking) => heard = card[asking]
          /\ phase = "wait" => LastClick(asking)
      BY <1>0, <2>5, <3>1 DEF CardInv
    <3>3. CASE asking = h[1]
      <4>1. phase = "wait" /\ heard' = h[2]
        BY <1>4, <2>5, <3>3 DEF Waiting
      <4> QED
        BY <1>3, <2>4, <3>2, <3>3, <4>1
    <3>4. CASE asking # h[1]
      <4>1. heard' = heard /\ (InInbox(asking)' <=> InInbox(asking))
        BY <1>3, <1>4, <2>4, <3>4 DEF Waiting
      <4> QED
        BY <1>3, <2>4, <3>2, <4>1
    <3> QED
      BY <3>3, <3>4
  <2>6. channel # "feishu" => \A e \in Call : card[e] = "none"
    BY <1>0 DEF CardInv
  <2> QED
    BY <1>2, <2>2, <2>3, <2>5, <2>6 DEF CardInv, Live
<1>9. OutcomeInv'
  <2>1. \A e : result[e] # "none" => (Settled(e)' => Settled(e))
    BY <1>0, <1>6, <1>7 DEF PhaseInv
  <2>2. ToolKept
    BY <1>0, <1>2, SameTool
  <2> QED
    BY <1>0, <1>2, <1>4, <2>1, <2>2, OutcomeKept
<1>10. \A e \in denied, b \in Decision : <<e, b>> \in said' => <<e, b>> \in said
  BY <1>0, <1>4, Base
<1>11. UNCHANGED phase
  BY <1>2
<1> QED
  BY <1>4, <1>5, <1>8, <1>9, <1>10, <1>11, DecidingInv

LEMMA ClickInv ==
  ASSUME TurnInv, NEW c \in Call, NEW d \in Decision, NEW here \in BOOLEAN, Click(c, d, here)
  PROVE  TurnInv'
<1>0. /\ TypeOK /\ PhaseInv /\ AnswerInv /\ SaidInv /\ CardInv /\ OutcomeInv
      /\ inbox \in Seq(Call \X Decision)
      /\ card \in [Call -> {"none", "buttons", "timeout"} \cup Decision]
  BY DEF TurnInv, TypeOK
<1>1. /\ UNCHANGED <<channel, tier, present, phase, tool, batch, gated, denied, todo, asking, heard,
                     result, answers, loop, said, aborted, requested, away, warnings, changes>>
      /\ card[c] # "none" /\ clicks < MaxClicks /\ clicks' = clicks + 1
      /\ card' = [card EXCEPT ![c] = d]
  BY DEF Click, env, turn, ask
<1>2. /\ here => inbox' = Append(inbox, <<c, d>>) /\ stray' = stray
      /\ ~here => stray' = stray \cup {c} /\ inbox' = inbox
  BY DEF Click
<1>3. /\ card' \in [Call -> {"none", "buttons", "timeout"} \cup Decision]
      /\ card'[c] = d /\ \A e \in Call \ {c} : card'[e] = card[e]
  BY <1>0, <1>1
<1>4. channel = "feishu"
  BY <1>0, <1>1 DEF CardInv
<1>5. /\ inbox' \in Seq(Call \X Decision)
      /\ \A e : e # c => (InInbox(e)' <=> InInbox(e))
      /\ \A e \in Call : e # c /\ LastClick(e) => LastClick(e)'
      /\ c \in stray' \/ (InInbox(c)' /\ LastClick(c)')
      /\ stray \subseteq stray' /\ stray' \subseteq Call
      /\ \A e : e # c => (e \in stray' <=> e \in stray)
  <2>1. CASE here
    <3>1. /\ inbox' \in Seq(Call \X Decision)
          /\ \A e : InInbox(e)' <=> InInbox(e) \/ e = c
          /\ \A e : e # c /\ card'[e] = card[e] /\ LastClick(e) => LastClick(e)'
          /\ card'[c] = d => LastClick(c)'
      BY <1>0, <1>2, <2>1, Appended
    <3>2. stray' = stray /\ stray \subseteq Call
      BY <1>0, <1>2, <2>1 DEF TypeOK
    <3> QED
      BY <1>3, <3>1, <3>2
  <2>2. CASE ~here
    <3>1. /\ stray' = stray \cup {c} /\ inbox' = inbox /\ stray \subseteq Call
      BY <1>0, <1>2, <2>2 DEF TypeOK
    <3>2. \A e \in Call : e # c /\ LastClick(e) => LastClick(e)'
      BY <1>3, <3>1 DEF LastClick
    <3>3. \A e : InInbox(e)' <=> InInbox(e)
      BY <3>1 DEF InInbox
    <3> QED
      BY <1>0, <3>1, <3>2, <3>3
  <2> QED
    BY <2>1, <2>2
<1>6. \A e \in Call : Settled(e)' => Settled(e) /\ card'[e] = card[e]
  BY <1>3, <1>5 DEF Settled
<1>7. Deciding
  BY <1>1 DEF Deciding
<1>8. TypeOK'
  <2>1. clicks' \in 0..MaxClicks
    BY <1>0, <1>1, Constants DEF TypeOK
  <2> QED
    BY <1>0, <1>1, <1>3, <1>5, <2>1 DEF TypeOK
<1>9. PhaseInv'
  BY <1>0, <1>1 DEF PhaseInv, Live
<1>10. SaidInv'
  <2>1. \A e \in Call : Fresh(e)' => Fresh(e) /\ e # c
    BY <1>0, <1>1 DEF Fresh, SaidInv
  <2>2. \A e : Silent(e)' <=> Silent(e)
    BY <1>1 DEF Silent
  <2>3. \A e \in Call : Fresh(e)' => Silent(e)' /\ card'[e] = "none"
    BY <1>0, <1>3, <2>1, <2>2 DEF SaidInv
  <2> QED
    BY <1>0, <1>1, <2>2, <2>3 DEF SaidInv
<1>11. CardInv'
  <2>1. denied \subseteq Call /\ batch \subseteq Call
    BY <1>0, Base
  <2>2. Live => \A e \in denied : Settled(e)' => card'[e] # "approve"
    BY <1>0, <1>6, <2>1 DEF CardInv
  <2>3. Live /\ phase # "tiers" =>
           \A e \in batch \ (denied \cup gated \cup {asking}) : Settled(e)' => card'[e] # "deny"
    BY <1>0, <1>6, <2>1 DEF CardInv
  <2>4. asking' = asking
    BY <1>1
  <2>5. ASSUME phase \in {"wait", "close"}, asking \notin stray', card'[asking] \in Decision
        PROVE  (~InInbox(asking)' => heard = card'[asking]) /\ (phase = "wait" => LastClick(asking)')
    <3>1. CASE asking = c
      BY <1>5, <2>4, <2>5, <3>1
    <3>2. CASE asking # c
      <4>1. asking \in Call
        BY <1>0, <2>1, <2>5 DEF PhaseInv
      <4>2. card'[asking] = card[asking] /\ asking \notin stray
        BY <1>3, <1>5, <2>5, <3>2, <4>1
      <4>3. /\ ~InInbox(asking) => heard = card[asking]
            /\ phase = "wait" => LastClick(asking)
        BY <1>0, <2>5, <4>2 DEF CardInv
      <4> QED
        BY <1>5, <2>4, <3>2, <4>1, <4>2, <4>3
    <3> QED
      BY <3>1, <3>2
  <2> QED
    BY <1>1, <1>4, <2>2, <2>3, <2>5 DEF CardInv, Live
<1>12. OutcomeInv'
  <2>1. ToolKept
    BY <1>0, <1>1, SameTool
  <2> QED
    BY <1>0, <1>1, <1>6, <2>1, OutcomeKept
<1>13. UNCHANGED <<phase, said>>
  BY <1>1
<1> QED
  BY <1>7, <1>8, <1>9, <1>10, <1>11, <1>12, <1>13, DecidingInv

-----------------------------------------------------------------------------
(* Execution.                                                              *)

LEMMA SortInv == ASSUME TurnInv, Sort PROVE TurnInv'
<1>0. /\ TypeOK /\ PhaseInv /\ AnswerInv /\ SaidInv /\ PermitInv /\ CardInv /\ OutcomeInv
      /\ loop.count <= Len(tool)
  BY DEF TurnInv
<1>1. /\ UNCHANGED <<channel, tier, present, tool, gated, asking, heard, loop, card, inbox, said,
                     stray, clicks, aborted, requested, away, warnings, changes>>
      /\ phase = "sort" /\ todo' = batch \ denied
      /\ result' = [c \in Call |-> IF c \in denied THEN "denied" ELSE result[c]]
      /\ answers' = [c \in Call |-> IF c \in denied THEN answers[c] + 1 ELSE answers[c]]
  BY DEF Sort, env, ask, user
<1>2. \/ batch \subseteq denied /\ phase' = "model" /\ batch' = {} /\ denied' = {}
      \/ ~(batch \subseteq denied) /\ phase' = "run" /\ batch' = batch /\ denied' = denied
  BY DEF Sort
<1>3. /\ gated = {} /\ asking = 0 /\ heard = "none" /\ denied \subseteq batch /\ batch \subseteq Call
      /\ batch \subseteq 1..Len(tool) /\ Live /\ Live' /\ 0 \notin Call
  BY <1>0, <1>1, <1>2, Base DEF PhaseInv, Live
<1>4. /\ \A c \in batch : c \notin warnings /\ answers[c] = 0 /\ result[c] = "none"
      /\ \A c \in 1..Len(tool) \ batch : answers[c] = IF c \in warnings THEN 0 ELSE 1
      /\ \A c \in Call : c > Len(tool) => result[c] = "none" /\ answers[c] = 0 /\ c \notin warnings
  BY <1>0, <1>1, <1>3 DEF AnswerInv
<1>5. /\ \A c \in Call : c \in denied => result'[c] = "denied" /\ answers'[c] = 1
      /\ \A c \in Call : c \notin denied => result'[c] = result[c] /\ answers'[c] = answers[c]
      /\ result' \in [Call -> {"none", "denied", "absent", "ran", "aborted"}]
      /\ answers' \in [Call -> 0..1]
  BY <1>0, <1>1, <1>3, <1>4 DEF TypeOK
<1>6. TypeOK' /\ (loop.count <= Len(tool))'
  <2>1. /\ batch' \subseteq 1..Len(tool) /\ gated \subseteq batch' /\ denied' \subseteq batch'
        /\ todo' \subseteq batch' /\ phase' \in {"model", "run"}
    BY <1>1, <1>2, <1>3
  <2> QED
    BY <1>0, <1>1, <1>3, <1>5, <2>1 DEF TypeOK
<1>7. PhaseInv'
  BY <1>0, <1>1, <1>2, <1>3 DEF PhaseInv, Live
<1>8. AnswerInv'
  <2>1. \A c \in Call : c > Len(tool) => c \notin batch
    BY <1>0, <1>3, Base
  <2>2. 1..Len(tool) \subseteq Call
    BY <1>0, Base
  <2>3. \A c \in Call : c > Len(tool) => result'[c] = "none" /\ answers'[c] = 0 /\ c \notin warnings
    BY <1>3, <1>4, <1>5, <2>1
  <2>4. \A c \in 1..Len(tool) \ batch' : answers'[c] = IF c \in warnings THEN 0 ELSE 1
    BY <1>2, <1>3, <1>4, <1>5, <2>2
  <2>5. \A c \in batch' :
          /\ c \notin warnings /\ phase' = "run"
          /\ answers'[c] = IF c \in denied' THEN 1 ELSE 0
          /\ c \in todo' => result'[c] = "none"
          /\ result'[c] = "denied" <=> c \in denied'
    BY <1>1, <1>2, <1>3, <1>4, <1>5
  <2> QED
    BY <1>1, <2>3, <2>4, <2>5 DEF AnswerInv
<1>9. SaidInv'
  <2>1. \A c \in Call : Fresh(c)' => Fresh(c)
    BY <1>1, <1>2 DEF Fresh
  <2>2. phase' \notin {"wait", "close"}
    BY <1>2
  <2> QED
    BY <1>0, <1>1, <2>1, <2>2 DEF SaidInv, Silent
<1>10. \A c : /\ Needs(c)' = Needs(c) /\ (Allowed(c)' <=> Allowed(c))
              /\ (Deniable(c)' <=> Deniable(c)) /\ (Settled(c)' <=> Settled(c))
  BY <1>1, SettledSame DEF Needs, Stricter, Allowed, Deniable
<1>11. /\ \A c \in denied : Deniable(c) /\ (Settled(c) => card[c] # "approve")
       /\ \A c \in batch \ denied : Allowed(c) /\ (Settled(c) => card[c] # "deny")
  BY <1>0, <1>1, <1>3 DEF PermitInv, CardInv
<1>12. denied' \subseteq denied /\ batch' \ denied' \subseteq batch \ denied
  BY <1>2
<1>13. PermitInv'
  BY <1>1, <1>3, <1>10, <1>11, <1>12 DEF PermitInv
<1>14. CardInv'
  <2>1. channel # "feishu" => \A c \in Call : card[c] = "none"
    BY <1>0 DEF CardInv
  <2>2. phase' \notin {"wait", "close"}
    BY <1>2
  <2> QED
    BY <1>1, <1>3, <1>10, <1>11, <1>12, <2>1, <2>2 DEF CardInv
<1>15. OutcomeInv'
  <2> SUFFICES ASSUME NEW c \in Call
               PROVE  /\ result'[c] \in {"ran", "aborted"} => Allowed(c)
                      /\ result'[c] = "denied" => Deniable(c)
                      /\ Settled(c) => /\ result'[c] \in Ran => card[c] # "deny"
                                       /\ result'[c] = "denied" => card[c] # "approve"
    BY <1>1, <1>10 DEF OutcomeInv, Ran
  <2>1. CASE c \in denied
    BY <1>5, <1>11, <2>1 DEF Ran
  <2>2. CASE c \notin denied
    BY <1>0, <1>5, <2>2 DEF OutcomeInv
  <2> QED
    BY <2>1, <2>2
<1> QED
  BY <1>6, <1>7, <1>8, <1>9, <1>13, <1>14, <1>15 DEF TurnInv

LEMMA RunInv == ASSUME TurnInv, NEW c \in Call, Run(c) PROVE TurnInv'
<1>0. /\ TypeOK /\ PhaseInv /\ AnswerInv /\ SaidInv /\ PermitInv /\ CardInv /\ OutcomeInv
      /\ loop.count <= Len(tool)
  BY DEF TurnInv
<1>1. /\ UNCHANGED <<channel, tier, present, phase, tool, batch, gated, denied, asking, heard,
                     answers, loop, card, inbox, said, stray, clicks, aborted, requested, away,
                     warnings, changes>>
      /\ phase = "run" /\ c \in todo /\ todo' = todo \ {c}
  BY DEF Run, env, ask, user
<1>2. PICK o \in {"absent", "ran", "aborted"} : result' = [result EXCEPT ![c] = o]
  BY DEF Run, Outcome
<1>3. /\ gated = {} /\ asking = 0 /\ c \in batch /\ c \notin denied /\ batch \subseteq Call
      /\ Live /\ 0 \notin Call
  BY <1>0, <1>1, Base DEF PhaseInv, Live
<1>4. /\ result' \in [Call -> {"none", "denied", "absent", "ran", "aborted"}]
      /\ result'[c] = o /\ \A e \in Call \ {c} : result'[e] = result[e]
  BY <1>0, <1>2 DEF TypeOK
<1>5. TypeOK' /\ (loop.count <= Len(tool))'
  BY <1>0, <1>1, <1>4 DEF TypeOK
<1>6. PhaseInv'
  BY <1>0, <1>1 DEF PhaseInv, Live
<1>7. AnswerInv'
  <2>1. \A e \in Call : e > Len(tool) => e # c
    BY <1>0, <1>3, Base
  <2>2. \A e \in Call : e > Len(tool) => result'[e] = "none" /\ answers[e] = 0 /\ e \notin warnings
    BY <1>0, <1>4, <2>1 DEF AnswerInv
  <2>3. \A e \in batch : /\ e \in todo' => result'[e] = "none"
                         /\ result'[e] = "denied" <=> e \in denied
    BY <1>0, <1>1, <1>3, <1>4 DEF AnswerInv
  <2> QED
    BY <1>0, <1>1, <1>3, <2>2, <2>3 DEF AnswerInv, Live
<1>8. SaidInv'
  BY <1>0, <1>1 DEF SaidInv, Fresh, Silent
<1>9. \A e : /\ Needs(e)' = Needs(e) /\ (Allowed(e)' <=> Allowed(e))
             /\ (Deniable(e)' <=> Deniable(e)) /\ (Settled(e)' <=> Settled(e))
  BY <1>1, SettledSame DEF Needs, Stricter, Allowed, Deniable
<1>10. PermitInv'
  BY <1>0, <1>1, <1>9 DEF PermitInv, Live
<1>11. CardInv'
  BY <1>0, <1>1, <1>3, <1>9 DEF CardInv, Live
<1>12. Allowed(c) /\ (Settled(c) => card[c] # "deny")
  BY <1>0, <1>1, <1>3 DEF PermitInv, CardInv
<1>13. OutcomeInv'
  <2> SUFFICES ASSUME NEW e \in Call
               PROVE  /\ result'[e] \in {"ran", "aborted"} => Allowed(e)
                      /\ result'[e] = "denied" => Deniable(e)
                      /\ Settled(e) => /\ result'[e] \in Ran => card[e] # "deny"
                                       /\ result'[e] = "denied" => card[e] # "approve"
    BY <1>1, <1>9 DEF OutcomeInv, Ran
  <2>1. CASE e = c
    BY <1>4, <1>12, <2>1
  <2>2. CASE e # c
    BY <1>0, <1>4, <2>2 DEF OutcomeInv
  <2> QED
    BY <2>1, <2>2
<1> QED
  BY <1>5, <1>6, <1>7, <1>8, <1>10, <1>11, <1>13 DEF TurnInv

LEMMA FinishInv == ASSUME TurnInv, Finish PROVE TurnInv'
<1>0. /\ TypeOK /\ PhaseInv /\ AnswerInv /\ SaidInv /\ PermitInv /\ CardInv /\ OutcomeInv
      /\ loop.count <= Len(tool)
  BY DEF TurnInv
<1>1. /\ UNCHANGED <<channel, tier, present, tool, gated, todo, asking, heard, result, loop, card,
                     inbox, said, stray, clicks, aborted, requested, away, warnings, changes>>
      /\ phase = "run" /\ todo = {} /\ phase' = "model" /\ batch' = {} /\ denied' = {}
      /\ answers' = [c \in Call |-> IF c \in batch \ denied THEN answers[c] + 1 ELSE answers[c]]
  BY DEF Finish, env, ask, user
<1>2. /\ gated = {} /\ asking = 0 /\ heard = "none" /\ batch \subseteq 1..Len(tool)
      /\ 1..Len(tool) \subseteq Call /\ Live /\ 0 \notin Call
  BY <1>0, <1>1, Base DEF PhaseInv, Live
<1>3. /\ \A c \in batch : c \notin warnings /\ answers[c] = IF c \in denied THEN 1 ELSE 0
      /\ \A c \in 1..Len(tool) \ batch : answers[c] = IF c \in warnings THEN 0 ELSE 1
      /\ \A c \in Call : c > Len(tool) => result[c] = "none" /\ answers[c] = 0 /\ c \notin warnings
  BY <1>0, <1>1, <1>2 DEF AnswerInv
<1>4. /\ \A c \in batch : answers'[c] = 1
      /\ \A c \in Call \ batch : answers'[c] = answers[c]
      /\ answers' \in [Call -> 0..1]
  <2>1. batch \subseteq Call /\ answers \in [Call -> 0..1]
    BY <1>0, Base DEF TypeOK
  <2>2. \A c \in batch : answers[c] = IF c \in denied THEN 1 ELSE 0
    BY <1>3
  <2>3. \A c \in Call : answers'[c] = IF c \in batch \ denied THEN answers[c] + 1 ELSE answers[c]
    BY <1>1
  <2>4. \A c \in batch : answers'[c] = 1
    BY <2>1, <2>2, <2>3
  <2>5. \A c \in Call \ batch : answers'[c] = answers[c]
    BY <2>3
  <2>6. \A c \in Call : answers'[c] \in 0..1
    BY <2>1, <2>4, <2>5
  <2> QED
    BY <1>1, <2>4, <2>5, <2>6
<1>5. TypeOK' /\ (loop.count <= Len(tool))'
  <2>1. gated = {} /\ todo = {} /\ asking = 0
    BY <1>1, <1>2
  <2> QED
    BY <1>0, <1>1, <1>4, <2>1 DEF TypeOK
<1>6. PhaseInv'
  BY <1>1, <1>2 DEF PhaseInv, Live
<1>7. AnswerInv'
  <2>1. \A c \in Call : c > Len(tool) => c \notin batch
    BY <1>0, Base
  <2>2. \A c \in Call : c > Len(tool) => result[c] = "none" /\ answers'[c] = 0 /\ c \notin warnings
    BY <1>3, <1>4, <2>1
  <2>3. \A c \in 1..Len(tool) : answers'[c] = IF c \in warnings THEN 0 ELSE 1
    BY <1>2, <1>3, <1>4
  <2> QED
    BY <1>1, <2>2, <2>3 DEF AnswerInv
<1>8. SaidInv'
  <2>1. \A c \in Call : Fresh(c)' => Fresh(c)
    BY <1>1 DEF Fresh
  <2> QED
    BY <1>0, <1>1, <2>1 DEF SaidInv, Silent
<1>9. PermitInv'
  BY <1>1, <1>2 DEF PermitInv
<1>10. CardInv'
  BY <1>0, <1>1 DEF CardInv
<1>11. OutcomeInv'
  <2>1. \A e : Settled(e)' <=> Settled(e)
    BY <1>1, SettledSame
  <2> QED
    BY <1>0, <1>1, <2>1, OutcomeKept, SameTool
<1> QED
  BY <1>5, <1>6, <1>7, <1>8, <1>9, <1>10, <1>11 DEF TurnInv

LEMMA OutsideInv ==
  ASSUME TurnInv, Abort \/ \E t \in Mcp : Change(t)
  PROVE  TurnInv'
<1>0. /\ TypeOK /\ PhaseInv /\ AnswerInv /\ SaidInv /\ PermitInv /\ CardInv /\ OutcomeInv
      /\ loop.count <= Len(tool)
  BY DEF TurnInv
<1>1. /\ UNCHANGED <<channel, tier, phase, tool, batch, gated, denied, todo, asking, heard, result,
                     answers, loop, card, inbox, said, stray, clicks, requested, away, warnings>>
      /\ aborted' \in BOOLEAN /\ present' \subseteq Tool /\ changes' \in 0..MaxChanges
  <2>1. CASE Abort
    BY <1>0, <2>1 DEF Abort, env, turn, ask, user, TypeOK
  <2>2. CASE \E t \in Mcp : Change(t)
    <3>1. PICK t \in Mcp : Change(t)
      BY <2>2
    <3>2. present' \subseteq Tool /\ changes' \in 0..MaxChanges
      BY <1>0, <3>1, Constants DEF Change, TypeOK
    <3> QED
      BY <1>0, <3>1, <3>2 DEF Change, env, turn, ask, user, TypeOK
  <2> QED
    BY <2>1, <2>2
<1>2. TypeOK' /\ (loop.count <= Len(tool))'
  BY <1>0, <1>1 DEF TypeOK
<1>3. PhaseInv'
  BY <1>0, <1>1 DEF PhaseInv, Live
<1>4. AnswerInv'
  BY <1>0, <1>1 DEF AnswerInv, Live
<1>5. SaidInv'
  BY <1>0, <1>1 DEF SaidInv, Fresh, Silent
<1>6. \A e : /\ Needs(e)' = Needs(e) /\ (Allowed(e)' <=> Allowed(e))
             /\ (Deniable(e)' <=> Deniable(e)) /\ (Settled(e)' <=> Settled(e))
  BY <1>1, SettledSame DEF Needs, Stricter, Allowed, Deniable
<1>7. PermitInv'
  BY <1>0, <1>1, <1>6 DEF PermitInv, Live
<1>8. CardInv'
  <2>1. \A e : (LastClick(e)' <=> LastClick(e)) /\ (InInbox(e)' <=> InInbox(e))
    BY <1>1 DEF LastClick, InInbox
  <2> QED
    BY <1>0, <1>1, <1>6, <2>1 DEF CardInv, Live
<1>9. OutcomeInv'
  BY <1>0, <1>1, <1>6 DEF OutcomeInv
<1> QED
  BY <1>2, <1>3, <1>4, <1>5, <1>7, <1>8, <1>9 DEF TurnInv

-----------------------------------------------------------------------------
(* The theorems.                                                           *)

LEMMA InitInv == ASSUME Init PROVE TurnInv
<1>1. /\ Len(tool) = 0 /\ tool \in Seq(Tool) /\ inbox \in Seq(Call \X Decision)
      /\ DOMAIN inbox = {} /\ MaxCalls \in Nat /\ MaxClicks \in Nat /\ MaxChanges \in Nat
  BY Constants DEF Init
<1>2. TypeOK /\ loop.count <= Len(tool)
  <2>1. present \subseteq Tool
    BY Constants DEF Init
  <2>2. loop \in [name : Tool \cup {"none"}, count : 0..MaxCalls, warned : BOOLEAN] /\ loop.count = 0
    BY <1>1 DEF Init, Quiet
  <2>3. /\ result \in [Call -> {"none", "denied", "absent", "ran", "aborted"}]
        /\ answers \in [Call -> 0..1]
        /\ card \in [Call -> {"none", "buttons", "timeout"} \cup Decision]
    BY DEF Init
  <2>4. /\ channel \in {"web", "feishu", "none"} /\ tier \in Tier /\ phase = "model"
        /\ batch = {} /\ gated = {} /\ denied = {} /\ todo = {} /\ asking = 0 /\ heard = "none"
        /\ said = {} /\ requested = {} /\ stray = {} /\ away = {} /\ warnings = {}
    BY DEF Init
  <2>5. aborted \in BOOLEAN
    BY DEF Init
  <2>6. clicks \in 0..MaxClicks /\ changes \in 0..MaxChanges
    <3>1. clicks = 0 /\ changes = 0
      BY DEF Init
    <3> QED
      BY <1>1, <3>1
  <2> QED
    BY <1>1, <2>1, <2>2, <2>3, <2>4, <2>5, <2>6 DEF TypeOK
<1>3. PhaseInv
  BY DEF Init, PhaseInv, Live
<1>4. AnswerInv
  BY <1>1 DEF Init, AnswerInv, Live
<1>5. SaidInv
  BY DEF Init, SaidInv, Silent
<1>6. PermitInv
  BY DEF Init, PermitInv
<1>7. CardInv
  BY DEF Init, CardInv
<1>8. OutcomeInv
  BY DEF Init, OutcomeInv, Ran
<1> QED
  BY <1>2, <1>3, <1>4, <1>5, <1>6, <1>7, <1>8 DEF TurnInv

LEMMA NextInv == ASSUME TurnInv, [Next]_vars PROVE TurnInv'
<1>1. ASSUME NEW n \in 1..MaxBatch, NEW seq \in [1..n -> Tool], Respond(seq) PROVE TurnInv'
  BY <1>1, RespondInv
<1>2. CASE Over \/ Cancel
  BY <1>2, EndInv
<1>3. CASE Runner
  <2>1. CASE Evaluate
    BY <2>1, EvaluateInv
  <2>2. CASE Posted \/ Decide
    BY <2>2, HookInv
  <2>3. CASE NotPosted \/ WakeWeb \/ TimeOutWeb \/ Close
    BY <2>3, DecisionsSettle
  <2>4. CASE Sort
    BY <2>4, SortInv
  <2>5. CASE Finish
    BY <2>5, FinishInv
  <2>6. ASSUME NEW c \in Call, Ask(c) \/ Run(c) PROVE TurnInv'
    BY <2>6, AskInv, RunInv
  <2> QED
    BY <1>3, <2>1, <2>2, <2>3, <2>4, <2>5, <2>6 DEF Runner
<1>4. CASE Countdown
  BY <1>4, HookInv
<1>5. ASSUME NEW c \in Call, NEW d \in Decision, Approve(c, d) PROVE TurnInv'
  BY <1>5, ApproveInv
<1>6. ASSUME NEW c \in Call, NEW d \in Decision, NEW here \in BOOLEAN, Click(c, d, here)
      PROVE  TurnInv'
  BY <1>6, ClickInv
<1>7. CASE Arrive
  BY <1>7, ArriveInv
<1>8. CASE Abort \/ \E t \in Mcp : Change(t)
  BY <1>8, OutsideInv
<1>9. CASE UNCHANGED vars
  <2>1. UNCHANGED <<channel, tier, present, phase, tool, batch, gated, denied, todo, asking, heard,
                    result, answers, loop, card, inbox, said, stray, clicks, aborted, requested,
                    away, warnings, changes>>
    BY <1>9 DEF vars, env, turn, ask, user
  <2>2. /\ TypeOK' <=> TypeOK
        /\ PhaseInv' <=> PhaseInv
        /\ AnswerInv' <=> AnswerInv
    BY <2>1 DEF TypeOK, PhaseInv, AnswerInv, Live
  <2>3. \A e : /\ Needs(e)' = Needs(e) /\ (Allowed(e)' <=> Allowed(e))
               /\ (Deniable(e)' <=> Deniable(e)) /\ (Settled(e)' <=> Settled(e))
               /\ (Silent(e)' <=> Silent(e)) /\ (Fresh(e)' <=> Fresh(e))
               /\ (LastClick(e)' <=> LastClick(e)) /\ (InInbox(e)' <=> InInbox(e))
    BY <2>1, SettledSame
       DEF Needs, Stricter, Allowed, Deniable, Silent, Fresh, LastClick, InInbox
  <2>4. SaidInv' /\ PermitInv'
    BY <2>1, <2>3 DEF TurnInv, SaidInv, PermitInv, Live
  <2>5. CardInv' /\ OutcomeInv'
    BY <2>1, <2>3 DEF TurnInv, CardInv, OutcomeInv, Live
  <2> QED
    BY <2>1, <2>2, <2>4, <2>5 DEF TurnInv
<1> QED
  BY <1>1, <1>2, <1>3, <1>4, <1>5, <1>6, <1>7, <1>8, <1>9 DEF Next

\* What the run "tools" checks follows from the invariant.
LEMMA InvSettles == ASSUME TurnInv PROVE CallsAreSettled
<1>0. TypeOK /\ PhaseInv /\ AnswerInv /\ OutcomeInv
  BY DEF TurnInv
<1>1. RunsAsAllowed
  BY <1>0 DEF RunsAsAllowed, OutcomeInv, Allowed, Deniable
<1>2. EveryCallAnswered
  BY <1>0 DEF EveryCallAnswered, AnswerInv, PhaseInv, Live
<1>3. CardTellsOutcome
  <2>1. ASSUME NEW c \in Call \ (stray \cup {inbox[i][1] : i \in DOMAIN inbox})
        PROVE  Settled(c)
    BY <2>1 DEF Settled, InInbox
  <2> QED
    BY <1>0, <2>1 DEF CardTellsOutcome, OutcomeInv, Ran
<1> QED
  BY <1>0, <1>1, <1>2, <1>3 DEF CallsAreSettled

\* Calls, decisions, cards and results of a run fit together: the inductive
\* invariant of run_agent_stream, its approval hooks and their users.
THEOREM Invariance == Spec => []TurnInv
<1>1. Init => TurnInv
  BY InitInv
<1>2. TurnInv /\ [Next]_vars => TurnInv'
  BY NextInv
<1> QED
  BY <1>1, <1>2, PTL DEF Spec

\* Whatever the tools, tiers and clicks, a tool runs only as the tiers and the
\* user allow, each call gets one result, and no card of a decided call shows
\* the opposite (run_agent_stream, _route, _patch_terminal_card).
THEOREM SettledCalls == Spec => []CallsAreSettled
<1>1. TurnInv => CallsAreSettled
  BY InvSettles
<1> QED
  BY <1>1, Invariance, PTL
=============================================================================

---------------------------- MODULE FeishuAnswer ----------------------------
(***************************************************************************)
(* How messages of Feishu become runs and how the events of a run become   *)
(* what the user sees (channels/feishu: handler.py from the image keys on, *)
(* multimodal.py, streaming.py, client.py).                                *)
(*                                                                         *)
(* The answer is a card that is created, sent as a reply, filled while the *)
(* run streams, and closed; without a card it is a text.  Every call to    *)
(* Feishu may be refused, which is only logged, or raise.  A rotation of   *)
(* the session and the shutdown cancel the handler wherever it waits, and  *)
(* nothing of it runs after that.  A reaction to a message the bot has     *)
(* sent starts a run of its own; which messages these are, and which       *)
(* reactions came lately, only this worker knows.                          *)
(***************************************************************************)
EXTENDS Naturals, FiniteSets

CONSTANTS
    Message,      \* messages and reactions that are to be answered
    MaxImages,    \* images of a message that are fetched (5)
    MaxSent,      \* beyond it, old entries of _bot_sent_message_ids go (5000)
    MaxHandled,   \* beyond it, _reaction_last_handled is emptied (1000)
    MaxChunks, MaxEvents    \* bounds: pieces of text of a run, faults and delays

AnswerAssumption == {MaxImages, MaxSent, MaxHandled, MaxChunks, MaxEvents} \subseteq Nat

VARIABLES
    step,       \* [Message -> what its handler does next]
    images,     \* [Message -> images to be fetched and fetched]
    text,       \* [Message -> BOOLEAN: it has a text]
    run,        \* [Message -> pieces of text so far, and how the run ended]
    card,       \* [Message -> what the card shows, whether it is sent, streaming]
    said,       \* [Message -> texts sent as replies]
    sent,       \* _bot_sent_message_ids: [answer -> "young" or "old"]
    handled,    \* _reaction_last_handled: [answer -> "lately" or "before"]
    hurt,       \* history: [Message -> calls that failed]
    events

handler == <<step, images, text>>
answer == <<card, said>>
tables == <<sent, handled>>
vars == <<handler, run, answer, tables, hurt, events>>

NoCard == [shows |-> 0, end |-> "none", sent |-> FALSE, streaming |-> FALSE]

Init ==
    /\ step = [m \in Message |-> "unsent"]
    /\ images = [m \in Message |-> [left |-> 0, got |-> 0]]
    /\ text = [m \in Message |-> FALSE]
    /\ run = [m \in Message |-> [chunks |-> 0, end |-> "none"]]
    /\ card = [m \in Message |-> NoCard] /\ said = [m \in Message |-> {}]
    /\ sent = <<>> /\ handled = <<>>
    /\ hurt = [m \in Message |-> {}] /\ events = 0

Goes(m, next) == step' = [step EXCEPT ![m] = next]

\* A call for m fails, in one of the ways `how'.
Fails(m, how) ==
    /\ events < MaxEvents /\ events' = events + 1
    /\ hurt' = [hurt EXCEPT ![m] = @ \cup {how}]
Works == UNCHANGED <<hurt, events>>

-----------------------------------------------------------------------------
(***************************************************************************)
(* Messages and reactions                                                  *)
(***************************************************************************)
\* extract_text_and_images_from_event: a text, an image, a post with a text
\* and images; of anything else there is nothing.
Contents == [text : BOOLEAN, images : 0 .. MaxImages + 1]

\* The first images are fetched, one by one.
Receive(m, c) ==
    /\ step[m] = "unsent"
    /\ text' = [text EXCEPT ![m] = c.text]
    /\ images' = [images EXCEPT ![m].left = IF c.images > MaxImages THEN MaxImages ELSE c.images]
    /\ Goes(m, "fetch")
    /\ UNCHANGED <<run, answer, tables, hurt, events>>

\* feishu_image_to_block; an image that does not come is left out.
FetchImage(m) ==
    /\ step[m] = "fetch" /\ images[m].left > 0
    /\ \/ images' = [images EXCEPT ![m] = [left |-> @.left - 1, got |-> @.got + 1]] /\ Works
       \/ images' = [images EXCEPT ![m].left = @ - 1] /\ Fails(m, "image")
    /\ UNCHANGED <<step, text, run, answer, tables>>

\* A message without a text and images is dropped, and its id is spent.
Accept(m) ==
    /\ step[m] = "fetch" /\ images[m].left = 0
    /\ Goes(m, IF text[m] \/ images[m].got > 0 THEN "create" ELSE "dropped")
    /\ UNCHANGED <<images, text, run, answer, tables, hurt, events>>

Put(f, k, v) == [x \in DOMAIN f \cup {k} |-> IF x = k THEN v ELSE f[x]]
Sans(f, k) == [x \in DOMAIN f \ {k} |-> f[x]]

\* _track_bot_message
Track(m) ==
    LET all == Put(sent, m, "young")
    IN  IF Cardinality(DOMAIN all) > MaxSent
        THEN [a \in {a \in DOMAIN all : all[a] = "young"} |-> "young"] ELSE all

\* is_bot_message
Known(a) == a \in {x \in DOMAIN sent : sent[x] = "young"}

\* _reaction_should_handle
Spaced(a) == a \notin {x \in DOMAIN handled : handled[x] = "lately"}
Note(a) ==
    LET all == Put(handled, a, "lately")
    IN  IF Cardinality(DOMAIN all) > MaxHandled THEN Put(<<>>, a, "lately") ELSE all

\* A reaction to the answer a becomes the message m, a text.
React(m, a) ==
    /\ step[m] = "unsent" /\ Known(a) /\ Spaced(a)
    /\ handled' = Note(a)
    /\ text' = [text EXCEPT ![m] = TRUE]
    /\ Goes(m, "create")
    /\ UNCHANGED <<images, run, answer, sent, hurt, events>>

\* The user has no session of his own, or there is no queue: it was noted in vain.
ReactInVain(a) ==
    /\ Known(a) /\ Spaced(a)
    /\ handled' = Note(a)
    /\ UNCHANGED <<handler, run, answer, sent, hurt, events>>

\* A reaction to a message that is too old, which is forgotten then.
ReactLate(a) ==
    /\ a \in DOMAIN sent /\ ~Known(a)
    /\ sent' = Sans(sent, a)
    /\ UNCHANGED <<handler, run, answer, handled, hurt, events>>

\* An hour, or ten seconds.
GrowOld(a) ==
    /\ Known(a) /\ events < MaxEvents
    /\ sent' = [sent EXCEPT ![a] = "old"] /\ events' = events + 1
    /\ UNCHANGED <<handler, run, answer, handled, hurt>>

WindowEnds(a) ==
    /\ a \in DOMAIN handled /\ ~Spaced(a)
    /\ handled' = [handled EXCEPT ![a] = "before"]
    /\ UNCHANGED <<handler, run, answer, sent, hurt, events>>

-----------------------------------------------------------------------------
(***************************************************************************)
(* The card                                                                *)
(***************************************************************************)
\* FeishuStreamingCard.start: without a card the answer is a text.
CreateCard(m) ==
    /\ step[m] = "create"
    /\ \/ /\ Goes(m, "reply") /\ Works
          /\ card' = [card EXCEPT ![m].streaming = TRUE]
       \/ Goes(m, "text") /\ Fails(m, "create") /\ card' = card
    /\ UNCHANGED <<images, text, run, said, tables>>

\* Of a reply that is refused nothing but the log knows.
ReplyCard(m) ==
    /\ step[m] = "reply"
    /\ \/ /\ Goes(m, "stream") /\ Works
          /\ card' = [card EXCEPT ![m].sent = TRUE] /\ sent' = Track(m)
       \/ Goes(m, "stream") /\ Fails(m, "reply") /\ UNCHANGED <<card, sent>>
       \/ Goes(m, "text") /\ Fails(m, "start") /\ UNCHANGED <<card, sent>>
    /\ UNCHANGED <<images, text, run, said, handled>>

\* The run yields a piece of text or the start of a tool: card.update.
Chunk(m) ==
    /\ step[m] = "stream" /\ run[m].end = "none" /\ run[m].chunks < MaxChunks
    /\ run' = [run EXCEPT ![m].chunks = @ + 1]
    /\ Goes(m, "update")
    /\ UNCHANGED <<images, text, answer, tables, hurt, events>>

\* Less than throttle_ms after the last update nothing is sent.  If it raises,
\* the run is left where it is, and what has come so far is sent as a text.
UpdateCard(m) ==
    /\ step[m] = "update"
    /\ \/ Goes(m, "stream") /\ card' = card /\ Works
       \/ Goes(m, "stream") /\ card' = [card EXCEPT ![m].shows = run[m].chunks] /\ Works
       \/ Goes(m, "stream") /\ card' = card /\ Fails(m, "refused")
       \/ Goes(m, "fallback") /\ card' = card /\ Fails(m, "update")
    /\ UNCHANGED <<images, text, run, said, tables>>

\* Done, ErrorEvent, or an exception; no run ends without one of them.
RunEnds(m, how) ==
    /\ step[m] = "stream"
    /\ run' = [run EXCEPT ![m].end = how]
    /\ Goes(m, IF how = "raised" THEN "fallback" ELSE "finish")
    /\ UNCHANGED <<images, text, answer, tables, hurt, events>>

\* What the card shows in the end: Done's message, or the error.
Final(m) == [card[m] EXCEPT !.end = run[m].end]

\* Mutant: the last update is one like the others.
FinishThrottled(m) ==
    /\ step[m] = "finish"
    /\ \/ Goes(m, "close") /\ card' = [card EXCEPT ![m] = Final(m)] /\ Works
       \/ Goes(m, "close") /\ card' = card /\ Works
       \/ Goes(m, "close") /\ card' = card /\ Fails(m, "final")
       \/ Goes(m, "fallback") /\ card' = card /\ Fails(m, "finish")
    /\ UNCHANGED <<images, text, run, said, tables>>

\* finish and error
Finish(m) ==
    /\ step[m] = "finish"
    /\ \/ Goes(m, "close") /\ card' = [card EXCEPT ![m] = Final(m)] /\ Works
       \/ Goes(m, "close") /\ card' = card /\ Fails(m, "final")
       \/ Goes(m, "fallback") /\ card' = card /\ Fails(m, "finish")
    /\ UNCHANGED <<images, text, run, said, tables>>

CloseCard(m) ==
    /\ step[m] = "close"
    /\ \/ Goes(m, "over") /\ card' = [card EXCEPT ![m].streaming = FALSE] /\ Works
       \/ Goes(m, "over") /\ card' = card /\ Fails(m, "close")
       \/ Goes(m, "fallback") /\ card' = card /\ Fails(m, "close")
    /\ UNCHANGED <<images, text, run, said, tables>>

\* The text without a card, or in place of one.
Words(m) ==
    IF step[m] = "fallback" THEN IF run[m].chunks > 0 THEN "partial" ELSE "(error)"
    ELSE IF run[m].end = "done" THEN "done" ELSE "(no response)"

\* reply_text
Say(m) ==
    \/ /\ said' = [said EXCEPT ![m] = @ \cup {Words(m)}] /\ sent' = Track(m) /\ Works
    \/ said' = said /\ sent' = sent /\ Fails(m, "text")

Fallback(m) ==
    /\ step[m] = "fallback"
    /\ Say(m)
    /\ Goes(m, "over")
    /\ UNCHANGED <<images, text, run, card, handled>>

\* Without a card only the final message counts; an exception leaves nothing.
TextRunEnds(m, how) ==
    /\ step[m] = "text"
    /\ run' = [run EXCEPT ![m].end = how]
    /\ Goes(m, IF how = "raised" THEN "over" ELSE "reply text")
    /\ UNCHANGED <<images, text, answer, tables, hurt, events>>

ReplyText(m) ==
    /\ step[m] = "reply text"
    /\ Say(m)
    /\ Goes(m, "over")
    /\ UNCHANGED <<images, text, run, card, handled>>

\* What the call under way, which nobody waits for any more, may still do.
Unawaited(m) ==
    \/ step[m] = "create" /\ card' = [card EXCEPT ![m].streaming = TRUE] /\ said' = said
    \/ step[m] = "reply" /\ card' = [card EXCEPT ![m].sent = TRUE] /\ said' = said
    \/ step[m] = "update" /\ card' = [card EXCEPT ![m].shows = run[m].chunks] /\ said' = said
    \/ step[m] = "finish" /\ card' = [card EXCEPT ![m] = Final(m)] /\ said' = said
    \/ step[m] = "close" /\ card' = [card EXCEPT ![m].streaming = FALSE] /\ said' = said
    \/ /\ step[m] \in {"fallback", "reply text"} /\ card' = card
       /\ said' = [said EXCEPT ![m] = @ \cup {Words(m)}]

\* cleanup_session, or the shutdown, cancels the consumer: CancelledError is no
\* Exception, so neither the end nor the fallback is sent, nor the card closed.
Cancel(m) ==
    /\ step[m] \in {"create", "reply", "stream", "update", "finish", "close", "fallback",
                    "text", "reply text"}
    /\ Unawaited(m) \/ UNCHANGED answer
    /\ Goes(m, "cut")
    /\ UNCHANGED <<images, text, run, tables, hurt, events>>

Endings == {"done", "error", "raised"}

Next ==
    \/ \E m \in Message :
         \/ \E c \in Contents : Receive(m, c)
         \/ \E a \in Message : React(m, a)
         \/ FetchImage(m) \/ Accept(m)
         \/ CreateCard(m) \/ ReplyCard(m) \/ Chunk(m) \/ UpdateCard(m)
         \/ \E how \in Endings : RunEnds(m, how) \/ TextRunEnds(m, how)
         \/ Finish(m) \/ CloseCard(m) \/ Fallback(m) \/ ReplyText(m)
         \/ Cancel(m)
    \/ \E a \in Message : ReactInVain(a) \/ ReactLate(a) \/ GrowOld(a) \/ WindowEnds(a)

Spec == Init /\ [][Next]_vars

-----------------------------------------------------------------------------
(***************************************************************************)
(* Properties                                                              *)
(***************************************************************************)
TypeOK ==
    /\ step \in [Message -> {"unsent", "fetch", "dropped", "create", "reply", "stream", "update",
                              "finish", "close", "fallback", "text", "reply text", "over", "cut"}]
    /\ images \in [Message -> [left : 0 .. MaxImages, got : 0 .. MaxImages]]
    /\ run \in [Message -> [chunks : 0 .. MaxChunks, end : Endings \cup {"none"}]]
    /\ card \in [Message -> [shows : 0 .. MaxChunks, end : Endings \cup {"none"},
                              sent : BOOLEAN, streaming : BOOLEAN]]
    /\ \A a \in DOMAIN sent : a \in Message /\ sent[a] \in {"young", "old"}
    /\ \A a \in DOMAIN handled : a \in Message /\ handled[a] \in {"lately", "before"}
    /\ events \in 0 .. MaxEvents

\* Of a run that gave an answer the user sees all of it, whichever updates were
\* throttled or refused, and whether or not there is a card; only the reply
\* with the card, the last update and the text itself can fail
\* (stream_agent_reply, _dispatch_and_reply).  Of a handler that was cancelled,
\* perhaps after the run's last event, nothing is promised.
AnswerIsSeen ==
    \A m \in Message :
        step[m] = "over" /\ run[m].end = "done"
        /\ hurt[m] \cap {"reply", "final", "finish", "text"} = {}
        => "done" \in said[m] \/ (card[m].sent /\ card[m].end = "done")

\* A run that failed is told of, and no card is left streaming, unless a call
\* for it raised or was refused or its handler was cancelled.
EveryEndIsTold ==
    \A m \in Message :
        step[m] = "over" /\ run[m].end \in {"done", "error"} /\ hurt[m] \subseteq {"image", "refused"}
        => card[m].end = run[m].end /\ ~card[m].streaming

\* The card never goes back: it shows a part of what the run has said, or its
\* end (the updates of a card are sent one after the other); so does one whose
\* handler was cancelled with a call under way.
CardFollowsRun ==
    \A m \in Message :
        card[m].shows <= run[m].chunks /\ card[m].end \in {"none", run[m].end}

\* Whatever has a text is answered, and the images that can be had come with it.
NothingSaidIsDropped ==
    \A m \in Message : step[m] = "dropped" => ~text[m] /\ images[m].got = 0

\* The tables of reactions are bounded, and a reaction is answered only if it
\* is to something the bot has said (React, _track_bot_message).
TablesAreBounded ==
    /\ Cardinality(DOMAIN handled) <= MaxHandled
    /\ \A a \in DOMAIN sent \cup DOMAIN handled : card[a].sent \/ said[a] # {}

\* What the code promises of the answers.
AnswersReachUsers ==
    /\ TypeOK /\ AnswerIsSeen /\ EveryEndIsTold /\ CardFollowsRun
    /\ NothingSaidIsDropped /\ TablesAreBounded
=============================================================================

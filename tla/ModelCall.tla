----------------------------- MODULE ModelCall -----------------------------
(***************************************************************************)
(* The model calls of one run (llm.py, runtime_util.py, runner.py) and     *)
(* what an OpenAI client is told of them (openai_compat.py).               *)
(*                                                                         *)
(* A call is an asynchronous generator inside two others: LLMClient.stream *)
(* asks the provider and reads it under the idle timeout, the runner reads *)
(* that stream under the deadline of the run.  Each of the two waits for   *)
(* the task that fetches the next item, for the abort event and for its    *)
(* timer.  When it resumes, a finished task goes first, then the abort,    *)
(* then the timer; a task that is not finished is cancelled, and what it   *)
(* would have brought is dropped.  The idle timeout only covers reading:   *)
(* while the provider has not answered the request, the deadline is the    *)
(* only limit.                                                             *)
(*                                                                         *)
(* The text of the run is counted in chunks: `shown' were yielded to the   *)
(* user, `text' belong to the call in hand, `kept' are in the history.     *)
(* Tools and compaction are one step here (see ToolTurn, SessionHistory).  *)
(***************************************************************************)
EXTENDS Naturals, Sequences, FiniteSets, SequencesExt

CONSTANTS
    Model, Provider, Nobody,   \* Nobody: no provider
    Providers,        \* the providers in the order of the configuration
    Declares,         \* [Provider -> SUBSET Model]: models
    Sees,             \* [Provider -> SUBSET Model]: those that take images
    Prefixed,         \* [Provider -> SUBSET Model]: those one of its prefixes fits
    FirstSegment,     \* [Model -> Provider \cup {Nobody}]
    UnknownPrefix,    \* unknown_prefix_policy
    DefaultProvider,
    Client,           \* "sse" or "json": how the answer is asked for
    Timers,           \* the timeouts that are configured: "idle", "run"
    MaxIterations, RetryLimit,
    MaxSent,          \* bound: chunks the provider sends in a run
    MaxFaults         \* bound: appends that fail

CallAssumption ==
    /\ Providers \in Seq(Provider) /\ Nobody \notin Provider
    /\ UnknownPrefix \in {"fail", "default"} /\ DefaultProvider \in Provider \cup {Nobody}
    /\ Client \in {"sse", "json"} /\ Timers \subseteq {"idle", "run"}
    /\ {MaxIterations, RetryLimit, MaxSent, MaxFaults} \subseteq Nat

VARIABLES
    request,     \* the model, and whether an image is attached, in the history
    pc,          \* where the run is
    iteration,
    retries,     \* retry_counts
    upstream,    \* what the innermost task has fetched from the provider
    task,        \* what the task that runs the stream has come to
    idle, late,  \* the idle timer of this wait, the deadline have passed
    aborted,     \* the abort event
    text, calls, \* of the call in hand: chunks of text, slots of tool calls
    sent, shown, kept,
    told,        \* the last event: "done", an error code, or "" if there is none
    faults

provider == <<upstream, sent>>
timers == <<idle, late>>
vars == <<request, pc, iteration, retries, provider, task, timers, aborted, text, calls, shown,
          kept, told, faults>>

Nothing == [kind |-> "nothing"]
Text == [kind |-> "text"]
Silent == [kind |-> "silent"]          \* a chunk without choices and usage
Delta(slot) == [kind |-> "delta", slot |-> slot]
End == [kind |-> "end"]
Broken == [kind |-> "broken"]          \* an error while the answer is read
LLMError(code) == [kind |-> "error", code |-> code]

Slots == 0 .. 1
Refusals == {"context_overflow", "rate_limit", "auth_error", "timeout", "unknown"}
Chunks == {Text, Silent} \cup {Delta(i) : i \in Slots}
Classes == {"planning", "reasoning", "empty"}
Codes == Refusals \cup {"done", "aborted", "provider_not_found", "vision_not_support",
                        "max_iterations", "compaction_failed"}

(***************************************************************************)
(* The provider of a model                                                 *)
(***************************************************************************)
\* resolve_provider_for_model: a declared id before a prefix before the
\* first segment; a single provider takes everything.
Resolve(model, policy) ==
    LET declaring == SelectInSeq(Providers, LAMBDA p : model \in Declares[p])
        prefixing == SelectInSeq(Providers, LAMBDA p : model \in Prefixed[p])
    IN  IF declaring # 0 THEN Providers[declaring]
        ELSE IF prefixing # 0 THEN Providers[prefixing]
        ELSE IF FirstSegment[model] \in Range(Providers) THEN FirstSegment[model]
        ELSE IF Len(Providers) = 1 THEN Providers[1]
        ELSE IF policy = "default" /\ DefaultProvider \in Range(Providers) THEN DefaultProvider
        ELSE Nobody

\* model_supports_input
SeesImages(model, policy) == model \in Sees[Resolve(model, policy)]

\* What LLMClient.stream raises before it asks the provider.
Objection ==
    IF Providers = <<>> THEN Nothing
    ELSE IF Resolve(request.model, UnknownPrefix) = Nobody THEN LLMError("provider_not_found")
    ELSE IF request.images /\ ~SeesImages(request.model, UnknownPrefix)
         THEN LLMError("vision_not_support")
    ELSE Nothing

Init ==
    /\ request \in {r \in [model : Model, attached : BOOLEAN, images : BOOLEAN] :
                      r.attached => r.images}
    /\ pc = "start" /\ iteration = 0 /\ retries = [c \in Classes |-> 0]
    /\ upstream = Nothing /\ task = Nothing
    /\ idle = FALSE /\ late = FALSE /\ aborted = FALSE
    /\ text = 0 /\ calls = {} /\ sent = 0 /\ shown = 0 /\ kept = 0
    /\ told = "" /\ faults = 0

(***************************************************************************)
(* The end of the run                                                      *)
(***************************************************************************)
Finish(event) ==
    /\ pc' = "ended" /\ told' = event
    /\ upstream' = Nothing /\ task' = Nothing
    /\ UNCHANGED <<request, iteration, retries, timers, aborted, text, calls, sent, shown>>

\* An error event and the end.
Fail(event) == Finish(event) /\ UNCHANGED <<kept, faults>>

\* An exception leaves the generator: nothing is told.
Raise == Fail("")

StorageFails == faults < MaxFaults /\ faults' = faults + 1 /\ kept' = kept

\* Mutant: an error in the middle of a call does not keep the text.
StopCallBare(event) ==
    /\ Finish(event)
    /\ UNCHANGED <<kept, faults>>

\* The end in the middle of a call: the text that was streamed is kept, if
\* the storage takes it.
StopCall(event) ==
    /\ Finish(event)
    /\ \/ kept' = kept + text /\ faults' = faults
       \/ text > 0 /\ StorageFails

(***************************************************************************)
(* The loop                                                                *)
(***************************************************************************)
\* The check of attachments, which knows only the policy "fail".
Start ==
    /\ pc = "start"
    /\ IF request.attached /\ Providers # <<>>
       THEN \/ /\ Resolve(request.model, "fail") = Nobody
               /\ Raise
            \/ /\ Resolve(request.model, "fail") # Nobody
               /\ IF SeesImages(request.model, "fail")
                  THEN pc' = "head" /\ UNCHANGED <<request, iteration, retries, provider, task,
                           timers, aborted, text, calls, shown, kept, told, faults>>
                  ELSE Fail("vision_not_support")
       ELSE pc' = "head" /\ UNCHANGED <<request, iteration, retries, provider, task, timers,
                aborted, text, calls, shown, kept, told, faults>>

\* One iteration: the history fits or is compacted, then the call begins.
Iterate ==
    /\ pc = "head" /\ iteration < MaxIterations
    /\ IF late THEN Fail("timeout")
       ELSE IF aborted THEN Fail("aborted")
       ELSE \/ Fail("compaction_failed")
            \/ \E fits \in BOOLEAN :
                 /\ iteration' = iteration + 1
                 /\ pc' = IF fits THEN "opening" ELSE "head"
                 /\ task' = IF fits THEN Objection ELSE Nothing
                 /\ text' = 0 /\ calls' = {} /\ idle' = FALSE
                 /\ UNCHANGED <<request, retries, provider, late, aborted, shown, kept, told,
                                faults>>

OutOfIterations == pc = "head" /\ iteration = MaxIterations /\ Fail("max_iterations")

(***************************************************************************)
(* The provider, the clock and the user                                    *)
(***************************************************************************)
quiet == <<request, iteration, retries, aborted, text, calls, shown, kept, told, faults>>

Open ==
    /\ pc = "opening" /\ task = Nothing
    /\ pc' = "reading"
    /\ UNCHANGED <<quiet, provider, task, timers>>

Refuse(code) ==
    /\ pc = "opening" /\ task = Nothing
    /\ task' = LLMError(code)
    /\ UNCHANGED <<quiet, pc, provider, timers>>

Send(item) ==
    /\ pc = "reading" /\ task = Nothing /\ upstream = Nothing
    /\ item \in Chunks => sent < MaxSent
    /\ upstream' = item
    /\ sent' = IF item \in Chunks THEN sent + 1 ELSE sent
    /\ UNCHANGED <<quiet, pc, task, timers>>

\* _convert_chunk makes nothing of the chunk: the same task reads on, and
\* the idle timer runs on.
SkipSilent ==
    /\ pc = "reading" /\ upstream = Silent
    /\ upstream' = Nothing
    /\ UNCHANGED <<quiet, pc, sent, task, timers>>

IdlePasses ==
    /\ "idle" \in Timers /\ pc = "reading" /\ task = Nothing /\ ~idle
    /\ idle' = TRUE
    /\ UNCHANGED <<quiet, pc, provider, task, late>>

\* Mutant: the deadline is watched only while the answer is read.
DeadlineWhenReading ==
    /\ "run" \in Timers /\ pc = "reading" /\ ~late
    /\ late' = TRUE
    /\ UNCHANGED <<quiet, pc, provider, task, idle>>

DeadlinePasses ==
    /\ "run" \in Timers /\ pc # "ended" /\ ~late
    /\ late' = TRUE
    /\ UNCHANGED <<quiet, pc, provider, task, idle>>

Abort ==
    /\ pc # "ended" /\ ~aborted
    /\ aborted' = TRUE
    /\ UNCHANGED <<request, pc, iteration, retries, provider, task, timers, text, calls, shown,
                   kept, told, faults>>

\* The client goes: the request, and with it the run, is cancelled.
Disconnect == pc # "ended" /\ Raise

(***************************************************************************)
(* The two waits                                                           *)
(***************************************************************************)
\* What a wait takes: the task if it has finished, else the abort, else the
\* timer, else it goes on waiting.
Outcome(item, timer) ==
    IF item # Nothing THEN "item"
    ELSE IF aborted THEN "abort"
    ELSE IF timer THEN "timer"
    ELSE "wait"

\* iterate_with_idle_timeout resumes in LLMClient.stream.
StreamResumes ==
    /\ pc = "reading" /\ task = Nothing /\ upstream # Silent
    /\ Outcome(upstream, idle) # "wait"
    /\ task' = CASE Outcome(upstream, idle) = "item" -> upstream
                 [] Outcome(upstream, idle) = "abort" -> LLMError("aborted")
                 [] Outcome(upstream, idle) = "timer" -> LLMError("timeout")
    /\ upstream' = Nothing
    /\ idle' = (Outcome(upstream, idle) = "timer")
    /\ UNCHANGED <<quiet, pc, sent, late>>

\* merge_tool_call_deltas: a delta goes into its slot, which is made if missing.
Merged(slots, delta) == slots \cup {delta.slot}

\* A chunk: the runner looks at the clock and at the abort before it shows it.
TakeChunk ==
    IF late THEN StopCall("timeout")
    ELSE IF aborted THEN StopCall("aborted")
    ELSE /\ task' = Nothing
         /\ IF task = Text THEN shown' = shown + 1 /\ text' = text + 1 /\ calls' = calls
            ELSE calls' = Merged(calls, task) /\ UNCHANGED <<shown, text>>
         /\ UNCHANGED <<request, pc, iteration, retries, provider, timers, aborted, kept, told,
                        faults>>

\* The call is over: its text is kept, whatever becomes of it.
Answered(class) ==
    LET again == class \in Classes /\ retries[class] < RetryLimit
    IN  \/ StorageFails /\ Finish("")
        \/ /\ kept' = kept + text /\ faults' = faults
           /\ IF calls = {} /\ ~again THEN Finish("done")
              ELSE /\ pc' = "head" /\ task' = Nothing
                   /\ retries' = IF calls # {} THEN [c \in Classes |-> 0]
                                 ELSE [retries EXCEPT ![class] = @ + 1]
                   /\ UNCHANGED <<request, iteration, provider, timers, aborted, text, calls,
                                  shown, told>>

\* classify_turn: without text the answer is empty, otherwise it depends on
\* the text.
ClassesOf(n) == IF calls # {} THEN {"ok"}
                ELSE IF n = 0 THEN {"empty"}
                ELSE {"ok", "planning", "reasoning", "empty"}

\* An LLMError: an overflow is compacted away if possible.
TakeError ==
    \/ /\ task.code = "context_overflow"
       /\ \/ StopCall("compaction_failed")
          \/ /\ pc' = "head" /\ task' = Nothing
             /\ UNCHANGED <<request, iteration, retries, provider, timers, aborted, text, calls,
                            shown, kept, told, faults>>
    \/ StopCall(task.code)

\* iterate_with_deadline resumes in the runner.
RunResumes ==
    /\ pc \in {"opening", "reading"}
    /\ CASE Outcome(task, late) = "item" ->
              \/ task.kind \in {"text", "delta"} /\ TakeChunk
              \/ task = End /\ \E class \in ClassesOf(text) : Answered(class)
              \/ task.kind = "error" /\ TakeError
              \/ task = Broken /\ Raise
         [] Outcome(task, late) = "abort" -> StopCall("aborted")
         [] Outcome(task, late) = "timer" -> StopCall("timeout")
         [] OTHER -> FALSE

\* The steps of the runner itself.
Run == Start \/ Iterate \/ OutOfIterations \/ RunResumes

Next ==
    \/ Run \/ StreamResumes
    \/ Open \/ SkipSilent \/ IdlePasses \/ DeadlinePasses \/ Abort \/ Disconnect
    \/ \E code \in Refusals : Refuse(code)
    \/ \E item \in Chunks \cup {End, Broken} : Send(item)

Spec == Init /\ [][Next]_vars

\* The event loop runs what is ready and the clock goes on; nothing is
\* assumed of the provider.
FairSpec == Spec /\ WF_vars(Run) /\ WF_vars(StreamResumes) /\ WF_vars(DeadlinePasses)

(***************************************************************************)
(* The OpenAI-compatible endpoint                                          *)
(***************************************************************************)
\* _stream_sse sends finish_reason for Done only; any other end is a bare
\* [DONE], and an exception breaks the response off.
SseReply == CASE told = "done" -> "stop" [] told = "" -> "broken" [] OTHER -> "cut"

\* _complete_response calls every run that raises nothing finished.
JsonReply == IF told = "" THEN "broken" ELSE "stop"

Reply == IF Client = "sse" THEN SseReply ELSE JsonReply

-----------------------------------------------------------------------------
(***************************************************************************)
(* Properties                                                              *)
(***************************************************************************)
TypeOK ==
    /\ request \in [model : Model, attached : BOOLEAN, images : BOOLEAN]
    /\ pc \in {"start", "head", "opening", "reading", "ended"}
    /\ iteration \in 0 .. MaxIterations /\ retries \in [Classes -> 0 .. RetryLimit]
    /\ upstream \in Chunks \cup {Nothing, End, Broken}
    /\ task \in Chunks \cup {Nothing, End, Broken} \cup {LLMError(c) : c \in Codes}
    /\ {idle, late, aborted} \subseteq BOOLEAN
    /\ calls \subseteq Slots /\ told \in Codes \cup {""}
    /\ {text, sent, shown, kept} \subseteq 0 .. MaxSent /\ faults \in 0 .. MaxFaults

\* A run that tells its end has kept in the history exactly the text it has
\* shown, however abort, timers, chunks and errors met, unless the storage
\* refused it (_persist_partial_assistant and the appends of the runner).
KeptIsShown ==
    pc = "ended" /\ told # "" /\ faults = 0 => kept = shown

\* The event that ends a run tells the truth: aborted was asked for, a
\* timeout is one of a clock or of the provider, an empty answer is final
\* only after its retries, and an SSE client reads "stop" after Done only.
EndTellsCause ==
    pc = "ended" =>
        /\ told = "aborted" => aborted
        /\ told = "max_iterations" => iteration = MaxIterations
        /\ told = "done" /\ text = 0 => retries["empty"] = RetryLimit
        /\ Client = "sse" /\ Reply = "stop" => told = "done"

\* A provider that never answers, or stops in the middle, cannot hold the
\* run: it ends by the deadline that iterate_with_deadline watches.
RunEnds == <>(pc = "ended")

\* What a run shows, keeps and tells of its end agree (run_agent_stream).
RunsTellTheTruth ==
    /\ TypeOK /\ KeptIsShown /\ EndTellsCause
=============================================================================

-------------------------- MODULE WebSession_proofs --------------------------
(***************************************************************************)
(* Theorems about WebSession, for any messages, steers, caps and bounds.   *)
(***************************************************************************)
EXTENDS WebSession, FiniteSetTheorems, TLAPS

(***************************************************************************)
(* What a step does                                                        *)
(***************************************************************************)
\* The run's steps that change nothing but the stage, or what only they read.
Proceed ==
    /\ stage \in Running
    /\ \E next \in Running : Unchanged(next)

\* A run's end: reported, reported aborted, not reported, or cut off.
EndRun ==
    /\ stage \in Running
    /\ \/ Report("answered") \/ Report("error")
       \/ rc.abort /\ (Report("aborted") \/ SkipReport)
       \/ Abandon

StepEffect ==
    \/ Wait \/ Take \/ Expire \/ Exit
    \/ RunCommand \/ StartRun \/ Close
    \/ Proceed \/ EndRun
    \/ stage = "check" /\ Iterate
    \/ stage = "assemble" /\ CallModel
    \/ Stop \/ Abort
    \/ \E m \in Message : Enqueue(m) \/ CloseAbandoned(m) \/ Disconnect(m)
    \/ \E s \in Steer : Steering(s)

LEMMA StepCases == Next => StepEffect
<1> SUFFICES ASSUME Next PROVE StepEffect
  OBVIOUS
<1>1. CASE SetUp
  BY <1>1 DEF SetUp, ReportError, StepEffect, Proceed, EndRun, Running
<1>2. CASE LoopHead
  BY <1>2 DEF LoopHead, ReportAbort, ReportError, StepEffect, EndRun, Running
<1>3. CASE Assemble
  BY <1>3 DEF Assemble, ReportAbort, ReportError, StepEffect, Proceed, EndRun, Running
<1>4. CASE Stream
  <2>1. CASE \E next \in {"final", "tools", "check"} : Unchanged(next)
    BY <1>4, <2>1 DEF Stream, StepEffect, Proceed, Running
  <2>2. CASE ReportAbort \/ ReportError \/ Abandon
    BY <1>4, <2>2 DEF Stream, ReportAbort, ReportError, StepEffect, EndRun, Running
  <2> QED
    BY <1>4, <2>1, <2>2 DEF Stream
<1>5. CASE UseTools
  BY <1>5 DEF UseTools, ReportError, StepEffect, Proceed, EndRun, Running
<1>6. CASE Conclude
  BY <1>6 DEF Conclude, ReportError, StepEffect, EndRun, Running
<1>7. CASE RunCommand \/ StartRun \/ Close \/ Consumer \/ Expire \/ Stop \/ Abort
  BY <1>7 DEF Consumer, StepEffect
<1>8. CASE \E m \in Message : Enqueue(m) \/ CloseAbandoned(m) \/ Disconnect(m)
  BY <1>8 DEF StepEffect
<1>9. CASE \E s \in Steer : Steering(s)
  BY <1>9 DEF StepEffect
<1> QED
  BY <1>1, <1>2, <1>3, <1>4, <1>5, <1>6, <1>7, <1>8, <1>9 DEF Next, Handler

(***************************************************************************)
(* The steering buffer                                                     *)
(***************************************************************************)
LEMMA UpToCardinality ==
  ASSUME NEW k \in Nat
  PROVE  IsFiniteSet(1 .. k) /\ Cardinality(1 .. k) = k
BY FS_Interval

LEMMA SubsetOfFinite ==
  ASSUME NEW S, IsFiniteSet(S), NEW T \in SUBSET S
  PROVE  IsFiniteSet(T) /\ Cardinality(T) <= Cardinality(S)
BY FS_Subset

\* Trimming keeps an end of the buffer that leaves a place under the cap.
LEMMA RoomForEnd ==
  ASSUME NEW s \in Steer, NEW buffer \in Seq(Steer)
  PROVE  \E n \in 0 .. Len(buffer) :
            /\ n < CapCount
            /\ RoomFor(s, buffer) = Last(buffer, n)
<1> DEFINE fitting == {n \in 1 .. Len(buffer) :
                         /\ n < CapCount
                         /\ Length(Last(buffer, n)) + Size[s] <= CapChars}
<1>0. Len(buffer) \in Nat /\ CapCount - 1 \in Nat
  BY WebSessionAssumption
<1>1. /\ IsFiniteSet(1 .. Len(buffer))
      /\ Cardinality(1 .. Len(buffer)) = Len(buffer)
  <2>1. \A k \in Nat : IsFiniteSet(1 .. k) /\ Cardinality(1 .. k) = k
    BY UpToCardinality
  <2> QED
    BY <1>0, <2>1
<1>2. /\ IsFiniteSet(1 .. CapCount - 1)
      /\ Cardinality(1 .. CapCount - 1) = CapCount - 1
  <2>1. \A k \in Nat : IsFiniteSet(1 .. k) /\ Cardinality(1 .. k) = k
    BY UpToCardinality
  <2> QED
    BY <1>0, <2>1
<1>3. /\ fitting \in SUBSET (1 .. Len(buffer))
      /\ fitting \in SUBSET (1 .. CapCount - 1)
  BY WebSessionAssumption
<1>4. /\ IsFiniteSet(fitting)
      /\ Cardinality(fitting) <= Len(buffer)
      /\ Cardinality(fitting) <= CapCount - 1
  <2> HIDE DEF fitting
  <2>1. IsFiniteSet(fitting) /\ Cardinality(fitting) <= Cardinality(1 .. Len(buffer))
    BY <1>1, <1>3, SubsetOfFinite
  <2>2. Cardinality(fitting) <= Cardinality(1 .. CapCount - 1)
    BY <1>2, <1>3, SubsetOfFinite
  <2> QED BY <1>1, <1>2, <2>1, <2>2
<1>5. Cardinality(fitting) \in Nat
  BY <1>4, FS_CardinalityType
<1>6. RoomFor(s, buffer) = Last(buffer, Cardinality(fitting))
  BY DEF RoomFor
<1>7. Cardinality(fitting) \in 0 .. Len(buffer) /\ Cardinality(fitting) < CapCount
  <2> DEFINE c == Cardinality(fitting)
  <2>1. c \in Nat /\ c <= Len(buffer) /\ c <= CapCount - 1
    BY <1>4, <1>5
  <2> HIDE DEF c
  <2>2. c \in 0 .. Len(buffer) /\ c < CapCount
    BY <1>0, <2>1, WebSessionAssumption
  <2> QED BY <2>2 DEF c
<1> QED
  BY <1>6, <1>7

LEMMA LastType ==
  ASSUME NEW buffer \in Seq(Steer), NEW n \in 0 .. Len(buffer)
  PROVE  /\ Last(buffer, n) \in Seq(Steer)
         /\ Len(Last(buffer, n)) = n
         /\ Range(Last(buffer, n)) \subseteq Range(buffer)
<1> DEFINE t == SubSeq(buffer, Len(buffer) - n + 1, Len(buffer))
<1>1. t \in Seq(Steer) /\ Len(t) = n
  OBVIOUS
<1>2. \A i \in 1 .. n : t[i] = buffer[Len(buffer) - n + i]
  OBVIOUS
<1>3. \A i \in 1 .. n : Len(buffer) - n + i \in 1 .. Len(buffer)
  OBVIOUS
<1>4. Range(t) \subseteq Range(buffer)
  BY <1>1, <1>2, <1>3 DEF Range
<1> QED
  BY <1>1, <1>4 DEF Last

\* What /steer leaves in the buffer.
LEMMA SteeringBuffer ==
  ASSUME NEW s \in Steer, NEW buffer \in Seq(Steer)
  PROVE  /\ Append(RoomFor(s, buffer), s) \in Seq(Steer)
         /\ Len(Append(RoomFor(s, buffer), s)) <= CapCount
         /\ Range(Append(RoomFor(s, buffer), s)) \subseteq Range(buffer) \cup {s}
<1>1. PICK n \in 0 .. Len(buffer) :
         n < CapCount /\ RoomFor(s, buffer) = Last(buffer, n)
  BY RoomForEnd
<1> DEFINE kept == RoomFor(s, buffer)
<1>2. /\ kept \in Seq(Steer)
      /\ Len(kept) = n
      /\ Range(kept) \subseteq Range(buffer)
  BY <1>1, LastType
<1> HIDE DEF kept
<1>3. Append(kept, s) \in Seq(Steer) /\ Len(Append(kept, s)) = n + 1
  BY <1>2
<1>4. \A i \in 1 .. n + 1 : Append(kept, s)[i] = IF i = n + 1 THEN s ELSE kept[i]
  BY <1>2
<1>5. Range(Append(kept, s)) \subseteq Range(kept) \cup {s}
  BY <1>2, <1>3, <1>4 DEF Range
<1> QED
  BY <1>1, <1>2, <1>3, <1>5, WebSessionAssumption DEF kept

(***************************************************************************)
(* Types                                                                   *)
(***************************************************************************)
TypeInv == TypeOK /\ Len(rc.pending) <= CapCount

Control == [active : BOOLEAN, abort : BOOLEAN, external : BOOLEAN,
            pending : Seq(Steer)]

\* The updates of the RunControl that the steps make.
LEMMA ControlTypes ==
  ASSUME NEW c \in Control
  PROVE  /\ NewControl \in Control
         /\ [c EXCEPT !.active = FALSE] \in Control
         /\ [c EXCEPT !.abort = FALSE] \in Control
         /\ [c EXCEPT !.abort = TRUE] \in Control
         /\ [c EXCEPT !.external = FALSE] \in Control
         /\ \A p \in Seq(Steer) : [c EXCEPT !.pending = p] \in Control
         /\ [c EXCEPT !.active = TRUE, !.pending = <<>>] \in Control
         /\ [c EXCEPT !.external = TRUE, !.abort = TRUE, !.pending = <<>>] \in Control
<1>1. <<>> \in Seq(Steer)
  OBVIOUS
<1> QED
  BY <1>1 DEF Control, NewControl

\* An answer counted, for whatever is in hand.
LEMMA AnswerType ==
  ASSUME answers \in [Message -> Nat], Answer
  PROVE  answers' \in [Message -> Nat]
<1>1. answers' = [answers EXCEPT ![current] = answers[current] + 1]
  BY DEF Answer
<1>2. \A m \in Message : (IF m = current THEN answers[current] + 1 ELSE answers[m]) \in Nat
  OBVIOUS
<1>3. answers' = [m \in Message |-> IF m = current THEN answers[current] + 1 ELSE answers[m]]
  BY <1>1
<1> QED
  BY <1>2, <1>3

LEMMA RecordType ==
  ASSUME outcome \in [Message -> Outcomes], NEW r \in Results, Record(r)
  PROVE  outcome' \in [Message -> Outcomes]
BY DEF Record, Outcomes

LEMMA TypeInit == Init => TypeInv
<1> SUFFICES ASSUME Init PROVE TypeInv
  OBVIOUS
<1>1. queue \in Seq(Message) /\ rc.pending = <<>> /\ Len(rc.pending) <= CapCount
  BY WebSessionAssumption DEF Init, NewControl
<1>2. rc \in Control
  <2>1. NewControl \in Control
    BY DEF NewControl, Control
  <2> QED
    BY <2>1 DEF Init
<1>3. 0 \in 0 .. MaxIterations /\ NoMessage \notin Message
  BY WebSessionAssumption
<1>4. outcome \in [Message -> Outcomes] /\ answers \in [Message -> Nat]
  BY DEF Init, Outcomes
<1> QED
  BY <1>1, <1>2, <1>3, <1>4
     DEF Init, TypeInv, TypeOK, Control, Consumers, Stages

LEMMA TypeStep == TypeInv /\ StepEffect => TypeInv'
<1> SUFFICES ASSUME TypeInv, StepEffect PROVE TypeInv'
  OBVIOUS
<1>0. /\ TypeOK
      /\ rc \in Control
      /\ Len(rc.pending) <= CapCount
      /\ CapCount \in Nat \ {0}
      /\ MaxIterations \in Nat
      /\ NoMessage \notin Message
  BY WebSessionAssumption DEF TypeInv, TypeOK, Control
<1> USE <1>0 DEF TypeInv
<1>1. CASE Wait \/ Expire
  BY <1>1 DEF Wait, Expire, TypeOK, run, client, steers, Consumers
<1>2. CASE Take
  <2>1. Head(queue) \in Message /\ Tail(queue) \in Seq(Message)
    BY <1>2 DEF Take, TypeOK
  <2>2. rc' \in Control /\ rc'.pending = rc.pending
    BY <1>2, ControlTypes DEF Take, Control
  <2> QED
    BY <1>2, <2>1, <2>2 DEF Take, TypeOK, Control, client, steers, Consumers, Stages
<1>3. CASE Exit
  <2>1. rc' \in Control /\ rc'.pending = <<>>
    BY <1>3, ControlTypes DEF Exit, NewControl
  <2>3. queue' \in Seq(Message) /\ Len(rc'.pending) <= CapCount
    BY <1>3, <2>1 DEF Exit
  <2>2. outcome' \in [Message -> Outcomes]
    BY <1>3 DEF Exit, TypeOK, Outcomes
  <2> QED
    BY <1>3, <2>1, <2>2, <2>3 DEF Exit, TypeOK, Control, run, steers, Consumers
<1>4. CASE RunCommand
  <2>1. answers' \in [Message -> Nat]
    BY <1>4, AnswerType DEF RunCommand, TypeOK
  <2>2. outcome' \in [Message -> Outcomes]
    BY <1>4, RecordType DEF RunCommand, TypeOK, Results
  <2> QED
    BY <1>4, <2>1, <2>2 DEF RunCommand, Return, TypeOK, steers, Consumers, Stages
<1>5. CASE StartRun
  <2>1. rc' \in Control /\ rc'.pending = <<>>
    BY <1>5, ControlTypes DEF StartRun, Control
  <2> QED
    BY <1>5, <2>1 DEF StartRun, Goto, TypeOK, Control, sessionQueue, client, steers,
                      Stages, Running
<1>6. CASE Close
  <2>1. rc' \in Control /\ rc'.pending = rc.pending
    BY <1>6, ControlTypes DEF Close, Control
  <2>2. 0 \in 0 .. MaxIterations /\ "idle" \in Stages /\ "ready" \in Consumers
    BY DEF Stages, Consumers
  <2>3. UNCHANGED <<queue, abandoned, gone, outcome, answers, acceptedIn, seenIn,
                    interrupted>>
    BY <1>6 DEF Close, client, steers
  <2>4. /\ hooked' = FALSE /\ current' = NoMessage /\ stage' = "idle"
        /\ consumer' = "ready" /\ iteration' = 0 /\ drained' = {}
    BY <1>6 DEF Close, Return
  <2> QED
    BY <2>1, <2>2, <2>3, <2>4 DEF TypeOK, Control
<1>7. CASE Proceed
  BY <1>7 DEF Proceed, Unchanged, Goto, TypeOK, sessionQueue, client, steers, Stages,
              Running
<1>8. CASE EndRun
  <2>1. outcome' \in [Message -> Outcomes] /\ answers' \in [Message -> Nat]
    <3>1. \E r \in Results : Record(r)
      BY <1>8 DEF EndRun, Report, SkipReport, Abandon, Results
    <3>2. Answer \/ UNCHANGED answers
      BY <1>8 DEF EndRun, Report, SkipReport, Abandon
    <3> QED
      BY <3>1, <3>2, RecordType, AnswerType DEF TypeOK
  <2>2. rc' \in Control /\ rc'.pending = rc.pending
    <3>1. \/ rc' = rc
          \/ rc' = [rc EXCEPT !.active = FALSE]
          \/ rc' = [rc EXCEPT !.external = FALSE]
      BY <1>8 DEF EndRun, Report, SkipReport, Abandon
    <3>2. rc' \in Control
      BY <3>1, ControlTypes
    <3> QED
      BY <3>1, <3>2 DEF Control
  <2>3. current \in Message
    BY <1>8 DEF EndRun, Running, TypeOK
  <2>4. CASE stage' = "ending" /\ UNCHANGED <<sessionQueue, current, iteration, drained,
                                               hooked, abandoned, gone, steers, interrupted>>
    BY <1>8, <2>1, <2>2, <2>4 DEF EndRun, Running, TypeOK, Control, sessionQueue, steers,
                                  Stages
  <2>5. CASE Abandon
    BY <2>1, <2>2, <2>3, <2>5 DEF Abandon, Return, TypeOK, Control, steers, Stages,
                                  Consumers
  <2> QED
    BY <1>8, <2>4, <2>5 DEF EndRun, Report, SkipReport
<1>9. CASE stage = "check" /\ Iterate
  <2>0. rc.pending \in Seq(Steer) /\ <<>> \in Seq(Steer)
    BY DEF Control
  <2>1. /\ rc' \in Control
        /\ rc'.pending = rc.pending \/ rc'.pending = <<>>
    <3>1. rc' = rc \/ rc' = [rc EXCEPT !.pending = <<>>]
      BY <1>9 DEF Iterate
    <3>2. rc' \in Control
      BY <2>0, <3>1, ControlTypes
    <3> QED
      BY <3>1, <3>2 DEF Control
  <2>2. Len(rc'.pending) <= CapCount
    BY <2>1
  <2>4. drained' \subseteq Steer
    <3>1. Range(rc.pending) \subseteq Steer
      BY <2>0 DEF Range
    <3> QED
      BY <1>9, <3>1 DEF Iterate
  <2>3. iteration' \in 0 .. MaxIterations
    BY <1>9 DEF Iterate, TypeOK
  <2> QED
    BY <1>9, <2>1, <2>2, <2>3, <2>4 DEF Iterate, Goto, TypeOK, Control, sessionQueue, client,
                                  steers, Stages, Running
<1>10. CASE stage = "assemble" /\ CallModel
  <2>1. seenIn' \in [Steer -> Message \cup {NoMessage}]
    BY <1>10 DEF CallModel, TypeOK
  <2> QED
    BY <1>10, <2>1 DEF CallModel, Goto, TypeOK, sessionQueue, client, Stages, Running
<1>11. CASE Stop
  <2>1. rc' \in Control /\ rc'.pending = <<>>
    BY <1>11, ControlTypes DEF Stop, Control
  <2>2. answers' \in [Message -> Nat]
    BY <1>11, AnswerType DEF Stop, TypeOK
  <2> QED
    BY <1>11, <2>1, <2>2 DEF Stop, Interrupt, TypeOK, Control, sessionQueue, run, steers
<1>12. CASE Abort
  <2>1. rc' \in Control /\ rc'.pending = rc.pending
    BY <1>12, ControlTypes DEF Abort, Control
  <2> QED
    BY <1>12, <2>1 DEF Abort, Interrupt, TypeOK, Control, sessionQueue, run, client, steers
<1>13. CASE \E m \in Message : Enqueue(m)
  <2>1. PICK m \in Message : Enqueue(m)
    BY <1>13
  <2>2. queue' \in Seq(Message)
    BY <2>1 DEF Enqueue, TypeOK
  <2>3. outcome' \in [Message -> Outcomes]
    BY <2>1 DEF Enqueue, TypeOK, Outcomes
  <2> QED
    BY <2>1, <2>2, <2>3 DEF Enqueue, TypeOK, run, steers, Consumers
<1>14. CASE \E m \in Message : CloseAbandoned(m) \/ Disconnect(m)
  BY <1>14 DEF CloseAbandoned, Disconnect, TypeOK, sessionQueue, run, client, steers
<1>15. CASE \E s \in Steer : Steering(s)
  <2>1. PICK s \in Steer : Steering(s)
    BY <1>15
  <2>2. rc.pending \in Seq(Steer)
    BY DEF Control
  <2> DEFINE pending == Append(RoomFor(s, rc.pending), s)
  <2>3. pending \in Seq(Steer) /\ Len(pending) <= CapCount
    BY <2>2, SteeringBuffer
  <2>4. rc' = [rc EXCEPT !.pending = pending]
    BY <2>1 DEF Steering
  <2> HIDE DEF pending
  <2>5. rc' \in Control /\ rc'.pending = pending
    BY <2>3, <2>4, ControlTypes DEF Control
  <2>6. acceptedIn' \in [Steer -> Message \cup {NoMessage}]
    BY <2>1 DEF Steering, TypeOK
  <2> QED
    BY <2>1, <2>3, <2>5, <2>6 DEF Steering, TypeOK, Control, sessionQueue, run, client
<1> QED
  BY <1>1, <1>2, <1>3, <1>4, <1>5, <1>6, <1>7, <1>8, <1>9, <1>10, <1>11, <1>12, <1>13,
     <1>14, <1>15 DEF StepEffect

LEMMA TypeStutter == TypeInv /\ UNCHANGED vars => TypeInv'
BY DEF TypeInv, TypeOK, vars, sessionQueue, run, client, steers

LEMMA TypeInvariant == Spec => []TypeInv
<1>1. TypeInv /\ [Next]_vars => TypeInv'
  BY TypeStep, TypeStutter, StepCases
<1> QED
  BY <1>1, TypeInit, PTL DEF Spec

\* Every variable keeps its type, and the stage, the message in hand and the
\* consumer always tell the same story.
THEOREM TypeCorrect == Spec => []TypeOK
<1>1. TypeInv => TypeOK
  BY DEF TypeInv
<1> QED
  BY <1>1, TypeInvariant, PTL

(***************************************************************************)
(* Aborts                                                                  *)
(***************************************************************************)
\* An abort event that is set while a message is in hand was set for it.
AbortInv ==
    /\ AbortHasCause
    /\ rc.abort /\ current # NoMessage => current \in interrupted

LEMMA AbortStep == TypeInv /\ AbortInv /\ StepEffect => AbortInv'
<1> SUFFICES ASSUME TypeInv, AbortInv, StepEffect PROVE AbortInv'
  OBVIOUS
<1>0. /\ rc \in Control
      /\ outcome \in [Message -> Outcomes]
      /\ current \in Message \cup {NoMessage}
      /\ stage \in Running => current \in Message
      /\ AbortHasCause
      /\ rc.abort /\ current # NoMessage => current \in interrupted
  BY DEF TypeInv, TypeOK, Control, AbortInv, Running
<1> USE <1>0 DEF AbortInv, AbortHasCause, Control
<1>1. CASE Wait \/ Expire \/ Proceed
  BY <1>1 DEF Wait, Expire, Proceed, Unchanged, run, client
<1>2. CASE Take \/ StartRun
  BY <1>2 DEF Take, StartRun, client
<1>3. CASE Exit
  BY <1>3 DEF Exit, run, NewControl
<1>4. CASE RunCommand
  BY <1>4 DEF RunCommand, Record, Return
<1>5. CASE Close
  BY <1>5 DEF Close, Return, client
<1>6. CASE EndRun
  <2>1. PICK r \in Results : Record(r) /\ (r = "aborted" => rc.abort)
    BY <1>6 DEF EndRun, Report, SkipReport, Abandon, Results
  <2>2. AbortHasCause'
    <3>1. interrupted' = interrupted
      BY <1>6 DEF EndRun, Report, SkipReport, Abandon
    <3>2. current \in Message /\ (r = "aborted" => current \in interrupted)
      BY <1>6, <2>1 DEF EndRun, Running, TypeInv, TypeOK
    <3> QED
      BY <2>1, <3>1, <3>2 DEF Record
  <2>3. /\ current' \in {current, NoMessage}
        /\ rc'.abort = rc.abort
        /\ interrupted' = interrupted
    BY <1>6 DEF EndRun, Report, SkipReport, Abandon, Return
  <2> QED
    BY <2>2, <2>3
<1>7. CASE (stage = "check" /\ Iterate) \/ (stage = "assemble" /\ CallModel)
  BY <1>7 DEF Iterate, CallModel, client
<1>8. CASE Stop \/ Abort
  BY <1>8 DEF Stop, Abort, Interrupt, run, client
<1>9. CASE \E m \in Message : Enqueue(m) \/ CloseAbandoned(m) \/ Disconnect(m)
  BY <1>9 DEF Enqueue, CloseAbandoned, Disconnect, run, client
<1>10. CASE \E s \in Steer : Steering(s)
  <2>1. rc'.abort = rc.abort /\ UNCHANGED <<current, outcome, interrupted>>
    BY <1>10 DEF Steering, run, client
  <2> QED
    BY <2>1
<1> QED
  BY <1>1, <1>2, <1>3, <1>4, <1>5, <1>6, <1>7, <1>8, <1>9, <1>10 DEF StepEffect

\* A message ends aborted only if it was in hand when an abort was requested.
THEOREM AbortsHaveCauses == Spec => []AbortHasCause
<1>1. Init => AbortInv
  BY DEF Init, AbortInv, AbortHasCause, NewControl
<1>2. AbortInv /\ UNCHANGED vars => AbortInv'
  BY DEF AbortInv, AbortHasCause, vars, run, client
<1>3. TypeInv /\ AbortInv /\ [Next]_vars => AbortInv'
  BY <1>2, AbortStep, StepCases
<1>4. AbortInv => AbortHasCause
  BY DEF AbortInv
<1> QED
  BY <1>1, <1>3, <1>4, TypeInvariant, PTL DEF Spec

(***************************************************************************)
(* Steers                                                                  *)
(***************************************************************************)
\* What is in the buffer or in the prompt was accepted in the present run.
SteerInv ==
    /\ SteerStaysInRun
    /\ rc.active => stage \in Running \cup {"ending"}
    /\ stage \in {"idle", "prepare"} => drained = {}
    /\ stage \in Running \cup {"ending"} =>
         \A s \in Range(rc.pending) \cup drained : acceptedIn[s] = current

LEMMA SteerStep == TypeInv /\ SteerInv /\ StepEffect => SteerInv'
<1> SUFFICES ASSUME TypeInv, SteerInv, StepEffect PROVE SteerInv'
  OBVIOUS
<1>0. /\ rc \in Control
      /\ stage \in Stages
      /\ drained \subseteq Steer
      /\ acceptedIn \in [Steer -> Message \cup {NoMessage}]
      /\ seenIn \in [Steer -> Message \cup {NoMessage}]
      /\ consumer = "busy" <=> stage # "idle"
      /\ SteerStaysInRun
      /\ rc.active => stage \in Running \cup {"ending"}
      /\ stage \in {"idle", "prepare"} => drained = {}
      /\ stage \in Running \cup {"ending"} =>
           \A s \in Range(rc.pending) \cup drained : acceptedIn[s] = current
  BY DEF TypeInv, TypeOK, Control, SteerInv
<1>00. Range(<<>>) = {}
  BY DEF Range
<1> USE <1>0 DEF SteerInv, SteerStaysInRun, Control, Running, Stages
<1>1. CASE Wait \/ Expire
  BY <1>1 DEF Wait, Expire, run, steers
<1>2. CASE Take
  BY <1>2 DEF Take, steers
<1>3. CASE Exit
  BY <1>3 DEF Exit, run, NewControl, steers
<1>4. CASE RunCommand
  BY <1>4 DEF RunCommand, Return, steers
<1>5. CASE StartRun
  BY <1>5, <1>00 DEF StartRun, Goto, steers
<1>6. CASE Close
  BY <1>6 DEF Close, Return, steers
<1>7. CASE Proceed
  BY <1>7 DEF Proceed, Unchanged, Goto, steers
<1>8. CASE EndRun
  <2>1. CASE Abandon
    BY <2>1 DEF Abandon, Return, steers
  <2>2. CASE stage \in Running /\ \E r \in Results : Report(r)
    BY <2>2 DEF Report, steers
  <2>3. CASE stage \in Running /\ SkipReport
    BY <2>3 DEF SkipReport, steers
  <2> QED
    BY <1>8, <2>1, <2>2, <2>3 DEF EndRun, Results
<1>9. CASE stage = "check" /\ Iterate
  <2>1. /\ rc'.active = rc.active
        /\ Range(rc'.pending) \cup drained' \subseteq Range(rc.pending)
        /\ stage' = "assemble"
        /\ UNCHANGED <<current, acceptedIn, seenIn>>
    BY <1>9, <1>00 DEF Iterate, Goto, steers
  <2> QED
    BY <1>9, <2>1
<1>10. CASE stage = "assemble" /\ CallModel
  BY <1>10 DEF CallModel, Goto
<1>11. CASE Stop
  <2>1. /\ rc'.active = rc.active
        /\ Range(rc'.pending) = {}
        /\ UNCHANGED <<stage, drained, current, acceptedIn, seenIn>>
    BY <1>11, <1>00 DEF Stop, run, steers
  <2> QED
    BY <2>1
<1>12. CASE Abort
  BY <1>12 DEF Abort, run, steers
<1>13. CASE \E m \in Message : Enqueue(m) \/ CloseAbandoned(m) \/ Disconnect(m)
  BY <1>13 DEF Enqueue, CloseAbandoned, Disconnect, run, steers
<1>14. CASE \E s \in Steer : Steering(s)
  <2>1. PICK s \in Steer : Steering(s)
    BY <1>14
  <2> DEFINE pending == Append(RoomFor(s, rc.pending), s)
  <2>2. Range(pending) \subseteq Range(rc.pending) \cup {s}
    BY SteeringBuffer
  <2>3. /\ rc' = [rc EXCEPT !.pending = pending]
        /\ acceptedIn' = [acceptedIn EXCEPT ![s] = current]
        /\ acceptedIn[s] = NoMessage
        /\ Active
        /\ UNCHANGED <<stage, drained, current, seenIn>>
    BY <2>1 DEF Steering, run
  <2> HIDE DEF pending
  <2>4. rc'.active = rc.active /\ rc'.pending = pending
    BY <2>3
  <2>5. seenIn[s] = NoMessage
    BY <2>3
  <2>6. stage \in Running \cup {"ending"}
    BY <2>3 DEF Active
  <2>7. Range(rc.pending) \subseteq Steer
    BY DEF Range
  <2>8. \A t \in Range(pending) \cup drained : acceptedIn'[t] = current
    BY <2>2, <2>3, <2>6, <2>7
  <2>9. SteerStaysInRun'
    BY <2>3, <2>5
  <2> QED
    BY <2>3, <2>4, <2>6, <2>8, <2>9
<1> QED
  BY <1>1, <1>2, <1>3, <1>4, <1>5, <1>6, <1>7, <1>8, <1>9, <1>10, <1>11, <1>12, <1>13,
     <1>14 DEF StepEffect

\* No steer reaches the model in another run than the one that accepted it.
THEOREM SteersStayInRun == Spec => []SteerStaysInRun
<1>1. Init => SteerInv
  BY DEF Init, SteerInv, SteerStaysInRun, NewControl, Running
<1>2. SteerInv /\ UNCHANGED vars => SteerInv'
  BY DEF SteerInv, SteerStaysInRun, vars, run, steers
<1>3. TypeInv /\ SteerInv /\ [Next]_vars => SteerInv'
  BY <1>2, SteerStep, StepCases
<1>4. SteerInv => SteerStaysInRun
  BY DEF SteerInv
<1> QED
  BY <1>1, <1>3, <1>4, TypeInvariant, PTL DEF Spec

\* Neither an abort nor a steer leaks from one run into another.
THEOREM RunsAreApart == Spec => []RunsStayApart
<1>1. TypeOK /\ AbortHasCause /\ SteerStaysInRun => RunsStayApart
  BY DEF RunsStayApart
<1> QED
  BY <1>1, TypeCorrect, AbortsHaveCauses, SteersStayInRun, PTL

(***************************************************************************)
(* Messages one at a time, in order, each once                             *)
(***************************************************************************)
\* Who waits is queued, and only once; who is in hand waits no longer.
LineInv ==
    /\ \A i \in 1 .. Len(queue) :
         /\ outcome[queue[i]] = "queued"
         /\ queue[i] # current
         /\ \A j \in 1 .. Len(queue) : queue[i] = queue[j] => i = j
    /\ current # NoMessage /\ stage # "ending" => outcome[current] = "queued"
    /\ stage = "ending" => outcome[current] \in Results

LEMMA LineStep ==
  ASSUME TypeInv, LineInv, StepEffect
  PROVE  LineInv'
<1>0. /\ queue \in Seq(Message)
      /\ outcome \in [Message -> Outcomes]
      /\ current \in Message \cup {NoMessage}
      /\ stage = "idle" <=> current = NoMessage
      /\ NoMessage \notin Message
      /\ "queued" \notin Results
  BY WebSessionAssumption DEF TypeInv, TypeOK, Results
<1>1. /\ \A i \in 1 .. Len(queue) :
           /\ outcome[queue[i]] = "queued"
           /\ queue[i] # current
           /\ \A j \in 1 .. Len(queue) : queue[i] = queue[j] => i = j
      /\ current # NoMessage /\ stage # "ending" => outcome[current] = "queued"
      /\ stage = "ending" => outcome[current] \in Results
  BY DEF LineInv
<1>2. \A i \in 1 .. Len(queue) : queue[i] \in Message
  BY <1>0
<1> USE <1>0, <1>1, <1>2 DEF LineInv
<1>3. CASE Wait \/ Abort \/ Stop
  BY <1>3 DEF Wait, Abort, Stop, sessionQueue, run, client
<1>4. CASE Take
  <2>1. /\ Len(queue) \in Nat \ {0}
        /\ current' = queue[1]
        /\ queue' \in Seq(Message)
        /\ Len(queue') = Len(queue) - 1
        /\ \A i \in 1 .. Len(queue') : queue'[i] = queue[i + 1]
    BY <1>4 DEF Take
  <2>2. stage' = "prepare" /\ outcome' = outcome /\ consumer' = "busy"
    BY <1>4 DEF Take, client
  <2>3. \A i \in 1 .. Len(queue') : i + 1 \in 1 .. Len(queue) /\ i + 1 # 1
    BY <2>1
  <2>4. \A i \in 1 .. Len(queue') :
          /\ outcome'[queue'[i]] = "queued"
          /\ queue'[i] # current'
          /\ \A j \in 1 .. Len(queue') : queue'[i] = queue'[j] => i = j
    <3> TAKE i \in 1 .. Len(queue')
    <3>1. queue'[i] = queue[i + 1] /\ i + 1 \in 1 .. Len(queue) /\ i + 1 # 1
      BY <2>1, <2>3
    <3>2. outcome'[queue'[i]] = "queued"
      BY <2>2, <3>1
    <3>3. queue'[i] # current'
      <4>1. 1 \in 1 .. Len(queue)
        BY <2>1
      <4> QED
        BY <2>1, <3>1, <4>1
    <3>4. \A j \in 1 .. Len(queue') : queue'[i] = queue'[j] => i = j
      <4> TAKE j \in 1 .. Len(queue')
      <4>1. queue'[j] = queue[j + 1] /\ j + 1 \in 1 .. Len(queue)
        BY <2>1, <2>3
      <4>2. queue[i + 1] = queue[j + 1] => i + 1 = j + 1
        BY <3>1, <4>1
      <4> QED
        BY <3>1, <4>1, <4>2
    <3> QED
      BY <3>2, <3>3, <3>4
  <2>5. outcome'[current'] = "queued"
    <3>1. 1 \in 1 .. Len(queue)
      BY <2>1
    <3> QED
      BY <2>1, <2>2, <3>1
  <2> QED
    BY <2>2, <2>4, <2>5
<1>5. CASE Expire
  BY <1>5 DEF Expire, run, client
<1>6. CASE Exit
  <2>1. queue' = <<>> /\ current' = NoMessage /\ stage' = "idle"
    BY <1>6 DEF Exit, run, TypeInv, TypeOK
  <2>2. Len(queue') = 0
    BY <2>1
  <2> QED
    BY <2>1, <2>2
<1>7. CASE RunCommand
  BY <1>7 DEF RunCommand, Record, Return
<1>8. CASE StartRun \/ Proceed
  BY <1>8 DEF StartRun, Proceed, Unchanged, Goto, sessionQueue, client, Running
<1>9. CASE Close
  BY <1>9 DEF Close, Return, client
<1>10. CASE EndRun
  <2>1. current \in Message
    BY <1>10 DEF EndRun, Running
  <2>2. PICK r \in Results : Record(r)
    BY <1>10 DEF EndRun, Report, SkipReport, Abandon, Results
  <2>3. queue' = queue
    BY <1>10 DEF EndRun, Report, SkipReport, Abandon, sessionQueue
  <2>4. /\ outcome'[current] = r
        /\ \A i \in 1 .. Len(queue) : outcome'[queue[i]] = "queued"
    BY <2>1, <2>2 DEF Record
  <2>5. \/ stage' = "ending" /\ UNCHANGED <<current, consumer>>
        \/ current' = NoMessage /\ stage' = "idle" /\ consumer' = "ready"
    BY <1>10 DEF EndRun, Report, SkipReport, Abandon, Return, sessionQueue
  <2>6. \A i \in 1 .. Len(queue) : queue[i] # current'
    BY <2>5
  <2> QED
    BY <2>2, <2>3, <2>4, <2>5, <2>6
<1>11. CASE (stage = "check" /\ Iterate) \/ (stage = "assemble" /\ CallModel)
  BY <1>11 DEF Iterate, CallModel, Goto, sessionQueue, client
<1>12. CASE \E m \in Message : Enqueue(m)
  <2>1. PICK m \in Message : Enqueue(m)
    BY <1>12
  <2>2. /\ outcome[m] = "unsent"
        /\ outcome' = [outcome EXCEPT ![m] = "queued"]
        /\ UNCHANGED <<current, stage>>
    BY <2>1 DEF Enqueue, run
  <2>3. /\ Len(queue') = Len(queue) + 1
        /\ \A i \in 1 .. Len(queue') :
             queue'[i] = IF i = Len(queue) + 1 THEN m ELSE queue[i]
    BY <2>1 DEF Enqueue
  <2>4. m # current /\ outcome[m] \notin Results
    BY <2>2 DEF Results
  <2>5. \A i \in 1 .. Len(queue) : queue[i] # m
    BY <2>2
  <2>6. \A i \in 1 .. Len(queue') : i # Len(queue) + 1 => i \in 1 .. Len(queue)
    BY <2>3
  <2>7. \A i \in 1 .. Len(queue') : outcome'[queue'[i]] = "queued"
    BY <2>2, <2>3, <2>6
  <2>8. \A i, j \in 1 .. Len(queue') :
          queue'[i] # current /\ (queue'[i] = queue'[j] => i = j)
    BY <2>3, <2>4, <2>5, <2>6
  <2>9. current # NoMessage => outcome'[current] = outcome[current]
    BY <2>2, <2>4
  <2> QED
    BY <2>2, <2>7, <2>8, <2>9
<1>13. CASE \E m \in Message : CloseAbandoned(m) \/ Disconnect(m)
  BY <1>13 DEF CloseAbandoned, Disconnect, sessionQueue, run, client
<1>14. CASE \E s \in Steer : Steering(s)
  BY <1>14 DEF Steering, sessionQueue, run, client
<1> QED
  BY <1>3, <1>4, <1>5, <1>6, <1>7, <1>8, <1>9, <1>10, <1>11, <1>12, <1>13, <1>14 DEF StepEffect

\* The mapped state.
Line == IF current = NoMessage THEN queue ELSE <<current>> \o queue
Over == {m \in Message : outcome[m] \in Results /\ m # current}

LEMMA FrontOfLine ==
  ASSUME NEW m \in Message, NEW q \in Seq(Message)
  PROVE  /\ <<m>> \o q # <<>>
         /\ Head(<<m>> \o q) = m
         /\ Tail(<<m>> \o q) = q
         /\ \A n \in Message : Append(<<m>> \o q, n) = <<m>> \o Append(q, n)
<1> DEFINE t == <<m>> \o q
<1>1. t \in Seq(Message) /\ Len(t) = Len(q) + 1 /\ t[1] = m
  OBVIOUS
<1>2. \A i \in 1 .. Len(q) : t[i + 1] = q[i]
  OBVIOUS
<1>3. t # <<>> /\ Head(t) = m
  BY <1>1
<1>4. Tail(t) = q
  <2>1. Tail(t) \in Seq(Message) /\ Len(Tail(t)) = Len(q)
    BY <1>1
  <2>2. \A i \in 1 .. Len(q) : Tail(t)[i] = q[i]
    BY <1>1, <1>2
  <2> QED
    BY <2>1, <2>2
<1>5. ASSUME NEW n \in Message PROVE Append(t, n) = <<m>> \o Append(q, n)
  <2> DEFINE u == <<m>> \o Append(q, n)
             a == Append(t, n)
  <2>1. u \in Seq(Message) /\ Len(u) = Len(q) + 2
    OBVIOUS
  <2>2. a \in Seq(Message) /\ Len(a) = Len(q) + 2
    BY <1>1
  <2>3. \A i \in 1 .. Len(q) + 2 : u[i] = a[i]
    OBVIOUS
  <2> QED
    BY <2>1, <2>2, <2>3
<1> QED
  BY <1>3, <1>4, <1>5

LEMMA HeadTail ==
  ASSUME NEW q \in Seq(Message), q # <<>>
  PROVE  Head(q) \in Message /\ Tail(q) \in Seq(Message) /\ <<Head(q)>> \o Tail(q) = q
<1>1. Head(q) \in Message /\ Tail(q) \in Seq(Message)
  OBVIOUS
<1> DEFINE t == <<Head(q)>> \o Tail(q)
<1>2. t \in Seq(Message) /\ Len(t) = Len(q)
  OBVIOUS
<1>3. \A i \in 1 .. Len(q) : t[i] = q[i]
  OBVIOUS
<1>4. t = q
  BY <1>2, <1>3
<1> QED
  BY <1>1, <1>4

LEMMA SerialInit == Init => Serial!Init
<1> SUFFICES ASSUME Init PROVE Line = <<>> /\ Over = {}
  BY DEF Serial!Init, Line, Over
<1>1. current = NoMessage /\ queue = <<>>
  BY DEF Init
<1>2. \A m \in Message : outcome[m] \notin Results
  BY DEF Init, Results
<1> QED
  BY <1>1, <1>2 DEF Line, Over

LEMMA SerialStep ==
  ASSUME TypeInv, LineInv, consumer # "expiring", consumer' # "expiring", StepEffect
  PROVE  Serial!Next \/ UNCHANGED <<Line, Over>>
<1>0. /\ queue \in Seq(Message)
      /\ outcome \in [Message -> Outcomes]
      /\ current \in Message \cup {NoMessage}
      /\ stage = "idle" <=> current = NoMessage
      /\ consumer = "busy" <=> current # NoMessage
      /\ NoMessage \notin Message
      /\ "queued" \notin Results
      /\ consumer # "expiring"
  BY WebSessionAssumption DEF TypeInv, TypeOK, Results
<1> USE <1>0
<1>1. ASSUME current \in Message, current' = NoMessage, queue' = queue,
             outcome'[current] \in Results,
             \A m \in Message \ {current} : outcome'[m] = outcome[m]
      PROVE  Serial!Next
  <2>1. Line = <<current>> \o queue /\ Line' = queue
    BY <1>1 DEF Line
  <2>2. Line # <<>> /\ Head(Line) = current /\ Line' = Tail(Line)
    BY <1>1, <2>1, FrontOfLine
  <2>3. Over' = Over \cup {current}
    BY <1>1 DEF Over
  <2>4. Serial!Conclude
    BY <2>2, <2>3 DEF Serial!Conclude, Line, Over
  <2> QED
    BY <2>4 DEF Serial!Next
<1>2. ASSUME UNCHANGED <<queue, current>>,
             \A m \in Message \ {current} : outcome'[m] = outcome[m]
      PROVE  UNCHANGED <<Line, Over>>
  BY <1>2 DEF Line, Over
<1>3. CASE Wait \/ StartRun \/ Proceed \/ (stage = "check" /\ Iterate)
           \/ (stage = "assemble" /\ CallModel) \/ Stop \/ Abort
  <2>1. UNCHANGED <<queue, current, outcome>>
    BY <1>3 DEF Wait, StartRun, Proceed, Unchanged, Iterate, CallModel, Stop, Abort,
                sessionQueue, run, client
  <2> QED
    BY <1>2, <2>1
<1>4. CASE Expire \/ Exit
  BY <1>4 DEF Expire, Exit
<1>5. CASE Take
  <2>1. /\ queue # <<>>
        /\ current = NoMessage
        /\ current' = Head(queue)
        /\ queue' = Tail(queue)
        /\ outcome' = outcome
    BY <1>5 DEF Take, client
  <2>2. Head(queue) \in Message /\ <<Head(queue)>> \o Tail(queue) = queue
    BY <2>1, HeadTail
  <2>3. Line' = Line
    BY <2>1, <2>2 DEF Line
  <2>4. outcome[Head(queue)] = "queued"
    BY <2>1 DEF LineInv
  <2>5. Over' = Over
    BY <2>1, <2>2, <2>4 DEF Over
  <2> QED
    BY <2>3, <2>5
<1>6. CASE RunCommand
  <2>1. /\ current' = NoMessage /\ queue' = queue
        /\ outcome' = [outcome EXCEPT ![current] = "answered"]
        /\ current \in Message
        /\ "answered" \in Results
    BY <1>6 DEF RunCommand, Record, Return, Results
  <2> QED
    BY <1>1, <2>1
<1>7. CASE Close
  <2>1. current' = NoMessage /\ queue' = queue /\ outcome' = outcome
    BY <1>7 DEF Close, Return, client
  <2>2. current \in Message /\ outcome[current] \in Results
    BY <1>7 DEF Close, LineInv
  <2> QED
    BY <1>1, <2>1, <2>2
<1>8. CASE EndRun
  <2>1. current \in Message
    BY <1>8 DEF EndRun, Running
  <2>2. PICK r \in Results : Record(r)
    BY <1>8 DEF EndRun, Report, SkipReport, Abandon, Results
  <2>3. /\ outcome'[current] \in Results
        /\ \A m \in Message \ {current} : outcome'[m] = outcome[m]
    BY <2>1, <2>2 DEF Record
  <2>4. queue' = queue /\ (current' = current \/ current' = NoMessage)
    BY <1>8 DEF EndRun, Report, SkipReport, Abandon, Return, sessionQueue
  <2> QED
    BY <1>1, <1>2, <2>1, <2>3, <2>4
<1>9. CASE \E m \in Message : Enqueue(m)
  <2>1. PICK m \in Message : Enqueue(m)
    BY <1>9
  <2>2. /\ outcome[m] = "unsent"
        /\ outcome' = [outcome EXCEPT ![m] = "queued"]
        /\ queue' = Append(queue, m)
        /\ current' = current
    BY <2>1 DEF Enqueue, run
  <2>3. Line' = Append(Line, m)
    <3>1. CASE current = NoMessage
      BY <2>2, <3>1 DEF Line
    <3>2. CASE current \in Message
      BY <2>2, <3>2, FrontOfLine DEF Line
    <3> QED
      BY <3>1, <3>2
  <2>4. "unsent" \notin Results
    BY DEF Results
  <2>5. Over' = Over /\ m \notin Over
    BY <2>2, <2>4 DEF Over
  <2>6. m # current /\ \A i \in 1 .. Len(queue) : queue[i] # m
    BY <2>2, <2>4 DEF LineInv
  <2>7. \A i \in DOMAIN Line : Line[i] # m
    <3>1. CASE current = NoMessage
      BY <2>6, <3>1 DEF Line
    <3>2. CASE current \in Message
      <4>1. Line = <<current>> \o queue
        BY <3>2 DEF Line
      <4>2. DOMAIN Line = 1 .. Len(queue) + 1
        BY <3>2, <4>1
      <4>3. \A i \in 1 .. Len(queue) + 1 : Line[i] = IF i = 1 THEN current ELSE queue[i - 1]
        BY <3>2, <4>1
      <4> QED
        BY <2>6, <4>2, <4>3
    <3> QED
      BY <3>1, <3>2
  <2>8. Serial!Accept(m)
    BY <2>3, <2>5, <2>7 DEF Serial!Accept, Serial!Pending, Line, Over
  <2> QED
    BY <2>8 DEF Serial!Next
<1>10. CASE \E m \in Message : CloseAbandoned(m) \/ Disconnect(m)
  <2>1. UNCHANGED <<queue, current, outcome>>
    BY <1>10 DEF CloseAbandoned, Disconnect, sessionQueue, run, client
  <2> QED
    BY <1>2, <2>1
<1>11. CASE \E s \in Steer : Steering(s)
  <2>1. UNCHANGED <<queue, current, outcome>>
    BY <1>11 DEF Steering, sessionQueue, run, client
  <2> QED
    BY <1>2, <2>1
<1> QED
  BY <1>3, <1>4, <1>5, <1>6, <1>7, <1>8, <1>9, <1>10, <1>11 DEF StepEffect

LEMMA LineInvariant == Spec => []LineInv
<1>1. Init => LineInv
  <2> SUFFICES ASSUME Init PROVE LineInv
    OBVIOUS
  <2>1. queue = <<>> /\ current = NoMessage /\ stage = "idle"
    BY DEF Init
  <2> QED
    BY <2>1 DEF LineInv
<1>2. LineInv /\ UNCHANGED vars => LineInv'
  BY DEF LineInv, vars, sessionQueue, run, client
<1>3. TypeInv /\ LineInv /\ [Next]_vars => LineInv'
  BY <1>2, LineStep, StepCases
<1> QED
  BY <1>1, <1>3, TypeInvariant, PTL DEF Spec

LEMMA NeverExpires ==
  ASSUME "idle" \notin Environment, consumer # "expiring", StepEffect
  PROVE  consumer' # "expiring"
<1>1. CASE Wait \/ Take \/ Expire \/ Exit \/ RunCommand \/ StartRun \/ Close
  BY <1>1 DEF Wait, Take, Expire, Exit, RunCommand, StartRun, Close, Return, sessionQueue
<1>2. CASE Proceed \/ EndRun
  BY <1>2 DEF Proceed, Unchanged, EndRun, Report, SkipReport, Abandon, Return, sessionQueue
<1>3. CASE (stage = "check" /\ Iterate) \/ (stage = "assemble" /\ CallModel) \/ Stop \/ Abort
  BY <1>3 DEF Iterate, CallModel, Stop, Abort, sessionQueue
<1>4. CASE \E m \in Message : Enqueue(m) \/ CloseAbandoned(m) \/ Disconnect(m)
  BY <1>4 DEF Enqueue, CloseAbandoned, Disconnect, sessionQueue
<1>5. CASE \E s \in Steer : Steering(s)
  BY <1>5 DEF Steering, sessionQueue
<1> QED
  BY <1>1, <1>2, <1>3, <1>4, <1>5 DEF StepEffect

\* When no consumer times out, a conversation handles its messages one at a
\* time, in the order in which they came, and each once.
THEOREM HandlesInOrder ==
  ASSUME "idle" \notin Environment
  PROVE  Spec => ImplementsSerialSession
<1> DEFINE Awake == consumer # "expiring"
<1>1. Init => Awake
  BY DEF Init
<1>2. Awake /\ [Next]_vars => Awake'
  BY StepCases, NeverExpires DEF vars, sessionQueue
<1>3. TypeInv /\ LineInv /\ Awake /\ Awake' /\ [Next]_vars => [Serial!Next]_(Serial!vars)
  <2>1. UNCHANGED vars => UNCHANGED <<Line, Over>>
    BY DEF vars, sessionQueue, run, client, Line, Over
  <2>2. UNCHANGED <<Line, Over>> => UNCHANGED Serial!vars
    BY DEF Serial!vars, Line, Over
  <2> QED
    BY <2>1, <2>2, SerialStep, StepCases
<1> QED
  BY <1>1, <1>2, <1>3, SerialInit, TypeInvariant, LineInvariant, PTL
     DEF Spec, ImplementsSerialSession, Serial!Spec

(***************************************************************************)
(* One answer for each message                                             *)
(***************************************************************************)
\* A message that is not over has no answer yet, and nobody has answered for
\* the run in hand.
OnceInv ==
    /\ ~rc.external
    /\ \A m \in Message : outcome[m] \notin Results => answers[m] = 0
    /\ OneAnswer

\* A message that is not answered for, and one that ends, keep the count right.
LEMMA OnceKept ==
  ASSUME OnceInv, ~rc'.external, UNCHANGED answers, gone \subseteq gone',
         \A m \in Message : outcome'[m] = outcome[m] \/ outcome'[m] \notin Results,
         \A m \in Message : outcome[m] \in Results => outcome'[m] = outcome[m]
  PROVE  OnceInv'
BY DEF OnceInv, OneAnswer, Results

LEMMA OnceStep ==
  ASSUME "stop" \notin Environment, TypeInv, LineInv, OnceInv, StepEffect
  PROVE  OnceInv'
<1>0. /\ outcome \in [Message -> Outcomes] /\ answers \in [Message -> Nat]
      /\ current \in Message \cup {NoMessage}
      /\ stage = "idle" <=> current = NoMessage
      /\ rc \in Control
      /\ ~rc.external
      /\ Results = {"answered", "error", "aborted", "abandoned"}
      /\ \A m \in Message : outcome[m] \notin Results => answers[m] = 0
  BY DEF TypeInv, TypeOK, OnceInv, Results, Control
<1>1. CASE Wait \/ Expire
  BY <1>0, <1>1, OnceKept DEF Wait, Expire, client
<1>2. CASE Take
  BY <1>0, <1>2, OnceKept DEF Take, client, Control
<1>3. CASE Exit
  <2>1. \A m \in Message : m \in Range(queue) => outcome[m] \notin Results
    <3>1. \A i \in 1 .. Len(queue) : outcome[queue[i]] \notin Results
      BY <1>0 DEF LineInv
    <3>2. queue \in Seq(Message)
      BY DEF TypeInv, TypeOK
    <3> QED
      BY <3>1, <3>2 DEF Range
  <2>2. ~rc'.external /\ UNCHANGED <<gone, answers>>
    BY <1>3 DEF Exit, NewControl
  <2>3. \A m \in Message : outcome'[m] = IF m \in Range(queue) THEN "lost" ELSE outcome[m]
    BY <1>3 DEF Exit
  <2> QED
    BY <1>0, <2>1, <2>2, <2>3, OnceKept
<1>4. CASE StartRun \/ Proceed \/ Close
  <2>1. UNCHANGED client
    BY <1>4 DEF StartRun, Proceed, Unchanged, Close
  <2>2. ~rc'.external
    BY <1>0, <1>4 DEF StartRun, Proceed, Unchanged, Close, Control
  <2> QED
    BY <2>1, <2>2, OnceKept DEF client
<1>5. CASE (stage = "check" /\ Iterate) \/ (stage = "assemble" /\ CallModel) \/ Abort
  <2>1. UNCHANGED client
    BY <1>5 DEF Iterate, CallModel, Abort
  <2>2. ~rc'.external
    <3>1. \/ rc' = rc
          \/ rc' = [rc EXCEPT !.pending = <<>>]
          \/ rc' = [rc EXCEPT !.abort = TRUE]
      BY <1>5 DEF Iterate, CallModel, Abort
    <3> QED
      BY <1>0, <3>1 DEF Control
  <2> QED
    BY <2>1, <2>2, OnceKept DEF client
<1>6. CASE RunCommand \/ EndRun
  <2>1. current \in Message /\ outcome[current] = "queued" /\ answers[current] = 0
    BY <1>0, <1>6 DEF RunCommand, EndRun, Running, LineInv
  <2>2. /\ UNCHANGED gone
        /\ \/ current \notin gone /\ Answer /\ \E r \in Results : Record(r)
           \/ current \in gone /\ UNCHANGED answers /\ \E r \in Results : Record(r)
    BY <1>0, <1>6 DEF RunCommand, EndRun, Report, SkipReport, Abandon, Results
  <2>3. ~rc'.external
    <3>1. rc' = rc \/ rc' = [rc EXCEPT !.active = FALSE]
      BY <1>0, <1>6 DEF RunCommand, EndRun, Report, SkipReport, Abandon
    <3> QED
      BY <1>0, <3>1 DEF Control
  <2>4. outcome'[current] \in Results
        /\ \A m \in Message \ {current} : outcome'[m] = outcome[m]
    BY <1>0, <2>1, <2>2 DEF Record
  <2>5. \A m \in Message \ {current} : answers'[m] = answers[m]
    BY <1>0, <2>1, <2>2 DEF Answer
  <2>6. current \notin gone => answers'[current] = 1
    BY <1>0, <2>1, <2>2 DEF Answer
  <2>7. OneAnswer'
    <3>1. \A m \in Message \ gone :
             outcome[m] \in {"answered", "error", "aborted"} => answers[m] = 1
      BY DEF OnceInv, OneAnswer
    <3> QED
      BY <2>2, <2>4, <2>5, <2>6, <3>1 DEF OneAnswer
  <2>8. \A m \in Message : outcome'[m] \notin Results => answers'[m] = 0
    BY <1>0, <2>4, <2>5
  <2> QED
    BY <1>0, <2>3, <2>7, <2>8 DEF OnceInv, Results
<1>7. CASE Stop
  BY <1>7 DEF Stop
<1>8. CASE \E m \in Message : Enqueue(m)
  <2>1. PICK m \in Message : Enqueue(m)
    BY <1>8
  <2>2. outcome[m] = "unsent" /\ outcome' = [outcome EXCEPT ![m] = "queued"]
        /\ UNCHANGED <<gone, answers, rc>>
    BY <2>1 DEF Enqueue
  <2> QED
    BY <1>0, <2>2, OnceKept
<1>9. CASE \E m \in Message : CloseAbandoned(m) \/ Disconnect(m)
  <2>1. UNCHANGED <<answers, outcome, rc>> /\ gone \subseteq gone'
    BY <1>9 DEF CloseAbandoned, Disconnect, client
  <2> QED
    BY <1>0, <2>1, OnceKept
<1>10. CASE \E s \in Steer : Steering(s)
  BY <1>0, <1>10, OnceKept DEF Steering, client, Control
<1> QED
  BY <1>1, <1>2, <1>3, <1>4, <1>5, <1>6, <1>7, <1>8, <1>9, <1>10 DEF StepEffect

\* Whatever is aborted, fails or loses its client, and even when the consumer
\* times out, a connected client that does not send /stop gets exactly one
\* terminal event for each message that was handled (_run_chat,
\* handle_chat_send).
THEOREM AnswersOnce ==
  ASSUME "stop" \notin Environment
  PROVE  Spec => []OneAnswer
<1>1. Init => OnceInv
  BY DEF Init, OnceInv, OneAnswer, NewControl
<1>2. OnceInv /\ UNCHANGED vars => OnceInv'
  BY DEF OnceInv, OneAnswer, vars, client
<1>3. TypeInv /\ LineInv /\ OnceInv /\ [Next]_vars => OnceInv'
  BY <1>2, OnceStep, StepCases
<1>4. OnceInv => OneAnswer
  BY DEF OnceInv
<1> QED
  BY <1>1, <1>3, <1>4, TypeInvariant, LineInvariant, PTL DEF Spec
=============================================================================

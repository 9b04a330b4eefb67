------------------------ MODULE WebhookReceiverProofs ------------------------
(***************************************************************************)
(* What holds of WebhookReceiver for any number of deliveries, handlers,   *)
(* transactions and bodies.  Its dispatches are those of Dispatcher, whose *)
(* invariant is taken over through the simulation below.                   *)
(***************************************************************************)
EXTENDS WebhookReceiver, DispatcherProofs

(* Every step of the receiver is a step of the dispatcher or leaves it     *)
(* alone.                                                                  *)
LEMMA ReceiverSimulates == [ReceiverNext]_receiverVars => [Next]_vars
<1> SUFFICES ASSUME [ReceiverNext]_receiverVars PROVE [Next]_vars
  OBVIOUS
<1>1. ASSUME NEW d \in Dispatches, Post(d) PROVE [Next]_vars
  <2>1. Dispatch(d) \/ UNCHANGED vars
    BY <1>1 DEF Post
  <2> QED
    BY <2>1 DEF Next, DispatchStep
<1>2. ASSUME NEW d \in Dispatches, Verify(d) PROVE [Next]_vars
  BY <1>2 DEF Verify, Next, DispatchStep
<1>3. ASSUME NEW d \in Dispatches, RunHandlers(d) PROVE [Next]_vars
  BY <1>3 DEF RunHandlers, Next, DispatchStep
<1>4. ASSUME NEW d \in Dispatches, Answer(d) PROVE [Next]_vars
  BY <1>4 DEF Answer
<1>5. ASSUME NEW h \in Handlers, NEW t \in EventTypes, Register(h, t)
      PROVE  [Next]_vars
  BY <1>5 DEF Register, Next
<1>6. ASSUME NEW t \in Transactions, Settle(t) PROVE [Next]_vars
  BY <1>6 DEF Settle
<1> QED
  BY <1>1, <1>2, <1>3, <1>4, <1>5, <1>6 DEF ReceiverNext, receiverVars

(* Seen from dispatch(), the view, the server and the requests around it   *)
(* are one of the environments Dispatcher allows: what is proved of        *)
(* dispatchers holds behind the view.                                      *)
THEOREM DispatchesBehindView == ReceiverSpec => Spec
<1>1. ReceiverInit => Init
  BY DEF ReceiverInit
<1> QED
  BY <1>1, ReceiverSimulates, PTL DEF ReceiverSpec, Spec

LEMMA ReceiverDispatches == ReceiverSpec => []DispatchInv
BY DispatchesBehindView, AlwaysDispatchInv, PTL
-----------------------------------------------------------------------------
ViewTypes ==
    /\ records \in [Transactions -> {"none", "pending", "succeeded", "failed"}]
    /\ body \in [Dispatches -> Payloads \cup {NoBody}]
    /\ status \in [Dispatches -> Statuses]
    /\ ripe \in [Dispatches -> BOOLEAN]

LEMMA ViewTypesInductive ==
    ASSUME ViewTypes, [ReceiverNext]_receiverVars PROVE ViewTypes'
<1> USE DEF ViewTypes, Statuses, viewVars
<1>1. ASSUME NEW d \in Dispatches, Post(d) PROVE ViewTypes'
  <2>1. PICK b \in Payloads :
           /\ body' = [body EXCEPT ![d] = b]
           /\ ripe' = [ripe EXCEPT ![d] = Backed(b)]
           /\ \/ UNCHANGED status
              \/ status' = [status EXCEPT ![d] = "400"]
              \/ status' = [status EXCEPT ![d] = "500"]
    BY <1>1 DEF Post
  <2>2. Backed(b) \in BOOLEAN
    BY DEF Backed
  <2>3. ripe' \in [Dispatches -> BOOLEAN]
    BY <2>1, <2>2
  <2>4. status' \in [Dispatches -> Statuses]
    BY <2>1
  <2> QED
    BY <1>1, <2>1, <2>3, <2>4 DEF Post
<1>2. ASSUME NEW d \in Dispatches, Verify(d) PROVE ViewTypes'
  BY <1>2 DEF Verify
<1>3. ASSUME NEW d \in Dispatches, RunHandlers(d) PROVE ViewTypes'
  BY <1>3 DEF RunHandlers
<1>4. ASSUME NEW d \in Dispatches, Answer(d) PROVE ViewTypes'
  BY <1>4 DEF Answer, StatusOf
<1>5. ASSUME NEW h \in Handlers, NEW t \in EventTypes, Register(h, t)
      PROVE  ViewTypes'
  BY <1>5 DEF Register
<1>6. ASSUME NEW t \in Transactions, Settle(t) PROVE ViewTypes'
  BY <1>6 DEF Settle
<1>7. CASE UNCHANGED receiverVars
  BY <1>7 DEF receiverVars
<1> QED
  BY <1>1, <1>2, <1>3, <1>4, <1>5, <1>6, <1>7 DEF ReceiverNext

LEMMA AlwaysViewTypes == ReceiverSpec => []ViewTypes
<1>1. ReceiverInit => ViewTypes
  BY DEF ReceiverInit, ViewTypes, Statuses
<1> QED
  BY <1>1, ViewTypesInductive, PTL DEF ReceiverSpec

(* Types, whatever is posted.                                              *)
THEOREM ReceiverTypeCorrect == ReceiverSpec => []ReceiverTypeOK
<1>1. DispatchInv /\ ViewTypes => ReceiverTypeOK
  BY DEF DispatchInv, ViewTypes, ReceiverTypeOK
<1> QED
  BY <1>1, ReceiverDispatches, AlwaysViewTypes, PTL
-----------------------------------------------------------------------------
(* What the view and the verifier know of one delivery: whether it was     *)
(* handed to dispatch(), what its verdict says of the server's record, and *)
(* which outcome its answer tells of.                                      *)
PostInv(d) ==
    /\ body[d] = NoBody => pc[d] = "idle" /\ status[d] = "none" /\ ~ripe[d]
    /\ pc[d] # "idle" =>
          body[d] \in Payloads /\ body[d].kind = "event" /\ verify[d] = ViewVerify
    /\ ripe[d] => body[d] \in Payloads /\ Backed(body[d])

RecordInv(d) ==
    /\ pc[d] \in {"idle", "verify"} => verdict[d] = "none"
    /\ verdict[d] = "genuine" => body[d] \in Payloads /\ Backed(body[d])
    /\ verdict[d] = "forged" => ~ripe[d]
    /\ outcome[d] = "PSIPWebhookForgeryError" =>
          verdict[d] = "forged" /\ ran[d] = << >>

AnswerInv(d) ==
    /\ status[d] = "200" => outcome[d] = "returned"
    /\ status[d] = "403" => outcome[d] = "PSIPWebhookForgeryError"
    /\ status[d] = "400" => pc[d] = "idle" /\ ~ripe[d]

PathInv(d) == PostInv(d) /\ RecordInv(d) /\ AnswerInv(d)

PathsInv == \A d \in Dispatches : PathInv(d)

(* A recorded success is final, so what backed an event goes on backing    *)
(* it.                                                                     *)
LEMMA BackedStays ==
    ASSUME ViewTypes, [ReceiverNext]_receiverVars, NEW b \in Payloads, Backed(b)
    PROVE  Backed(b)'
<1>1. b.tx \in Transactions
  BY ReceiverAssumption DEF Backed, BrokenBodies
<1>2. records'[b.tx] = records[b.tx]
  <2>1. CASE UNCHANGED records
    BY <2>1
  <2>2. CASE \E t \in Transactions : Settle(t)
    <3>1. PICK t \in Transactions : Settle(t)
      BY <2>2
    <3>2. b.tx # t
      BY <3>1 DEF Settle, Backed
    <3> QED
      BY <1>1, <3>1, <3>2 DEF Settle, ViewTypes
  <2> QED
    BY <2>1, <2>2
    DEF ReceiverNext, Post, Verify, RunHandlers, Answer, Register, receiverVars
<1> QED
  BY <1>2 DEF Backed

(* A delivery that does not move keeps its invariant.                      *)
LEMMA StillPath ==
    ASSUME ViewTypes, [ReceiverNext]_receiverVars,
           NEW d \in Dispatches, PathInv(d),
           body'[d] = body[d], status'[d] = status[d], ripe'[d] = ripe[d],
           pc'[d] = pc[d], verify'[d] = verify[d], verdict'[d] = verdict[d],
           outcome'[d] = outcome[d], ran'[d] = ran[d]
    PROVE  PathInv(d)'
<1>1. body[d] \in Payloads /\ Backed(body[d]) => Backed(body[d])'
  <2> SUFFICES ASSUME body[d] \in Payloads, Backed(body[d])
               PROVE  Backed(body[d])'
    OBVIOUS
  <2> DEFINE b == body[d]
  <2>1. Backed(b)
    OBVIOUS
  <2> HIDE DEF b
  <2>2. b \in Payloads
    BY DEF b
  <2>3. records'[b.tx] = "succeeded"
    BY <2>1, <2>2, BackedStays DEF Backed, b
  <2> QED
    BY <2>1, <2>3 DEF Backed, b
<1> QED
  BY <1>1 DEF PathInv, PostInv, RecordInv, AnswerInv

LEMMA PostPath ==
    ASSUME ViewTypes, DispatchInv, NEW d \in Dispatches, PathInv(d), Post(d)
    PROVE  PathInv(d)'
<1>1. PICK b \in Payloads :
         /\ body' = [body EXCEPT ![d] = b]
         /\ ripe' = [ripe EXCEPT ![d] = Backed(b)]
         /\ IF Parse(b) = "event"
            THEN Dispatch(d) /\ verify'[d] = ViewVerify /\ UNCHANGED status
            ELSE /\ status' = [status EXCEPT ![d] =
                       IF Parse(b) = "PSIPWebhookValidationError"
                       THEN "400" ELSE "500"]
                 /\ UNCHANGED vars
  BY DEF Post
<1>2. /\ body'[d] = b /\ b # NoBody /\ ripe'[d] = Backed(b)
      /\ UNCHANGED records
  BY <1>1, ReceiverAssumption DEF Post, ViewTypes
<1>3. /\ pc[d] = "idle" /\ status[d] = "none" /\ verdict[d] = "none"
      /\ ran[d] = << >> /\ outcome[d] = "none"
  BY DEF Post, PathInv, PostInv, RecordInv, DispatchInv, LoopInv, OutcomeInv,
         TypeOK, Outcomes
<1>4. ripe'[d] => b.kind = "event" /\ Backed(body[d])'
  BY <1>2 DEF Backed
<1>5. CASE Parse(b) = "event"
  <2>1. Dispatch(d) /\ verify'[d] = ViewVerify /\ status'[d] = "none"
    BY <1>1, <1>3, <1>5
  <2>2. b.kind = "event"
    BY <1>5 DEF Parse
  <2>3. /\ verdict'[d] = "none" /\ ran'[d] = << >>
        /\ pc'[d] # "idle"
        /\ outcome'[d] \in {"none", "RuntimeError"}
    BY <1>3, <2>1 DEF Dispatch, End, Goto, DispatchInv, TypeOK, loopVars
  <2> QED
    BY <1>2, <1>4, <2>1, <2>2, <2>3
    DEF PathInv, PostInv, RecordInv, AnswerInv
<1>6. CASE Parse(b) # "event"
  <2>1. /\ status'[d] \in {"400", "500"}
        /\ pc'[d] = "idle" /\ verdict'[d] = "none" /\ outcome'[d] = "none"
        /\ ran'[d] = << >>
    BY <1>1, <1>3, <1>6 DEF ViewTypes, vars, loopVars
  <2>2. ~ripe'[d]
    BY <1>4, <1>6 DEF Parse
  <2> QED
    BY <1>2, <2>1, <2>2 DEF PathInv, PostInv, RecordInv, AnswerInv
<1> QED
  BY <1>5, <1>6

LEMMA VerifyPath ==
    ASSUME ViewTypes, DispatchInv, NEW d \in Dispatches, PathInv(d), Verify(d)
    PROVE  PathInv(d)'
<1> DEFINE b == body[d]
           v == verdict'[d]
<1>1. /\ pc[d] = "verify" /\ ran[d] = << >> /\ outcome[d] = "none"
      /\ UNCHANGED <<body, status, ripe, records, verify, ran>>
  BY DEF Verify, Verifier, loopVars, viewVars, DispatchInv, LoopInv, OutcomeInv
<1>2. b \in Payloads /\ b.kind = "event" /\ verify[d] = ViewVerify
  BY <1>1 DEF PathInv, PostInv
<1>3. v = "genuine" => Backed(b)
  BY <1>2 DEF Verify, VerifyEvent, CheckMatch, Transaction, Backed
<1>4. v = "forged" => ~Backed(b)
  <2>1. PICK result \in GetOutcomes(b.tx) : v = VerifyEvent(b, result)
    BY DEF Verify
  <2>2. CASE result = "Data"
    BY <2>1, <2>2 DEF VerifyEvent, CheckMatch, Transaction, Backed
  <2>3. CASE result = "PSIPNotFoundError"
    BY <2>1, <2>3, ReceiverAssumption DEF GetOutcomes, Backed
  <2>4. CASE result \notin {"Data", "PSIPNotFoundError"}
    BY <2>1, <2>4 DEF VerifyEvent
  <2> QED
    BY <2>2, <2>3, <2>4
<1>5. v = "forged" => ~ripe[d]
  BY <1>4 DEF PathInv, PostInv
<1>6. /\ pc'[d] \in {"lookup", "done"}
      /\ outcome'[d] = "PSIPWebhookForgeryError" => v = "forged"
  BY <1>1 DEF Verify, Verifier, Passes, Goto, End, DispatchInv, TypeOK
<1>7. status[d] \notin {"200", "400", "403"}
  BY <1>1 DEF PathInv, AnswerInv
<1>8. (Backed(body[d]))' <=> Backed(b)
  BY <1>1 DEF Backed
<1> QED
  BY <1>1, <1>2, <1>3, <1>5, <1>6, <1>7, <1>8
  DEF PathInv, PostInv, RecordInv, AnswerInv

LEMMA HandlersPath ==
    ASSUME ViewTypes, DispatchInv, NEW d \in Dispatches, PathInv(d),
           RunHandlers(d)
    PROVE  PathInv(d)'
<1>1. /\ UNCHANGED <<body, status, ripe, records, verify, verdict>>
      /\ pc[d] \in {"verify", "lookup", "loop", "handler"}
  BY DEF RunHandlers, Lookup, Invoke, HandlerReturns, HandlerRaises, Interrupt,
         Finish, Goto, End, loopVars, viewVars
<1>2. /\ pc'[d] \in {"loop", "handler", "done"}
      /\ outcome'[d] # "PSIPWebhookForgeryError"
      /\ verdict[d] \in {"none", "genuine", "forged", "unavailable"}
  <2>1. outcome[d] = "none"
    BY <1>1 DEF DispatchInv, OutcomeInv
  <2> QED
    BY <2>1 DEF RunHandlers, Lookup, Invoke, HandlerReturns, HandlerRaises,
       Interrupt, Finish, Goto, End, DispatchInv, TypeOK, Verdicts
<1>3. body[d] \in Payloads /\ body[d].kind = "event" /\ verify[d] = ViewVerify
  BY <1>1 DEF PathInv, PostInv
<1>4. body[d] # NoBody
  BY <1>3, ReceiverAssumption
<1>5. status[d] \notin {"200", "400", "403"}
  BY <1>1 DEF PathInv, AnswerInv, DispatchInv, OutcomeInv
<1>6. (Backed(body[d]))' <=> Backed(body[d])
  BY <1>1 DEF Backed
<1> QED
  BY <1>1, <1>2, <1>3, <1>4, <1>5, <1>6
  DEF PathInv, PostInv, RecordInv, AnswerInv

LEMMA AnswerPath ==
    ASSUME ViewTypes, NEW d \in Dispatches, PathInv(d), Answer(d)
    PROVE  PathInv(d)'
<1>1. /\ pc[d] = "done"
      /\ status'[d] = StatusOf(outcome[d])
      /\ UNCHANGED <<vars, records, body, ripe>>
  BY DEF Answer, ViewTypes
<1>2. /\ status'[d] # "400"
      /\ status'[d] = "200" => outcome[d] = "returned"
      /\ status'[d] = "403" => outcome[d] = "PSIPWebhookForgeryError"
  BY <1>1 DEF StatusOf
<1>3. (Backed(body[d]))' <=> Backed(body[d])
  BY <1>1 DEF Backed
<1> QED
  BY <1>1, <1>2, <1>3
  DEF PathInv, PostInv, RecordInv, AnswerInv, vars, loopVars

LEMMA PathInductive ==
    ASSUME ViewTypes, DispatchInv, [ReceiverNext]_receiverVars,
           \A d \in Dispatches : PathInv(d)
    PROVE  \A d \in Dispatches : PathInv(d)'
<1>1. ASSUME NEW c \in Dispatches,
             Post(c) \/ Verify(c) \/ RunHandlers(c) \/ Answer(c),
             NEW d \in Dispatches \ {c}
      PROVE  PathInv(d)'
  <2>1. body'[d] = body[d] /\ status'[d] = status[d] /\ ripe'[d] = ripe[d]
    BY <1>1 DEF Post, Verify, RunHandlers, Answer, viewVars, ViewTypes
  <2>2. DispatchStep(c) \/ UNCHANGED vars
    BY <1>1 DEF Post, Verify, RunHandlers, Answer, DispatchStep
  <2>3. /\ pc'[d] = pc[d] /\ verify'[d] = verify[d]
        /\ verdict'[d] = verdict[d] /\ outcome'[d] = outcome[d]
        /\ ran'[d] = ran[d]
    <3>1. CASE DispatchStep(c)
      BY <3>1, OthersUntouched DEF DispatchInv
    <3>2. CASE UNCHANGED vars
      BY <3>2 DEF vars, loopVars
    <3> QED
      BY <2>2, <3>1, <3>2
  <2> QED
    BY <2>1, <2>3, StillPath
<1>2. ASSUME NEW c \in Dispatches,
             Post(c) \/ Verify(c) \/ RunHandlers(c) \/ Answer(c)
      PROVE  \A d \in Dispatches : PathInv(d)'
  <2>1. PathInv(c)'
    BY <1>2, PostPath, VerifyPath, HandlersPath, AnswerPath
  <2> QED
    BY <1>1, <1>2, <2>1
<1>3. CASE \/ \E h \in Handlers, t \in EventTypes : Register(h, t)
           \/ \E t \in Transactions : Settle(t)
           \/ UNCHANGED receiverVars
  <2>1. UNCHANGED <<body, status, ripe, pc, verify, verdict, outcome, ran>>
    BY <1>3
    DEF Register, On, Settle, receiverVars, viewVars, vars, loopVars
  <2> QED
    BY <2>1, StillPath
<1> QED
  BY <1>2, <1>3 DEF ReceiverNext

LEMMA AlwaysPath == ReceiverSpec => []PathsInv
<1>1. ReceiverInit => PathsInv
  BY DEF ReceiverInit, Init, PathsInv, PathInv, PostInv, RecordInv, AnswerInv
<1>2. ViewTypes /\ DispatchInv /\ PathsInv /\ [ReceiverNext]_receiverVars
         => PathsInv'
  BY PathInductive DEF PathsInv
<1> QED
  BY <1>1, <1>2, ReceiverDispatches, AlwaysViewTypes, PTL DEF ReceiverSpec

(* No handler acts on a payment the server has not recorded as succeeded.  *)
THEOREM HandledBacked == ReceiverSpec => []HandledOnlyIfBacked
<1>1. DispatchInv /\ PathsInv => HandledOnlyIfBacked
  <2> SUFFICES ASSUME DispatchInv, PathsInv,
                      NEW d \in Dispatches, ViewVerify, ran[d] # << >>
               PROVE  Backed(body[d])
    BY DEF HandledOnlyIfBacked
  <2>1. pc[d] # "idle"
    BY DEF DispatchInv, LoopInv
  <2>2. verify[d]
    BY <2>1 DEF PathsInv, PathInv, PostInv
  <2>3. verdict[d] = "genuine"
    BY <2>2 DEF DispatchInv, VerdictInv
  <2> QED
    BY <2>3 DEF PathsInv, PathInv, RecordInv
<1> QED
  BY <1>1, AlwaysPath, ReceiverDispatches, PTL

(* A 200 is given only when every handler promised has run and returned.   *)
THEOREM AckHandled == ReceiverSpec => []AckMeansHandled
<1>1. DispatchInv /\ PathsInv => AckMeansHandled
  BY DEF AckMeansHandled, DispatchInv, OutcomeInv, PathsInv, PathInv, AnswerInv
<1> QED
  BY <1>1, AlwaysPath, ReceiverDispatches, PTL

(* A refusal is given before any handler ran.                              *)
THEOREM Untouched == ReceiverSpec => []RefusedUntouched
<1>1. DispatchInv /\ PathsInv => RefusedUntouched
  BY DEF RefusedUntouched, DispatchInv, LoopInv, PathsInv, PathInv, AnswerInv, RecordInv
<1> QED
  BY <1>1, AlwaysPath, ReceiverDispatches, PTL

(* An event whose payment was on record when it was posted is not refused. *)
THEOREM NotRefused == ReceiverSpec => []GenuineNotRefused
<1>1. PathsInv => GenuineNotRefused
  BY DEF GenuineNotRefused, PathsInv, PathInv, AnswerInv, RecordInv
<1> QED
  BY <1>1, AlwaysPath, PTL
-----------------------------------------------------------------------------
(* The refinement of WebhookDelivery.                                      *)

(* What PathInv does not say of a delivery's end: an answered one is at    *)
(* rest, one that is done has an outcome, and what stops it before the     *)
(* handlers is the verifier or the lack of one.                            *)
EndInv(d) ==
    /\ status[d] # "none" => pc[d] \in {"idle", "done"}
    /\ pc[d] = "verify" => verify[d]
    /\ pc[d] = "done" => outcome[d] # "none"
    /\ outcome[d] \in {"PSIPWebhookForgeryError", "verifier error",
                       "RuntimeError"}
          => verify[d] /\ ran[d] = << >>

EndsInv == \A d \in Dispatches : EndInv(d)

LEMMA MoverEnds ==
    ASSUME ViewTypes, DispatchInv, PathsInv, EndsInv, NEW d \in Dispatches,
           Post(d) \/ Verify(d) \/ RunHandlers(d) \/ Answer(d)
    PROVE  EndInv(d)'
<1>0. EndInv(d) /\ PathInv(d) /\ LoopInv(d) /\ OutcomeInv(d) /\ TypeOK
  BY DEF EndsInv, PathsInv, DispatchInv
<1>1. CASE Post(d)
  <2>1. /\ body[d] = NoBody /\ pc[d] = "idle" /\ status[d] = "none"
        /\ ran[d] = << >> /\ outcome[d] = "none"
    BY <1>0, <1>1
    DEF Post, PathInv, PostInv, LoopInv, OutcomeInv, TypeOK, Outcomes
  <2>2. CASE UNCHANGED vars
    BY <2>1, <2>2 DEF EndInv, vars, loopVars
  <2>3. CASE Dispatch(d) /\ UNCHANGED status
    BY <1>0, <2>1, <2>3 DEF EndInv, Dispatch, End, Goto, loopVars, TypeOK
  <2> QED
    BY <1>1, <2>2, <2>3 DEF Post
<1>2. CASE Verify(d)
  <2>1. /\ Verifier(d) /\ UNCHANGED status /\ pc[d] = "verify"
        /\ verify[d] /\ status[d] = "none" /\ ran[d] = << >>
        /\ outcome[d] = "none"
    BY <1>0, <1>2
    DEF Verify, Verifier, viewVars, EndInv, LoopInv, OutcomeInv
  <2> QED
    BY <1>0, <2>1 DEF Verifier, EndInv, End, Goto, loopVars, TypeOK
<1>3. CASE RunHandlers(d)
  <2>1. /\ status'[d] = status[d] /\ status[d] = "none"
        /\ outcome[d] = "none" /\ pc[d] \in {"verify", "lookup", "loop", "handler"}
    BY <1>0, <1>3
    DEF RunHandlers, viewVars, EndInv, OutcomeInv, Lookup, Invoke,
        HandlerReturns, HandlerRaises, Interrupt, Finish
  <2>2. /\ pc'[d] \in {"loop", "handler", "done"}
        /\ outcome'[d] \in {"none", "returned", "ExceptionGroup",
                            "BaseException"}
        /\ pc'[d] = "done" => outcome'[d] # "none"
    BY <1>0, <1>3, <2>1
    DEF RunHandlers, Lookup, Invoke, HandlerReturns, HandlerRaises, Interrupt,
        Finish, Goto, End, TypeOK
  <2> QED
    BY <2>1, <2>2 DEF EndInv
<1>4. CASE Answer(d)
  BY <1>0, <1>4 DEF Answer, EndInv, vars, loopVars
<1> QED
  BY <1>1, <1>2, <1>3, <1>4

LEMMA EndsInductive ==
    ASSUME ViewTypes, DispatchInv, PathsInv, EndsInv,
           [ReceiverNext]_receiverVars
    PROVE  EndsInv'
<1>1. ASSUME NEW c \in Dispatches,
             Post(c) \/ Verify(c) \/ RunHandlers(c) \/ Answer(c),
             NEW d \in Dispatches \ {c}
      PROVE  EndInv(d)'
  <2>1. status'[d] = status[d]
    BY <1>1 DEF Post, Verify, RunHandlers, Answer, viewVars, ViewTypes
  <2>2. DispatchStep(c) \/ UNCHANGED vars
    BY <1>1 DEF Post, Verify, RunHandlers, Answer, DispatchStep
  <2>3. /\ pc'[d] = pc[d] /\ verify'[d] = verify[d]
        /\ outcome'[d] = outcome[d] /\ ran'[d] = ran[d]
    <3>1. CASE DispatchStep(c)
      BY <3>1, OthersUntouched DEF DispatchInv
    <3>2. CASE UNCHANGED vars
      BY <3>2 DEF vars, loopVars
    <3> QED
      BY <2>2, <3>1, <3>2
  <2> QED
    BY <2>1, <2>3 DEF EndsInv, EndInv
<1>2. ASSUME NEW c \in Dispatches,
             Post(c) \/ Verify(c) \/ RunHandlers(c) \/ Answer(c)
      PROVE  EndsInv'
  BY <1>1, <1>2, MoverEnds DEF EndsInv
<1>3. CASE \/ \E h \in Handlers, t \in EventTypes : Register(h, t)
           \/ \E t \in Transactions : Settle(t)
           \/ UNCHANGED receiverVars
  <2>1. UNCHANGED <<status, pc, verify, outcome, ran>>
    BY <1>3
    DEF Register, On, Settle, receiverVars, viewVars, vars, loopVars
  <2> QED
    BY <2>1 DEF EndsInv, EndInv
<1> QED
  BY <1>2, <1>3 DEF ReceiverNext

ReceiverInv == ViewTypes /\ DispatchInv /\ PathsInv /\ EndsInv

LEMMA AlwaysReceiverInv == ReceiverSpec => []ReceiverInv
<1>1. ReceiverInit => EndsInv
  BY DEF ReceiverInit, Init, EndsInv, EndInv
<1>2. ViewTypes /\ DispatchInv /\ PathsInv /\ EndsInv
      /\ [ReceiverNext]_receiverVars => EndsInv'
  BY EndsInductive
<1> QED
  BY <1>1, <1>2, AlwaysPath, ReceiverDispatches, AlwaysViewTypes, PTL
  DEF ReceiverSpec, ReceiverInv

LEMMA SameRecord == ASSUME UNCHANGED records PROVE UNCHANGED OnRecord
BY DEF OnRecord, Backed

LEMMA SameTaken ==
    ASSUME NEW c \in Dispatches, DispatchInv, DispatchStep(c),
           TakenUp(c)' <=> TakenUp(c)
    PROVE  UNCHANGED Taken
<1>1. ASSUME NEW d \in Dispatches \ {c} PROVE TakenUp(d)' <=> TakenUp(d)
  BY OthersUntouched DEF DispatchInv, TakenUp
<1>2. \A d \in Dispatches : TakenUp(d)' <=> TakenUp(d)
  BY <1>1
<1> QED
  BY <1>2 DEF Taken

LEMMA NewlyTaken ==
    ASSUME NEW c \in Dispatches, DispatchInv, DispatchStep(c), TakenUp(c)'
    PROVE  Taken' = Taken \cup {c}
<1>1. ASSUME NEW d \in Dispatches \ {c} PROVE TakenUp(d)' <=> TakenUp(d)
  BY OthersUntouched DEF DispatchInv, TakenUp
<1> QED
  BY <1>1 DEF Taken

(* What a step that is none of the abstract specification's keeps.         *)
LEMMA Unseen ==
    ASSUME ReceiverInv, NEW d \in Dispatches, DispatchStep(d),
           UNCHANGED <<records, viewVars, handlers, promised, ran, failed>>,
           TakenUp(d)' <=> TakenUp(d)
    PROVE  UNCHANGED Delivery!vars
<1>1. UNCHANGED Taken
  BY SameTaken DEF ReceiverInv
<1>2. UNCHANGED OnRecord
  BY SameRecord
<1>3. UNCHANGED Due
  BY DEF Due, viewVars
<1> QED
  BY <1>1, <1>2, <1>3 DEF Delivery!vars, Delivery!requestVars, viewVars

LEMMA PostDelivers ==
    ASSUME ReceiverInv, NEW d \in Dispatches, Post(d)
    PROVE  Delivery!Post(d)
<1>1. PICK b \in Payloads :
         /\ body' = [body EXCEPT ![d] = b]
         /\ ripe' = [ripe EXCEPT ![d] = Backed(b)]
         /\ IF Parse(b) = "event"
            THEN Dispatch(d) /\ verify'[d] = ViewVerify /\ UNCHANGED status
            ELSE /\ status' = [status EXCEPT ![d] =
                       IF Parse(b) = "PSIPWebhookValidationError"
                       THEN "400" ELSE "500"]
                 /\ UNCHANGED vars
  BY DEF Post
<1>2. /\ body[d] = NoBody /\ UNCHANGED records /\ ~ripe[d]
      /\ pc[d] = "idle" /\ status[d] = "none" /\ outcome[d] = "none"
      /\ ran[d] = << >>
  BY DEF Post, ReceiverInv, PathsInv, PathInv, PostInv, DispatchInv, LoopInv,
         OutcomeInv, TypeOK, Outcomes
<1>3. b \in OnRecord <=> Backed(b)
  BY DEF OnRecord
<1>4. Due' = IF b \in OnRecord THEN Due \cup {d} ELSE Due
  <2>1. \A e \in Dispatches \ {d} : ripe'[e] = ripe[e]
    BY <1>1 DEF ReceiverInv, ViewTypes
  <2>2. ripe'[d] <=> Backed(b)
    BY <1>1 DEF ReceiverInv, ViewTypes
  <2> QED
    BY <1>2, <1>3, <2>1, <2>2 DEF Due
<1>5. UNCHANGED OnRecord
  BY <1>2, SameRecord
<1>6. CASE Parse(b) = "event"
  <2>1. Dispatch(d) /\ UNCHANGED status
    BY <1>1, <1>6
  <2>2. UNCHANGED <<handlers, promised, ran, failed>>
    BY <2>1 DEF Dispatch, loopVars
  <2>3. ~TakenUp(d) /\ ~TakenUp(d)'
    BY <1>2, <2>1 DEF TakenUp, Dispatch, End, Goto, loopVars, ReceiverInv,
                      DispatchInv, TypeOK
  <2>4. UNCHANGED Taken
    BY <2>1, <2>3, SameTaken DEF DispatchStep, ReceiverInv
  <2> QED
    BY <1>1, <1>2, <1>4, <1>5, <2>1, <2>2, <2>4 DEF Delivery!Post
<1>7. CASE Parse(b) # "event"
  <2>1. /\ UNCHANGED vars
        /\ \E a \in {"400", "500"} : status' = [status EXCEPT ![d] = a]
    BY <1>1, <1>7
  <2>2. b \notin OnRecord
    BY <1>3, <1>7 DEF Parse, Backed
  <2>3. UNCHANGED <<handlers, promised, ran, failed>>
    BY <2>1 DEF vars, loopVars
  <2>4. UNCHANGED Taken
    BY <2>1 DEF Taken, TakenUp, vars, loopVars
  <2> QED
    BY <1>1, <1>2, <1>4, <1>5, <2>1, <2>2, <2>3, <2>4 DEF Delivery!Post
<1> QED
  BY <1>6, <1>7

LEMMA LookupDelivers ==
    ASSUME ReceiverInv, NEW d \in Dispatches, Lookup(d),
           UNCHANGED <<records, viewVars>>
    PROVE  Delivery!TakeUp(d)
<1>1. /\ pc[d] = "lookup" /\ pc' = [pc EXCEPT ![d] = "loop"]
      /\ promised' = [promised EXCEPT ![d] = Len(handlers[EventType])]
      /\ UNCHANGED <<handlers, ran, failed>>
  BY DEF Lookup, Goto
<1>2. /\ body[d] \in Payloads /\ verify[d] = ViewVerify /\ status[d] = "none"
      /\ ran[d] = << >> /\ outcome[d] = "none"
      /\ verify[d] => verdict[d] = "genuine"
      /\ verdict[d] = "genuine" => Backed(body[d])
  BY <1>1 DEF ReceiverInv, EndsInv, EndInv, PathsInv, PathInv, PostInv,
              RecordInv, DispatchInv, LoopInv, VerdictInv, OutcomeInv
<1>3. body[d] # NoBody /\ (ViewVerify => body[d] \in OnRecord)
  BY <1>2, ReceiverAssumption DEF OnRecord
<1>4. ~TakenUp(d)
  BY <1>1, <1>2 DEF TakenUp
<1>5. Taken' = Taken \cup {d} /\ d \notin Taken
  <2>1. TakenUp(d)'
    BY <1>1 DEF TakenUp, ReceiverInv, DispatchInv, TypeOK
  <2> QED
    BY <1>4, <2>1, NewlyTaken DEF DispatchStep, ReceiverInv, Taken
<1>6. UNCHANGED OnRecord /\ UNCHANGED Due
  BY SameRecord DEF Due, viewVars
<1> QED
  BY <1>1, <1>2, <1>3, <1>5, <1>6
  DEF Delivery!TakeUp, Delivery!Waiting, viewVars

(* A dispatch that is at the handlers is one of a request that waits and   *)
(* was taken up.                                                           *)
LEMMA AtHandlers ==
    ASSUME ReceiverInv, NEW d \in Dispatches, pc[d] \in {"loop", "handler"}
    PROVE  Delivery!Waiting(d) /\ d \in Taken /\ TakenUp(d)
<1>1. body[d] # NoBody /\ status[d] = "none"
  BY ReceiverAssumption
  DEF ReceiverInv, EndsInv, EndInv, PathsInv, PathInv, PostInv
<1> QED
  BY <1>1 DEF Delivery!Waiting, Taken, TakenUp

LEMMA InvokeDelivers ==
    ASSUME ReceiverInv, NEW d \in Dispatches, Invoke(d),
           UNCHANGED <<records, viewVars>>
    PROVE  Delivery!Handle(d)
<1>1. /\ pc[d] = "loop" /\ next[d] = Len(ran[d]) + 1
      /\ ~(next[d] > Len(handlers[EventType]))
      /\ ran' = [ran EXCEPT ![d] =
                    Append(ran[d], handlers[EventType][next[d]])]
      /\ UNCHANGED <<handlers, promised, failed>>
  BY DEF Invoke, Exhausted, ReceiverInv, DispatchInv, LoopInv
<1>2. Len(ran[d]) < Len(handlers[EventType])
  BY <1>1, EventTypeAssumption DEF ReceiverInv, DispatchInv, TypeOK
<1>3. TakenUp(d)'
  BY DEF Invoke, Goto, TakenUp, ReceiverInv, DispatchInv, TypeOK
<1>4. UNCHANGED Taken
  BY <1>1, <1>3, AtHandlers, SameTaken DEF DispatchStep, ReceiverInv
<1>5. UNCHANGED OnRecord /\ UNCHANGED Due
  BY SameRecord DEF Due, viewVars
<1> QED
  BY <1>1, <1>2, <1>4, <1>5, AtHandlers DEF Delivery!Handle, viewVars

LEMMA FailureDelivers ==
    ASSUME ReceiverInv, NEW d \in Dispatches, HandlerRaises(d),
           UNCHANGED <<records, viewVars>>
    PROVE  Delivery!Fail(d)
<1>1. /\ pc[d] = "handler" /\ ran[d] # << >>
      /\ failed' = [failed EXCEPT ![d] = failed[d] \cup {ran[d][Len(ran[d])]}]
      /\ UNCHANGED <<handlers, promised, ran>>
  BY DEF HandlerRaises, Current, ReceiverInv, DispatchInv, LoopInv
<1>2. TakenUp(d)'
  BY <1>1 DEF TakenUp
<1>3. UNCHANGED Taken
  BY <1>1, <1>2, AtHandlers, SameTaken DEF DispatchStep, ReceiverInv
<1>4. UNCHANGED OnRecord /\ UNCHANGED Due
  BY SameRecord DEF Due, viewVars
<1> QED
  BY <1>1, <1>3, <1>4, AtHandlers DEF Delivery!Fail, viewVars

LEMMA AnswerDelivers ==
    ASSUME ReceiverInv, NEW d \in Dispatches, Answer(d)
    PROVE  Delivery!Answer(d)
<1>1. /\ pc[d] = "done" /\ status[d] = "none"
      /\ status' = [status EXCEPT ![d] = StatusOf(outcome[d])]
      /\ UNCHANGED <<vars, records, body, ripe>>
  BY DEF Answer
<1>2. body[d] # NoBody /\ verify[d] = ViewVerify
  BY <1>1, ReceiverAssumption DEF ReceiverInv, PathsInv, PathInv, PostInv
<1>3. outcome[d] \in Outcomes
  BY <1>1
  DEF ReceiverInv, EndsInv, EndInv, DispatchInv, TypeOK
<1>4. Delivery!MayAnswer(d, StatusOf(outcome[d]))
      /\ StatusOf(outcome[d]) \in {"200", "403", "500", "dropped"}
  <2>1. CASE outcome[d] \in {"returned", "ExceptionGroup"}
    <3>1. d \in Taken
      BY <2>1 DEF Taken, TakenUp
    <3> QED
      BY <2>1, <3>1 DEF Delivery!MayAnswer, Delivery!Handled, StatusOf,
         ReceiverInv, DispatchInv, OutcomeInv
  <2>2. CASE outcome[d] \in {"PSIPWebhookForgeryError", "verifier error",
                             "RuntimeError"}
    <3>1. ViewVerify /\ ran[d] = << >>
      BY <1>2, <2>2 DEF ReceiverInv, EndsInv, EndInv
    <3>2. d \notin Taken
      BY <1>1, <2>2, <3>1 DEF Taken, TakenUp
    <3>3. outcome[d] = "PSIPWebhookForgeryError" => d \notin Due
      BY DEF Due, ReceiverInv, PathsInv, PathInv, RecordInv
    <3> QED
      BY <2>2, <3>1, <3>2, <3>3 DEF Delivery!MayAnswer, StatusOf
  <2>3. CASE outcome[d] = "BaseException"
    BY <2>3 DEF Delivery!MayAnswer, StatusOf
  <2> QED
    BY <1>3, <2>1, <2>2, <2>3 DEF Outcomes
<1>5. /\ UNCHANGED <<handlers, promised, ran, failed>>
      /\ UNCHANGED Taken /\ UNCHANGED OnRecord /\ UNCHANGED Due
  BY <1>1, SameRecord DEF vars, loopVars, Taken, TakenUp, Due
<1> QED
  BY <1>1, <1>2, <1>4, <1>5 DEF Delivery!Answer, Delivery!Waiting

(* Registering and recording.                                              *)
LEMMA RegisterDelivers ==
    ASSUME ReceiverInv, NEW h \in Handlers, NEW t \in EventTypes,
           Register(h, t)
    PROVE  Delivery!Register(h) \/ UNCHANGED Delivery!vars
<1>1. /\ \/ handlers'[EventType] = Append(handlers[EventType], h)
         \/ handlers'[EventType] = handlers[EventType]
      /\ UNCHANGED <<pc, outcome, loopVars, records, viewVars>>
  BY EventTypeAssumption
  DEF Register, On, ReceiverInv, DispatchInv, TypeOK
<1>2. UNCHANGED Taken /\ UNCHANGED OnRecord /\ UNCHANGED Due
  BY <1>1, SameRecord DEF Taken, TakenUp, Due, loopVars, viewVars
<1> QED
  BY <1>1, <1>2
  DEF Delivery!Register, Delivery!vars, Delivery!requestVars, loopVars, viewVars

LEMMA SettleDelivers ==
    ASSUME ReceiverInv, NEW t \in Transactions, Settle(t)
    PROVE  Delivery!Record
<1>1. OnRecord \subseteq OnRecord' /\ OnRecord' \subseteq Payloads
  <2>1. [ReceiverNext]_receiverVars
    BY DEF ReceiverNext
  <2> QED
    BY <2>1, BackedStays DEF OnRecord, ReceiverInv
<1>2. UNCHANGED <<vars, viewVars>>
  BY DEF Settle
<1>3. UNCHANGED Taken /\ UNCHANGED Due
  BY <1>2 DEF Taken, TakenUp, Due, vars, loopVars, viewVars
<1> QED
  BY <1>1, <1>2, <1>3
  DEF Delivery!Record, Delivery!requestVars, vars, loopVars, viewVars

(* View, parser, verifier and dispatcher implement WebhookDelivery: an     *)
(* event is handed on only if it is on record, to the handlers in their    *)
(* order, each once; it is answered once, by what the handlers did, and    *)
(* nothing happens to it after that.                                       *)
THEOREM ReceiverDelivers == ReceiverSpec => DeliversAsPromised
<1>1. ASSUME ReceiverInit PROVE Delivery!Init
  <2>1. Taken = {} /\ Due = {} /\ OnRecord = {}
    <3>1. \A b \in Payloads : ~Backed(b)
      BY <1>1, ReceiverAssumption DEF ReceiverInit, Backed, BrokenBodies
    <3> QED
      BY <1>1, <3>1 DEF ReceiverInit, Init, Taken, TakenUp, Due, OnRecord
  <2> QED
    BY <1>1, <2>1, EventTypeAssumption DEF ReceiverInit, Init, Delivery!Init
<1>2. ASSUME ReceiverInv, [ReceiverNext]_receiverVars
      PROVE  [Delivery!Next]_(Delivery!vars)
  <2> USE <1>2
  <2>1. ASSUME NEW d \in Dispatches, Verify(d) PROVE UNCHANGED Delivery!vars
    <3>1. /\ Verifier(d) /\ ~TakenUp(d)
          /\ UNCHANGED <<records, viewVars, handlers, promised, ran, failed>>
      BY <2>1 DEF Verify, Verifier, TakenUp, ReceiverInv, DispatchInv, LoopInv,
                  OutcomeInv, loopVars
    <3>2. ran'[d] = << >> /\ outcome[d] = "none" /\ pc[d] = "verify"
      BY <3>1 DEF Verifier, ReceiverInv, DispatchInv, LoopInv, OutcomeInv
    <3>3. /\ pc'[d] \in {"lookup", "done"}
          /\ outcome'[d] \in {"none", "PSIPWebhookForgeryError",
                              "verifier error"}
      BY <3>1, <3>2 DEF Verifier, End, Goto, ReceiverInv, DispatchInv, TypeOK
    <3>4. ~TakenUp(d)'
      BY <3>2, <3>3 DEF TakenUp
    <3> QED
      BY <3>1, <3>4, Unseen DEF DispatchStep
  <2>2. ASSUME NEW d \in Dispatches,
               HandlerReturns(d) \/ Interrupt(d) \/ Finish(d),
               UNCHANGED <<records, viewVars>>
        PROVE  UNCHANGED Delivery!vars
    <3>1. UNCHANGED <<handlers, promised, ran, failed>>
      BY <2>2 DEF HandlerReturns, Interrupt, Finish, loopVars
    <3>2. TakenUp(d)' <=> TakenUp(d)
      <4>1. outcome[d] = "none"
        BY <2>2 DEF HandlerReturns, Interrupt, Finish, ReceiverInv,
                    DispatchInv, OutcomeInv
      <4>2. CASE HandlerReturns(d)
        BY <4>1, <4>2 DEF HandlerReturns, Goto, TakenUp, ReceiverInv,
                     DispatchInv, TypeOK
      <4>3. CASE Interrupt(d)
        BY <4>1, <4>3, <3>1 DEF Interrupt, End, TakenUp, ReceiverInv,
                     DispatchInv, LoopInv, TypeOK
      <4>4. CASE Finish(d)
        BY <4>1, <4>4, <3>1 DEF Finish, End, TakenUp, ReceiverInv,
                     DispatchInv, TypeOK
      <4> QED
        BY <2>2, <4>2, <4>3, <4>4
    <3> QED
      BY <2>2, <3>1, <3>2, Unseen DEF DispatchStep
  <2>3. ASSUME NEW d \in Dispatches, RunHandlers(d)
        PROVE  \/ Delivery!TakeUp(d) \/ Delivery!Handle(d) \/ Delivery!Fail(d)
               \/ UNCHANGED Delivery!vars
    BY <2>2, <2>3, LookupDelivers, InvokeDelivers, FailureDelivers
    DEF RunHandlers
  <2>4. ASSUME UNCHANGED receiverVars PROVE UNCHANGED Delivery!vars
    <3>1. UNCHANGED Taken /\ UNCHANGED OnRecord /\ UNCHANGED Due
      BY <2>4, SameRecord
      DEF Taken, TakenUp, Due, receiverVars, vars, loopVars, viewVars
    <3> QED
      BY <2>4, <3>1 DEF Delivery!vars, Delivery!requestVars, receiverVars,
                        vars, loopVars, viewVars
  <2>5. ASSUME ReceiverNext PROVE Delivery!Next \/ UNCHANGED Delivery!vars
    BY <2>1, <2>3, <2>5, PostDelivers, AnswerDelivers, RegisterDelivers,
       SettleDelivers
    DEF ReceiverNext, Delivery!Next
  <2> QED
    BY <2>4, <2>5
<1> QED
  BY <1>1, <1>2, AlwaysReceiverInv, PTL
  DEF ReceiverSpec, DeliversAsPromised, Delivery!Spec
=============================================================================

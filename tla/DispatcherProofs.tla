-------------------------- MODULE DispatcherProofs --------------------------
(***************************************************************************)
(* What holds of Dispatcher for any number of deliveries and handlers.     *)
(***************************************************************************)
EXTENDS Dispatcher, TLAPS

(* An appended sequence keeps its old elements.                            *)
LEMMA Appended ==
    ASSUME NEW S, NEW s \in Seq(S), NEW x \in S
    PROVE  /\ Append(s, x) \in Seq(S)
           /\ Len(Append(s, x)) = Len(s) + 1
           /\ \A i \in 1..Len(s) : Append(s, x)[i] = s[i]
           /\ Append(s, x)[Len(s) + 1] = x
  OBVIOUS

(* What one delivery's variables have to do with each other and with the   *)
(* list of handlers: the iterator's index, what was invoked so far and     *)
(* what was promised; the collected errors and the failures; the verdict.  *)
LoopInv(d) ==
    /\ next[d] = Len(ran[d]) + 1
    /\ Len(ran[d]) <= Len(handlers[EventType])
    /\ \A i \in 1..Len(ran[d]) : ran[d][i] = handlers[EventType][i]
    /\ promised[d] <= Len(handlers[EventType])
    /\ ~live[d] => promised[d] = 0
    /\ pc[d] = "handler" => ran[d] # << >>
    /\ pc[d] \in {"idle", "verify", "lookup"} => ran[d] = << >>

FailureInv(d) ==
    /\ errors[d] = << >> => failed[d] = {}
    /\ errors[d] # << >> => failed[d] # {}
    /\ \A h \in failed[d] : \E i \in 1..Len(errors[d]) : errors[d][i] = h

VerdictInv(d) ==
    /\ pc[d] = "verify" => hasVerifier
    /\ verify[d] /\ (pc[d] \in {"lookup", "loop", "handler"} \/ ran[d] # << >>)
        => hasVerifier /\ verdict[d] = "genuine"

OutcomeInv(d) ==
    /\ outcome[d] # "none" => pc[d] = "done"
    /\ outcome[d] \in {"returned", "ExceptionGroup"} => promised[d] <= Len(ran[d])
    /\ outcome[d] = "returned" => failed[d] = {}
    /\ outcome[d] = "ExceptionGroup" => failed[d] # {}

DispatchInv ==
    /\ TypeOK
    /\ \A d \in Dispatches :
          LoopInv(d) /\ FailureInv(d) /\ VerdictInv(d) /\ OutcomeInv(d)

LEMMA TypeInductive ==
    ASSUME TypeOK, [Next]_vars,
           \A d \in Dispatches : LoopInv(d)
    PROVE  TypeOK'
<1> USE EventTypeAssumption DEF TypeOK
<1>1. ASSUME NEW h \in Handlers, NEW t \in EventTypes, On(h, t)
      PROVE  TypeOK'
  <2>1. Append(handlers[t], h) \in Seq(Handlers)
    OBVIOUS
  <2>2. handlers' \in [EventTypes -> Seq(Handlers)]
    BY <1>1, <2>1 DEF On
  <2> QED
    BY <1>1, <2>2 DEF On, loopVars
<1>2. ASSUME NEW d \in Dispatches, Dispatch(d) PROVE TypeOK'
  BY <1>2 DEF Dispatch, Goto, End, Outcomes, loopVars
<1>3. ASSUME NEW d \in Dispatches, Verifier(d) PROVE TypeOK'
  <2>1. PICK v \in Verdicts :
          /\ verdict' = [verdict EXCEPT ![d] = v]
          /\ IF Passes(v) THEN Goto(d, "lookup")
             ELSE End(d, IF v = "forged" THEN "PSIPWebhookForgeryError"
                                         ELSE "verifier error")
    BY <1>3 DEF Verifier
  <2>2. UNCHANGED <<hasVerifier, handlers, verify, loopVars>>
    BY <1>3 DEF Verifier
  <2> QED
    BY <2>1, <2>2 DEF Goto, End, Outcomes, loopVars
<1>4. ASSUME NEW d \in Dispatches, Lookup(d) PROVE TypeOK'
  <2>1. Len(handlers[EventType]) \in Nat
    OBVIOUS
  <2> QED
    BY <1>4, <2>1 DEF Lookup, Goto
<1>5. ASSUME NEW d \in Dispatches, Invoke(d) PROVE TypeOK'
  <2>1. next[d] \in 1..Len(handlers[EventType])
    BY <1>5 DEF Invoke, Exhausted
  <2>2. handlers[EventType][next[d]] \in Handlers
    BY <2>1
  <2>3. Append(ran[d], handlers[EventType][next[d]]) \in Seq(Handlers)
    BY <2>2
  <2> QED
    BY <1>5, <2>3 DEF Invoke, Goto
<1>6. ASSUME NEW d \in Dispatches, HandlerReturns(d) PROVE TypeOK'
  BY <1>6 DEF HandlerReturns, Goto, loopVars
<1>7. ASSUME NEW d \in Dispatches, HandlerRaises(d) PROVE TypeOK'
  <2>1. Current(d) \in Handlers
    BY <1>7 DEF HandlerRaises, LoopInv, Current
  <2>2. Append(errors[d], Current(d)) \in Seq(Handlers)
    BY <2>1
  <2> QED
    BY <1>7, <2>1, <2>2 DEF HandlerRaises, Goto, Collect
<1>8. ASSUME NEW d \in Dispatches, Interrupt(d) PROVE TypeOK'
  BY <1>8 DEF Interrupt, End, Outcomes, loopVars
<1>9. ASSUME NEW d \in Dispatches, Finish(d) PROVE TypeOK'
  BY <1>9 DEF Finish, End, Outcomes, loopVars
<1>10. CASE UNCHANGED vars
  BY <1>10 DEF vars, loopVars
<1> QED
  BY <1>1, <1>2, <1>3, <1>4, <1>5, <1>6, <1>7, <1>8, <1>9, <1>10
  DEF Next, DispatchStep

(* A registration only lengthens a list: what loops have done stays done.  *)
LEMMA OnKeepsInv ==
    ASSUME DispatchInv, NEW h \in Handlers, NEW t \in EventTypes, On(h, t)
    PROVE  \A d \in Dispatches : (LoopInv(d) /\ FailureInv(d)
                                  /\ VerdictInv(d) /\ OutcomeInv(d))'
<1> SUFFICES ASSUME NEW d \in Dispatches
             PROVE  (LoopInv(d) /\ FailureInv(d)
                     /\ VerdictInv(d) /\ OutcomeInv(d))'
  OBVIOUS
<1> DEFINE old == handlers[EventType]
           new == handlers'[EventType]
<1>1. /\ old \in Seq(Handlers)
      /\ LoopInv(d) /\ FailureInv(d) /\ VerdictInv(d) /\ OutcomeInv(d)
  BY EventTypeAssumption DEF DispatchInv, TypeOK
<1>2. new = old \/ new = Append(old, h)
  BY EventTypeAssumption DEF On, DispatchInv, TypeOK
<1>3. Len(new) >= Len(old) /\ \A i \in 1..Len(old) : new[i] = old[i]
  BY <1>1, <1>2, Appended
<1>4. UNCHANGED <<hasVerifier, pc, verify, verdict, outcome, loopVars>>
  BY DEF On
<1>5. Len(ran[d]) \in Nat /\ promised[d] \in Nat
      /\ Len(old) \in Nat /\ Len(new) \in Nat
  BY <1>1, <1>2, Appended DEF DispatchInv, TypeOK
<1>6. LoopInv(d)'
  BY <1>1, <1>3, <1>4, <1>5 DEF LoopInv, loopVars
<1> QED
  BY <1>1, <1>4, <1>6 DEF FailureInv, VerdictInv, OutcomeInv, loopVars

(* A step of one delivery leaves the others' variables alone.              *)
LEMMA OthersUntouched ==
    ASSUME TypeOK, NEW c \in Dispatches, DispatchStep(c),
           NEW d \in Dispatches \ {c}
    PROVE  /\ UNCHANGED <<hasVerifier, handlers>>
           /\ pc'[d] = pc[d] /\ verify'[d] = verify[d]
           /\ verdict'[d] = verdict[d] /\ outcome'[d] = outcome[d]
           /\ live'[d] = live[d] /\ next'[d] = next[d]
           /\ errors'[d] = errors[d] /\ promised'[d] = promised[d]
           /\ ran'[d] = ran[d] /\ failed'[d] = failed[d]
<1> USE DEF TypeOK, loopVars, Goto, End
<1>1. CASE Dispatch(c) \/ Verifier(c)
  BY <1>1 DEF Dispatch, Verifier
<1>2. CASE Lookup(c)
  BY <1>2 DEF Lookup
<1>3. CASE Invoke(c)
  BY <1>3 DEF Invoke
<1>4. CASE HandlerReturns(c) \/ Interrupt(c) \/ Finish(c)
  BY <1>4 DEF HandlerReturns, Interrupt, Finish
<1>5. CASE HandlerRaises(c)
  BY <1>5 DEF HandlerRaises
<1> QED
  BY <1>1, <1>2, <1>3, <1>4, <1>5 DEF DispatchStep

(* The step a delivery makes keeps its own invariant.                      *)
LEMMA StepKeepsInv ==
    ASSUME DispatchInv, NEW d \in Dispatches, DispatchStep(d)
    PROVE  (LoopInv(d) /\ FailureInv(d) /\ VerdictInv(d) /\ OutcomeInv(d))'
<1> DEFINE list == handlers[EventType]
<1>1. /\ TypeOK
      /\ LoopInv(d) /\ FailureInv(d) /\ VerdictInv(d) /\ OutcomeInv(d)
  BY DEF DispatchInv
<1>2. /\ list \in Seq(Handlers) /\ Len(list) \in Nat
      /\ ran[d] \in Seq(Handlers) /\ Len(ran[d]) \in Nat
      /\ errors[d] \in Seq(Handlers) /\ Len(errors[d]) \in Nat
      /\ next[d] \in Nat /\ promised[d] \in Nat
  BY <1>1, EventTypeAssumption DEF TypeOK
<1> USE DEF LoopInv, FailureInv, VerdictInv, OutcomeInv
<1>3. CASE Dispatch(d)
  <2>1. /\ pc[d] = "idle" /\ UNCHANGED <<hasVerifier, handlers, verdict>>
        /\ UNCHANGED loopVars
    BY <1>3 DEF Dispatch
  <2>2. \/ pc'[d] = "done" /\ outcome'[d] = "RuntimeError"
        \/ pc'[d] = "verify" /\ hasVerifier /\ outcome'[d] = outcome[d]
        \/ pc'[d] = "lookup" /\ ~verify'[d] /\ outcome'[d] = outcome[d]
    BY <1>1, <1>3 DEF Dispatch, Goto, End, TypeOK
  <2> QED
    BY <1>1, <2>1, <2>2 DEF loopVars
<1>4. CASE Verifier(d)
  <2>1. /\ pc[d] = "verify"
        /\ UNCHANGED <<hasVerifier, handlers, verify, loopVars>>
    BY <1>4 DEF Verifier
  <2>2. \/ pc'[d] = "lookup" /\ verdict'[d] = "genuine"
           /\ outcome'[d] = outcome[d]
        \/ /\ pc'[d] = "done"
           /\ outcome'[d] \in {"PSIPWebhookForgeryError", "verifier error"}
    <3>1. PICK v \in Verdicts :
            /\ verdict' = [verdict EXCEPT ![d] = v]
            /\ IF Passes(v) THEN Goto(d, "lookup")
               ELSE End(d, IF v = "forged" THEN "PSIPWebhookForgeryError"
                                           ELSE "verifier error")
      BY <1>4 DEF Verifier
    <3>2. CASE v = "genuine"
      BY <1>1, <3>1, <3>2 DEF Passes, Goto, TypeOK
    <3>3. CASE v # "genuine"
      <4>1. PICK o \in {"PSIPWebhookForgeryError", "verifier error"} : End(d, o)
        BY <3>1, <3>3 DEF Passes
      <4> QED
        BY <1>1, <4>1 DEF End, TypeOK
    <3> QED
      BY <3>2, <3>3
  <2> QED
    BY <1>1, <2>1, <2>2 DEF loopVars
<1>5. CASE Lookup(d)
  <2>1. /\ pc[d] = "lookup" /\ pc'[d] = "loop"
        /\ promised'[d] = Len(list)
        /\ live'[d] <=> list # << >>
        /\ UNCHANGED <<hasVerifier, handlers, verify, verdict,
                       next, errors, ran, failed, outcome>>
    BY <1>1, <1>5 DEF Lookup, Goto, TypeOK
  <2>2. list = << >> => Len(list) = 0
    OBVIOUS
  <2> QED
    BY <1>1, <1>2, <2>1, <2>2
<1>6. CASE Invoke(d)
  <2>1. /\ pc[d] = "loop" /\ pc'[d] = "handler" /\ next[d] <= Len(list)
        /\ live[d]
        /\ ran'[d] = Append(ran[d], list[next[d]])
        /\ next'[d] = next[d] + 1
        /\ UNCHANGED <<hasVerifier, handlers, verify, verdict, live, errors,
                       promised, failed, outcome>>
    BY <1>1, <1>6 DEF Invoke, Exhausted, Goto, TypeOK
  <2>2. list[next[d]] \in Handlers
    BY <1>1, <1>2, <2>1
  <2>3. /\ Len(ran'[d]) = Len(ran[d]) + 1
        /\ \A i \in 1..Len(ran[d]) : ran'[d][i] = ran[d][i]
        /\ ran'[d][Len(ran[d]) + 1] = list[next[d]]
    BY <1>2, <2>1, <2>2, Appended
  <2>4. ran'[d] # << >>
    BY <1>2, <2>3
  <2>5. LoopInv(d)'
    BY <1>1, <1>2, <2>1, <2>3, <2>4
  <2> QED
    BY <1>1, <2>1, <2>5
<1>7. CASE HandlerReturns(d)
  <2>1. /\ pc[d] = "handler" /\ pc'[d] = "loop" /\ ran[d] # << >>
        /\ UNCHANGED <<hasVerifier, handlers, verify, verdict, outcome>>
        /\ UNCHANGED loopVars
    BY <1>1, <1>7 DEF HandlerReturns, Goto, TypeOK
  <2> QED
    BY <1>1, <2>1 DEF loopVars
<1>8. CASE HandlerRaises(d)
  <2>1. /\ pc[d] = "handler" /\ pc'[d] = "loop" /\ ran[d] # << >>
        /\ errors'[d] = Append(errors[d], Current(d))
        /\ failed'[d] = failed[d] \cup {Current(d)}
        /\ UNCHANGED <<hasVerifier, handlers, verify, verdict, outcome,
                       live, next, promised, ran>>
    BY <1>1, <1>8 DEF HandlerRaises, Collect, Goto, TypeOK
  <2>2. Current(d) \in Handlers
    BY <1>2, <2>1 DEF Current
  <2>3. /\ Len(errors'[d]) = Len(errors[d]) + 1
        /\ \A i \in 1..Len(errors[d]) : errors'[d][i] = errors[d][i]
        /\ errors'[d][Len(errors[d]) + 1] = Current(d)
    BY <1>2, <2>1, <2>2, Appended
  <2>4. errors'[d] # << >> /\ failed'[d] # {}
    BY <1>2, <2>1, <2>3
  <2>5. \A h \in failed'[d] : \E i \in 1..Len(errors'[d]) : errors'[d][i] = h
    BY <1>1, <1>2, <2>1, <2>3
  <2>6. FailureInv(d)'
    BY <2>4, <2>5
  <2> QED
    BY <1>1, <2>1, <2>6
<1>9. CASE Interrupt(d)
  <2>1. /\ pc'[d] = "done" /\ outcome'[d] = "BaseException"
        /\ pc[d] \in {"verify", "handler"}
        /\ UNCHANGED <<hasVerifier, handlers, verify, verdict>>
        /\ UNCHANGED loopVars
    BY <1>1, <1>9 DEF Interrupt, End, TypeOK
  <2> QED
    BY <1>1, <2>1 DEF loopVars
<1>10. CASE Finish(d)
  <2>1. /\ pc[d] = "loop" /\ pc'[d] = "done"
        /\ outcome'[d] = IF errors[d] = << >> THEN "returned"
                         ELSE "ExceptionGroup"
        /\ ~live[d] \/ next[d] > Len(list)
        /\ UNCHANGED <<hasVerifier, handlers, verify, verdict>>
        /\ UNCHANGED loopVars
    BY <1>1, <1>10 DEF Finish, Exhausted, End, TypeOK
  <2>2. promised[d] <= Len(ran[d])
    BY <1>1, <1>2, <2>1
  <2> QED
    BY <1>1, <2>1, <2>2 DEF loopVars
<1> QED
  BY <1>3, <1>4, <1>5, <1>6, <1>7, <1>8, <1>9, <1>10 DEF DispatchStep

LEMMA DispatchInvInductive ==
    ASSUME DispatchInv, [Next]_vars PROVE DispatchInv'
<1>1. TypeOK'
  BY TypeInductive DEF DispatchInv
<1>2. ASSUME NEW h \in Handlers, NEW t \in EventTypes, On(h, t)
      PROVE  DispatchInv'
  BY <1>1, <1>2, OnKeepsInv DEF DispatchInv
<1>3. ASSUME NEW c \in Dispatches, DispatchStep(c) PROVE DispatchInv'
  <2>1. ASSUME NEW d \in Dispatches \ {c}
        PROVE  (LoopInv(d) /\ FailureInv(d) /\ VerdictInv(d) /\ OutcomeInv(d))'
    <3>1. /\ TypeOK
          /\ LoopInv(d) /\ FailureInv(d) /\ VerdictInv(d) /\ OutcomeInv(d)
      BY DEF DispatchInv
    <3>2. /\ UNCHANGED <<hasVerifier, handlers>>
          /\ pc'[d] = pc[d] /\ verify'[d] = verify[d]
          /\ verdict'[d] = verdict[d] /\ outcome'[d] = outcome[d]
          /\ live'[d] = live[d] /\ next'[d] = next[d]
          /\ errors'[d] = errors[d] /\ promised'[d] = promised[d]
          /\ ran'[d] = ran[d] /\ failed'[d] = failed[d]
      BY <1>3, <3>1, OthersUntouched
    <3> QED
      BY <3>1, <3>2 DEF LoopInv, FailureInv, VerdictInv, OutcomeInv
  <2> QED
    BY <1>1, <1>3, <2>1, StepKeepsInv DEF DispatchInv
<1>4. CASE UNCHANGED vars
  BY <1>1, <1>4
  DEF DispatchInv, vars, loopVars, LoopInv, FailureInv, VerdictInv, OutcomeInv
<1> QED
  BY <1>2, <1>3, <1>4 DEF Next

LEMMA AlwaysDispatchInv == Spec => []DispatchInv
<1>1. ASSUME Init PROVE DispatchInv
  <2>1. << >> \in Seq(Handlers) /\ Len(<< >>) = 0
    OBVIOUS
  <2>2. TypeOK
    BY <1>1, <2>1 DEF Init, TypeOK
  <2> QED
    BY <1>1, <2>1, <2>2, EventTypeAssumption
    DEF Init, DispatchInv, LoopInv, FailureInv, VerdictInv, OutcomeInv
<1> QED
  BY <1>1, DispatchInvInductive, PTL DEF Spec

(* Types, whatever the deliveries and registrations do.                    *)
THEOREM TypeCorrect == Spec => []TypeOK
<1>1. DispatchInv => TypeOK
  BY DEF DispatchInv
<1> QED
  BY <1>1, AlwaysDispatchInv, PTL

(* A dispatch that ends normally has run every handler it found, in order. *)
THEOREM HandlersRan == Spec => []EveryHandlerRan
<1>1. DispatchInv => EveryHandlerRan
  BY DEF DispatchInv, EveryHandlerRan, LoopInv, OutcomeInv
<1> QED
  BY <1>1, AlwaysDispatchInv, PTL

(* dispatch() returns only when no handler raised, and its group names all *)
(* that did.                                                               *)
THEOREM FailuresReported == Spec => []NoFailureSwallowed
<1>1. DispatchInv => NoFailureSwallowed
  BY DEF DispatchInv, NoFailureSwallowed, FailureInv, OutcomeInv
<1> QED
  BY <1>1, AlwaysDispatchInv, PTL

(* No handler sees an event before the verifier has accepted it.           *)
THEOREM VerificationFirst == Spec => []VerifiedBeforeHandled
<1>1. DispatchInv => VerifiedBeforeHandled
  BY DEF DispatchInv, VerifiedBeforeHandled, VerdictInv
<1> QED
  BY <1>1, AlwaysDispatchInv, PTL
-----------------------------------------------------------------------------
(* The end of every dispatch, but for the fairness.                        *)

LEMMA Lengths ==
    ASSUME DispatchInv, NEW d \in Dispatches
    PROVE  /\ Len(handlers[EventType]) \in Nat /\ Len(ran[d]) \in Nat
           /\ Len(ran[d]) <= Len(handlers[EventType])
BY EventTypeAssumption DEF DispatchInv, TypeOK, LoopInv

LEMMA UnreachedIsNat ==
    ASSUME DispatchInv, NEW d \in Dispatches
    PROVE  /\ Unreached(d) \in Nat
           /\ Unreached(d) <= Len(handlers[EventType])
<1> DEFINE n == Len(handlers[EventType])
           r == Len(ran[d])
<1>1. n \in Nat /\ r \in Nat /\ r <= n
  BY Lengths
<1>2. Unreached(d) = IF live[d] THEN n - r ELSE 0
  BY DEF Unreached
<1> HIDE DEF n, r
<1>3. Unreached(d) \in Nat /\ Unreached(d) <= n
  BY <1>1, <1>2
<1> QED
  BY <1>3 DEF n

LEMMA StepUsesOneUp ==
    ASSUME DispatchInv, NEW d \in Dispatches, DispatchStep(d)
    PROVE  StepsLeft(d)' \in Nat /\ StepsLeft(d)' < StepsLeft(d)
<1> DEFINE N == Len(handlers[EventType])
<1>0. /\ N \in Nat /\ Len(ran[d]) \in Nat
      /\ Unreached(d) \in Nat /\ Unreached(d) <= N
      /\ pc \in [Dispatches -> {"idle", "verify", "lookup", "loop",
                               "handler", "done"}]
  BY Lengths, UnreachedIsNat DEF DispatchInv, TypeOK
<1>1. CASE Dispatch(d)
  <2>1. /\ pc[d] = "idle" /\ pc'[d] \in {"verify", "lookup", "done"}
        /\ handlers' = handlers
    BY <1>0, <1>1 DEF Dispatch, End, Goto
  <2> QED
    BY <1>0, <2>1 DEF StepsLeft
<1>2. CASE Verifier(d)
  <2>1. /\ pc[d] = "verify" /\ pc'[d] \in {"lookup", "done"}
        /\ handlers' = handlers
    BY <1>0, <1>2 DEF Verifier, End, Goto
  <2> QED
    BY <1>0, <2>1 DEF StepsLeft
<1>3. CASE Lookup(d)
  <2>1. /\ pc[d] = "lookup" /\ pc'[d] = "loop"
        /\ handlers' = handlers /\ ran' = ran
    BY <1>0, <1>3 DEF Lookup, Goto
  <2>2. Unreached(d)' <= N /\ Unreached(d)' \in Nat
    <3> DEFINE r == Len(ran[d])
    <3>1. r \in Nat /\ r <= N
      BY Lengths
    <3>2. Unreached(d)' = IF live'[d] THEN N - r ELSE 0
      BY <2>1 DEF Unreached
    <3> HIDE DEF N, r
    <3> QED
      BY <1>0, <3>1, <3>2
  <2> QED
    BY <1>0, <2>1, <2>2 DEF StepsLeft
<1>4. CASE Invoke(d)
  <2>1. /\ pc[d] = "loop" /\ pc'[d] = "handler" /\ live[d]
        /\ handlers' = handlers /\ live' = live
        /\ next[d] = Len(ran[d]) + 1 /\ ~(next[d] > N)
    BY <1>0, <1>4 DEF Invoke, Exhausted, Goto, DispatchInv, LoopInv
  <2>2. Len(ran'[d]) = Len(ran[d]) + 1
    <3>1. handlers[EventType][next[d]] \in Handlers
      BY <1>0, <2>1, EventTypeAssumption DEF DispatchInv, TypeOK
    <3>2. ran[d] \in Seq(Handlers)
      BY DEF DispatchInv, TypeOK
    <3>3. ran'[d] = Append(ran[d], handlers[EventType][next[d]])
      BY <1>4 DEF Invoke, DispatchInv, TypeOK
    <3> QED
      BY <3>1, <3>2, <3>3, Appended
  <2>3. Unreached(d)' = Unreached(d) - 1
    BY <1>0, <2>1, <2>2 DEF Unreached
  <2> QED
    BY <1>0, <2>1, <2>3 DEF StepsLeft
<1>5. CASE HandlerReturns(d) \/ HandlerRaises(d)
  <2>1. /\ pc[d] = "handler" /\ pc'[d] = "loop"
        /\ UNCHANGED <<handlers, live, ran>>
    BY <1>0, <1>5 DEF HandlerReturns, HandlerRaises, Goto, loopVars
  <2>2. Unreached(d)' = Unreached(d)
    BY <2>1 DEF Unreached
  <2> QED
    BY <1>0, <2>1, <2>2 DEF StepsLeft
<1>6. CASE Interrupt(d) \/ Finish(d)
  <2>1. pc[d] \in {"verify", "handler", "loop"} /\ pc'[d] = "done"
    BY <1>0, <1>6 DEF Interrupt, Finish, End
  <2> QED
    BY <1>0, <2>1 DEF StepsLeft
<1> QED
  BY <1>1, <1>2, <1>3, <1>4, <1>5, <1>6 DEF DispatchStep

LEMMA StepsAreNumbers ==
    ASSUME DispatchInv, NEW d \in Dispatches PROVE StepsLeft(d) \in Nat
<1> DEFINE n == Len(handlers[EventType])
           u == Unreached(d)
<1>1. n \in Nat /\ u \in Nat
  BY Lengths, UnreachedIsNat
<1> HIDE DEF n, u
<1> QED
  BY <1>1 DEF StepsLeft, n, u

LEMMA SameStepsLeft ==
    ASSUME NEW d \in Dispatches, pc'[d] = pc[d], live'[d] = live[d],
           ran'[d] = ran[d], handlers'[EventType] = handlers[EventType]
    PROVE  StepsLeft(d)' = StepsLeft(d)
BY DEF StepsLeft, Unreached

(* One handler more is two steps more, for those it is not too late for.   *)
LEMMA OnGivesTwo ==
    ASSUME DispatchInv, NEW d \in Dispatches, NEW h \in Handlers,
           On(h, EventType)
    PROVE  StepsLeft(d)' <= StepsLeft(d) + 2
<1> DEFINE N == Len(handlers[EventType])
<1>1. /\ N \in Nat /\ Len(ran[d]) \in Nat
      /\ Unreached(d) \in Nat
  BY Lengths, UnreachedIsNat
<1>2. Len(handlers'[EventType]) = N + 1
      /\ UNCHANGED <<pc, live, ran>>
  <2>1. handlers'[EventType] = Append(handlers[EventType], h)
        /\ handlers[EventType] \in Seq(Handlers)
    BY EventTypeAssumption DEF On, DispatchInv, TypeOK
  <2> QED
    BY <2>1, Appended DEF On, loopVars
<1>3. Unreached(d)' \in {Unreached(d), Unreached(d) + 1}
  <2> DEFINE r == Len(ran[d])
  <2>1. Unreached(d) = IF live[d] THEN N - r ELSE 0
    BY DEF Unreached
  <2>2. Unreached(d)' = IF live[d] THEN N + 1 - r ELSE 0
    BY <1>2 DEF Unreached
  <2>3. r \in Nat
    BY <1>1
  <2> HIDE DEF N, r
  <2> QED
    BY <1>1, <2>1, <2>2, <2>3
<1>4. pc'[d] = pc[d]
      /\ pc[d] \in {"idle", "verify", "lookup", "loop", "handler", "done"}
  BY <1>2 DEF DispatchInv, TypeOK
<1> QED
  BY <1>1, <1>2, <1>3, <1>4 DEF StepsLeft

(* dispatch() cannot go round for ever, however many deliveries run and    *)
(* whatever the handlers do, unless handlers are registered for ever.      *)
THEOREM DispatchesCannotGoOn == Spec => DispatchesRunOut
<1>1. ASSUME DispatchInv, [Next]_vars
      PROVE  [\A d \in Dispatches :
                /\ DispatchStep(d) => StepsLeft(d)' \in 0..StepsLeft(d) - 1
                /\ StepsLeft(d)' > StepsLeft(d) =>
                      /\ \E h \in Handlers : On(h, EventType)
                      /\ StepsLeft(d)' <= StepsLeft(d) + 2]_vars
  <2> SUFFICES ASSUME Next, NEW d \in Dispatches
               PROVE  /\ DispatchStep(d) => StepsLeft(d)' \in 0..StepsLeft(d) - 1
                      /\ StepsLeft(d)' > StepsLeft(d) =>
                            /\ \E h \in Handlers : On(h, EventType)
                            /\ StepsLeft(d)' <= StepsLeft(d) + 2
    BY <1>1
  <2>0. StepsLeft(d) \in Nat
    BY <1>1, StepsAreNumbers
  <2>1. DispatchStep(d) => StepsLeft(d)' \in 0..StepsLeft(d) - 1
    <3> SUFFICES ASSUME DispatchStep(d)
                 PROVE  StepsLeft(d)' \in 0..StepsLeft(d) - 1
      OBVIOUS
    <3>1. StepsLeft(d)' \in Nat /\ StepsLeft(d)' < StepsLeft(d)
      BY <1>1, StepUsesOneUp
    <3> QED
      BY <2>0, <3>1
  <2>2. CASE \E c \in Dispatches \ {d} : DispatchStep(c)
    <3>1. /\ pc'[d] = pc[d] /\ live'[d] = live[d] /\ ran'[d] = ran[d]
          /\ handlers'[EventType] = handlers[EventType]
      BY <1>1, <2>2, OthersUntouched DEF DispatchInv
    <3> QED
      BY <2>0, <2>1, <3>1, SameStepsLeft
  <2>3. ASSUME NEW h \in Handlers, NEW t \in EventTypes, On(h, t)
        PROVE  StepsLeft(d)' > StepsLeft(d) =>
                  /\ \E g \in Handlers : On(g, EventType)
                  /\ StepsLeft(d)' <= StepsLeft(d) + 2
    <3>1. CASE t = EventType
      BY <1>1, <2>3, <3>1, OnGivesTwo
    <3>2. CASE t # EventType
      <4>1. /\ pc'[d] = pc[d] /\ live'[d] = live[d] /\ ran'[d] = ran[d]
            /\ handlers'[EventType] = handlers[EventType]
        BY <1>1, <2>3, <3>2, EventTypeAssumption
        DEF On, loopVars, DispatchInv, TypeOK
      <4> QED
        BY <2>0, <4>1, SameStepsLeft
    <3> QED
      BY <3>1, <3>2
  <2>4. CASE DispatchStep(d)
    BY <2>0, <2>1, <2>4
  <2> QED
    BY <2>1, <2>2, <2>3, <2>4 DEF Next
<1> QED
  BY <1>1, AlwaysDispatchInv, PTL DEF Spec, DispatchesRunOut
=============================================================================

----------------------------- MODULE Dispatcher -----------------------------
(***************************************************************************)
(* `WebhookDispatcher' and `AsyncWebhookDispatcher'                        *)
(* (webhooks/dispatcher.py): one dispatcher, shared by several deliveries  *)
(* that run in threads or tasks of their own, while handlers are still     *)
(* being registered.                                                       *)
(*                                                                         *)
(* `for handler in handlers' iterates the very list `on' appends to: a     *)
(* handler registered while the loop runs is reached by it.  When the list *)
(* did not exist at lookup, `.get(event_type, [])' hands out an empty list *)
(* nothing is ever appended to.                                            *)
(*                                                                         *)
(* The verifier and the handlers are the consumer's code: any of their     *)
(* results is possible.  A handler may be left by something that is no     *)
(* Exception (a cancelled task, a KeyboardInterrupt); `except Exception'   *)
(* does not catch it.                                                      *)
(***************************************************************************)
EXTENDS Naturals, Sequences

CONSTANTS
    Dispatches,   \* the calls of dispatch()
    Handlers,     \* the handlers that may be registered, each one once
    EventTypes    \* the strings handlers are registered for

(* What _event_type_for makes of every event the parser lets through:      *)
(* PaymentCompletedEvent.status is "completed".                            *)
EventType == "payment.completed"

ASSUME EventTypeAssumption == EventType \in EventTypes

VARIABLES
    hasVerifier,  \* the dispatcher was built with a verifier
    handlers,     \* _handlers; a type without key has the empty sequence
    pc,           \* where each dispatch() is
    verify,       \* its verify argument
    verdict,      \* history: what the verifier did, "none" before it did
    live,         \* `handlers' is the dispatcher's own list
    next,         \* the index the list iterator looks at next
    errors,       \* the handlers whose exceptions were collected
    outcome,      \* how dispatch() ended, "none" before it did
    promised,     \* history: how many handlers were registered at lookup
    ran,          \* history: the handlers invoked, in order
    failed        \* history: the handlers that raised an Exception

loopVars == <<live, next, errors, promised, ran, failed>>
vars == <<hasVerifier, handlers, pc, verify, verdict, outcome, loopVars>>

Verdicts == {"genuine", "forged", "unavailable"}

Outcomes == {"returned", "ExceptionGroup", "PSIPWebhookForgeryError",
             "verifier error", "RuntimeError", "BaseException"}

TypeOK ==
    /\ hasVerifier \in BOOLEAN
    /\ handlers \in [EventTypes -> Seq(Handlers)]
    /\ pc \in [Dispatches -> {"idle", "verify", "lookup", "loop",
                              "handler", "done"}]
    /\ verify \in [Dispatches -> BOOLEAN]
    /\ verdict \in [Dispatches -> Verdicts \cup {"none"}]
    /\ live \in [Dispatches -> BOOLEAN]
    /\ next \in [Dispatches -> Nat \ {0}]
    /\ errors \in [Dispatches -> Seq(Handlers)]
    /\ outcome \in [Dispatches -> Outcomes \cup {"none"}]
    /\ promised \in [Dispatches -> Nat]
    /\ ran \in [Dispatches -> Seq(Handlers)]
    /\ failed \in [Dispatches -> SUBSET Handlers]

Init ==
    /\ hasVerifier \in BOOLEAN
    /\ handlers = [t \in EventTypes |-> << >>]
    /\ pc = [d \in Dispatches |-> "idle"]
    /\ verify = [d \in Dispatches |-> TRUE]
    /\ verdict = [d \in Dispatches |-> "none"]
    /\ live = [d \in Dispatches |-> FALSE]
    /\ next = [d \in Dispatches |-> 1]
    /\ errors = [d \in Dispatches |-> << >>]
    /\ outcome = [d \in Dispatches |-> "none"]
    /\ promised = [d \in Dispatches |-> 0]
    /\ ran = [d \in Dispatches |-> << >>]
    /\ failed = [d \in Dispatches |-> {}]

Registered == {h \in Handlers : \E t \in EventTypes :
                  \E i \in 1..Len(handlers[t]) : handlers[t][i] = h}

(* @dispatcher.on(t): at import time, or later.                            *)
On(h, t) ==
    /\ h \notin Registered
    /\ handlers' = [handlers EXCEPT ![t] = Append(@, h)]
    /\ UNCHANGED <<hasVerifier, pc, verify, verdict, outcome, loopVars>>

Goto(d, label) ==
    /\ pc' = [pc EXCEPT ![d] = label]
    /\ UNCHANGED outcome

End(d, result) ==
    /\ pc' = [pc EXCEPT ![d] = "done"]
    /\ outcome' = [outcome EXCEPT ![d] = result]

(* dispatch(event, verify=v) is called.                                    *)
Dispatch(d) ==
    /\ pc[d] = "idle"
    /\ \E v \in BOOLEAN :
          /\ verify' = [verify EXCEPT ![d] = v]
          /\ IF v /\ ~hasVerifier THEN End(d, "RuntimeError")
             ELSE Goto(d, IF v THEN "verify" ELSE "lookup")
    /\ UNCHANGED <<hasVerifier, handlers, verdict, loopVars>>

(* Mutated form: only a proven forgery stops the event.                    *)
PassesUnlessForged(v) == v # "forged"

Passes(v) == v = "genuine"

(* The verifier returns, raises PSIPWebhookForgeryError, or fails itself   *)
(* (the server cannot be asked).                                           *)
Verifier(d) ==
    /\ pc[d] = "verify"
    /\ \E v \in Verdicts :
          /\ verdict' = [verdict EXCEPT ![d] = v]
          /\ IF Passes(v) THEN Goto(d, "lookup")
             ELSE End(d, IF v = "forged" THEN "PSIPWebhookForgeryError"
                                         ELSE "verifier error")
    /\ UNCHANGED <<hasVerifier, handlers, verify, loopVars>>

Lookup(d) ==
    /\ pc[d] = "lookup"
    /\ live' = [live EXCEPT ![d] = handlers[EventType] # << >>]
    /\ promised' = [promised EXCEPT ![d] = Len(handlers[EventType])]
    /\ Goto(d, "loop")
    /\ UNCHANGED <<hasVerifier, handlers, verify, verdict,
                   next, errors, ran, failed>>

(* Mutated form: the first failure ends the loop.                          *)
ExhaustedOrFailed(d) ==
    ~live[d] \/ next[d] > Len(handlers[EventType]) \/ errors[d] # << >>

Exhausted(d) == ~live[d] \/ next[d] > Len(handlers[EventType])

(* The iterator yields the next handler and it is called.                  *)
Invoke(d) ==
    /\ pc[d] = "loop" /\ ~Exhausted(d)
    /\ ran' = [ran EXCEPT ![d] = Append(@, handlers[EventType][next[d]])]
    /\ next' = [next EXCEPT ![d] = @ + 1]
    /\ Goto(d, "handler")
    /\ UNCHANGED <<hasVerifier, handlers, verify, verdict, live, errors,
                   promised, failed>>

HandlerReturns(d) ==
    /\ pc[d] = "handler"
    /\ Goto(d, "loop")
    /\ UNCHANGED <<hasVerifier, handlers, verify, verdict, loopVars>>

Current(d) == ran[d][Len(ran[d])]

(* Mutated form: one `error' variable that each failure overwrites.        *)
KeepLast(collected, h) == <<h>>

Collect(collected, h) == Append(collected, h)

(* Mutated form: a handler that failed is tried again.                     *)
HandlerRaisesAgain(d) ==
    /\ pc[d] = "handler"
    /\ next' = [next EXCEPT ![d] = @ - 1]
    /\ failed' = [failed EXCEPT ![d] = @ \cup {Current(d)}]
    /\ Goto(d, "loop")
    /\ UNCHANGED <<hasVerifier, handlers, verify, verdict, live, errors,
                   promised, ran>>

HandlerRaises(d) ==
    /\ pc[d] = "handler"
    /\ errors' = [errors EXCEPT ![d] = Collect(@, Current(d))]
    /\ failed' = [failed EXCEPT ![d] = @ \cup {Current(d)}]
    /\ Goto(d, "loop")
    /\ UNCHANGED <<hasVerifier, handlers, verify, verdict, live, next,
                   promised, ran>>

(* No Exception: it leaves dispatch(), with whatever was collected lost.   *)
Interrupt(d) ==
    /\ pc[d] \in {"verify", "handler"}
    /\ End(d, "BaseException")
    /\ UNCHANGED <<hasVerifier, handlers, verify, verdict, loopVars>>

Finish(d) ==
    /\ pc[d] = "loop" /\ Exhausted(d)
    /\ End(d, IF errors[d] = << >> THEN "returned" ELSE "ExceptionGroup")
    /\ UNCHANGED <<hasVerifier, handlers, verify, verdict, loopVars>>

DispatchStep(d) ==
    \/ Dispatch(d) \/ Verifier(d) \/ Lookup(d) \/ Invoke(d)
    \/ HandlerReturns(d) \/ HandlerRaises(d) \/ Interrupt(d) \/ Finish(d)

Next ==
    \/ \E h \in Handlers, t \in EventTypes : On(h, t)
    \/ \E d \in Dispatches : DispatchStep(d)

Spec == Init /\ [][Next]_vars
-----------------------------------------------------------------------------
(* Properties.                                                             *)

(* A dispatch that ends normally -- it returned or raised its group -- has *)
(* invoked every handler registered when it looked them up, each once and  *)
(* in the order of registration, whatever the others did, and nothing but  *)
(* handlers of its event type.                                             *)
EveryHandlerRan ==
    \A d \in Dispatches :
        outcome[d] \in {"returned", "ExceptionGroup"} =>
            /\ promised[d] <= Len(ran[d])
            /\ Len(ran[d]) <= Len(handlers[EventType])
            /\ \A i \in 1..Len(ran[d]) : ran[d][i] = handlers[EventType][i]

(* No failure is swallowed: dispatch() returns only if no handler raised,  *)
(* and the group names every handler that did.                             *)
NoFailureSwallowed ==
    \A d \in Dispatches :
        /\ outcome[d] = "returned" => failed[d] = {}
        /\ outcome[d] = "ExceptionGroup" =>
              failed[d] # {} /\ \A h \in failed[d] :
                  \E i \in 1..Len(errors[d]) : errors[d][i] = h

(* With verify=True no handler ever sees an event the verifier has not     *)
(* accepted, whether it was refused, could not be checked, or there is no  *)
(* verifier -- and however the deliveries interleave.                      *)
VerifiedBeforeHandled ==
    \A d \in Dispatches :
        verify[d] /\ ran[d] # << >> => hasVerifier /\ verdict[d] = "genuine"

(* How many steps a dispatch can still make: two for each handler it has   *)
(* not reached, and those around the loop.                                 *)
Unreached(d) == IF live[d] THEN Len(handlers[EventType]) - Len(ran[d]) ELSE 0

StepsLeft(d) ==
    CASE pc[d] = "idle" -> 2 * Len(handlers[EventType]) + 4
      [] pc[d] = "verify" -> 2 * Len(handlers[EventType]) + 3
      [] pc[d] = "lookup" -> 2 * Len(handlers[EventType]) + 2
      [] pc[d] = "handler" -> 2 * Unreached(d) + 2
      [] pc[d] = "loop" -> 2 * Unreached(d) + 1
      [] OTHER -> 0

(* The loop runs over a list that may grow under it, but a dispatch cannot *)
(* go on for ever: each of its steps uses one up, other deliveries give it *)
(* none, and one more handler gives it two at most.                        *)
DispatchesRunOut ==
    [][\A d \in Dispatches :
          /\ DispatchStep(d) => StepsLeft(d)' \in 0..StepsLeft(d) - 1
          /\ StepsLeft(d)' > StepsLeft(d) =>
                /\ \E h \in Handlers : On(h, EventType)
                /\ StepsLeft(d)' <= StepsLeft(d) + 2]_vars
=============================================================================

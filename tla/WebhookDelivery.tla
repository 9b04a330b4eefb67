--------------------------- MODULE WebhookDelivery ---------------------------
(***************************************************************************)
(* What the webhook receiver promises the payment service and the          *)
(* consumer's handlers, with parser, verifier, dispatcher and view left    *)
(* out: an event is posted, taken up, handled and answered; once it is     *)
(* answered nothing happens to it any more.  WebhookReceiver implements    *)
(* this specification.                                                     *)
(***************************************************************************)
EXTENDS Naturals, Sequences

CONSTANTS
    Deliveries,   \* the requests
    Handlers,     \* the handlers that may be registered
    Events,       \* what may be posted
    Checked,      \* the view verifies
    NoEvent

VARIABLES
    registered,   \* the handlers of the event type, in order
    backed,       \* the events that agree with a payment on record
    event,        \* what each request posted
    due,          \* the requests whose event was backed then
    taken,        \* those taken up for the handlers,
    promised,     \* of which so many were registered then
    ran,          \* the handlers each was given to, in order
    failed,       \* those that raised
    answer        \* the status it was answered with, or "none"

requestVars == <<event, due, taken, promised, ran, failed, answer>>
vars == <<registered, backed, requestVars>>

Init ==
    /\ registered = << >>
    /\ backed = {}
    /\ event = [d \in Deliveries |-> NoEvent]
    /\ due = {}
    /\ taken = {}
    /\ promised = [d \in Deliveries |-> 0]
    /\ ran = [d \in Deliveries |-> << >>]
    /\ failed = [d \in Deliveries |-> {}]
    /\ answer = [d \in Deliveries |-> "none"]

Register(h) ==
    /\ registered' = Append(registered, h)
    /\ UNCHANGED <<backed, requestVars>>

(* Payments are recorded; what is on record stays.                         *)
Record ==
    /\ backed \subseteq backed' /\ backed' \subseteq Events
    /\ UNCHANGED <<registered, requestVars>>

(* An event that no payment backs may be turned away at once.              *)
Post(d) ==
    /\ event[d] = NoEvent
    /\ \E e \in Events :
          /\ event' = [event EXCEPT ![d] = e]
          /\ due' = IF e \in backed THEN due \cup {d} ELSE due
          /\ \/ UNCHANGED answer
             \/ /\ e \notin backed
                /\ \E a \in {"400", "500"} : answer' = [answer EXCEPT ![d] = a]
    /\ UNCHANGED <<registered, backed, taken, promised, ran, failed>>

Waiting(d) == event[d] # NoEvent /\ answer[d] = "none"

(* An event is for the handlers if it need not be checked or is backed.    *)
TakeUp(d) ==
    /\ Waiting(d) /\ d \notin taken
    /\ Checked => event[d] \in backed
    /\ taken' = taken \cup {d}
    /\ promised' = [promised EXCEPT ![d] = Len(registered)]
    /\ UNCHANGED <<registered, backed, event, due, ran, failed, answer>>

(* The next handler is called, also one registered in the meantime.        *)
Handle(d) ==
    /\ Waiting(d) /\ d \in taken
    /\ Len(ran[d]) < Len(registered)
    /\ ran' = [ran EXCEPT ![d] = Append(@, registered[Len(ran[d]) + 1])]
    /\ UNCHANGED <<registered, backed, event, due, taken, promised, failed,
                   answer>>

(* The handler called last raises.                                         *)
Fail(d) ==
    /\ Waiting(d) /\ ran[d] # << >>
    /\ failed' = [failed EXCEPT ![d] = @ \cup {ran[d][Len(ran[d])]}]
    /\ UNCHANGED <<registered, backed, event, due, taken, promised, ran,
                   answer>>

Handled(d) == d \in taken /\ promised[d] <= Len(ran[d])

(* 200 when every handler has run and none raised, 500 when every handler  *)
(* has run and some raised; 403 and 500 when the event was checked and not *)
(* taken up, 403 only if it was not due; no answer whenever the worker is  *)
(* interrupted.                                                            *)
MayAnswer(d, a) ==
    \/ a = "200" /\ Handled(d) /\ failed[d] = {}
    \/ a = "500" /\ Handled(d) /\ failed[d] # {}
    \/ a = "403" /\ Checked /\ d \notin taken /\ d \notin due
    \/ a = "500" /\ Checked /\ d \notin taken
    \/ a = "dropped"

Answer(d) ==
    /\ Waiting(d)
    /\ \E a \in {"200", "403", "500", "dropped"} :
          MayAnswer(d, a) /\ answer' = [answer EXCEPT ![d] = a]
    /\ UNCHANGED <<registered, backed, event, due, taken, promised, ran,
                   failed>>

Next ==
    \/ \E h \in Handlers : Register(h)
    \/ Record
    \/ \E d \in Deliveries :
          Post(d) \/ TakeUp(d) \/ Handle(d) \/ Fail(d) \/ Answer(d)

Spec == Init /\ [][Next]_vars
=============================================================================

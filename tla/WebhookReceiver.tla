--------------------------- MODULE WebhookReceiver ---------------------------
(***************************************************************************)
(* The whole way of a webhook through the SDK: `PSIPWebhookView.post'      *)
(* (django/views.py) parses the body (webhooks/parser.py), has the         *)
(* dispatcher verify the event against the server's record                 *)
(* (webhooks/verifier.py, transactions.get) and run the handlers, and      *)
(* answers with a status the payment service acts on.                      *)
(*                                                                         *)
(* It composes Dispatcher -- every step of a dispatch is a step of that    *)
(* module, its verdict no longer free but what verify_event makes of the   *)
(* server's answer -- with the view and with the server, whose records     *)
(* come and settle on their own time: the same event may be delivered      *)
(* twice, before its record is committed, or with other details than the   *)
(* record's.                                                               *)
(***************************************************************************)
EXTENDS Dispatcher

CONSTANTS
    Transactions,   \* the ids of the server's transactions
    Payment,        \* order, amount and currency of each transaction
    Payloads,         \* the bodies that may be posted
    Unavailable,    \* how transactions.get can fail, a 404 apart
    ViewVerify,     \* PSIPWebhookView.verify
    NoBody

(* Errors of transactions.get: Transport's outcomes, and _parse_response's *)
(* PSIPProtocolError.                                                      *)
Http == INSTANCE HttpResponse

BrokenBodies == {"notUtf8", "notJson", "notObject", "notEvent"}

Details == [order : STRING, amount : Nat, currency : STRING]

ASSUME ReceiverAssumption ==
    /\ Payment \in [Transactions -> Details]
    /\ Unavailable \subseteq Http!Errors \ {"PSIPNotFoundError"}
    /\ ViewVerify \in BOOLEAN
    /\ \A b \in Payloads :
          \/ b.kind \in BrokenBodies
          \/ b.kind = "event" /\ b.tx \in Transactions
    /\ NoBody \notin Payloads

VARIABLES
    records,   \* the status of each transaction on the server
    body,      \* what each delivery posted
    status,    \* how it was answered, "none" before it was
    ripe       \* history: the record backed the event when it was posted

viewVars == <<body, status, ripe>>
receiverVars == <<vars, records, viewVars>>

Statuses == {"200", "400", "403", "500", "dropped", "none"}

ReceiverTypeOK ==
    /\ TypeOK
    /\ records \in [Transactions -> {"none", "pending", "succeeded", "failed"}]
    /\ body \in [Dispatches -> Payloads \cup {NoBody}]
    /\ status \in [Dispatches -> Statuses]
    /\ ripe \in [Dispatches -> BOOLEAN]

ReceiverInit ==
    /\ Init
    /\ records = [t \in Transactions |-> "none"]
    /\ body = [d \in Dispatches |-> NoBody]
    /\ status = [d \in Dispatches |-> "none"]
    /\ ripe = [d \in Dispatches |-> FALSE]
-----------------------------------------------------------------------------
(* The verifier.                                                           *)

(* str.lower, for the currencies of the instances.                         *)
Lower(currency) ==
    CASE currency = "USD" -> "usd"
      [] currency = "EUR" -> "eur"
      [] OTHER -> currency

(* Mutated forms: the currency compared as it is; the status left out.     *)
CheckMatchExactCase(b, tx) ==
    /\ tx.order = b.order /\ tx.amount = b.amount
    /\ tx.currency = b.currency /\ tx.status = "succeeded"

CheckMatchNoStatus(b, tx) ==
    /\ tx.order = b.order /\ tx.amount = b.amount
    /\ Lower(tx.currency) = Lower(b.currency)

(* _check_match: an event's status is "completed", which must be           *)
(* "succeeded" on the server.                                              *)
CheckMatch(b, tx) ==
    /\ tx.order = b.order
    /\ tx.amount = b.amount
    /\ Lower(tx.currency) = Lower(b.currency)
    /\ tx.status = "succeeded"

Transaction(t) ==
    [order |-> Payment[t].order, amount |-> Payment[t].amount,
     currency |-> Payment[t].currency, status |-> records[t]]

(* transactions.get(id): the record, a 404, or no answer of use.           *)
GetOutcomes(t) ==
    {IF records[t] = "none" THEN "PSIPNotFoundError" ELSE "Data"}
    \cup Unavailable

VerifyEvent(b, result) ==
    CASE result = "Data" /\ CheckMatch(b, Transaction(b.tx)) -> "genuine"
      [] result = "Data" /\ ~CheckMatch(b, Transaction(b.tx)) -> "forged"
      [] result = "PSIPNotFoundError" -> "forged"
      [] OTHER -> "unavailable"

(* The payment the event tells of is on record as succeeded.               *)
Backed(b) ==
    /\ b.kind = "event"
    /\ records[b.tx] = "succeeded"
    /\ b.order = Payment[b.tx].order
    /\ b.amount = Payment[b.tx].amount
    /\ Lower(b.currency) = Lower(Payment[b.tx].currency)
-----------------------------------------------------------------------------
(* The view.                                                               *)

(* client.webhooks.parse: json.loads of bytes that are no UTF-8 raises     *)
(* UnicodeDecodeError, which is no JSONDecodeError.                        *)
Parse(b) ==
    CASE b.kind = "event" -> "event"
      [] b.kind = "notUtf8" -> "UnicodeDecodeError"
      [] OTHER -> "PSIPWebhookValidationError"

(* Mutated forms: the group of the handlers' errors logged and dropped; no *)
(* status of its own.                                                      *)
StatusIgnoringHandlers(result) ==
    CASE result \in {"returned", "ExceptionGroup"} -> "200"
      [] result = "PSIPWebhookForgeryError" -> "403"
      [] result = "BaseException" -> "dropped"
      [] OTHER -> "500"

StatusOrName(result) == IF result = "returned" THEN "200" ELSE result

(* What dispatch() leads to.  An Exception the view does not catch is a    *)
(* 500 of Django's; anything else ends the worker without an answer.       *)
StatusOf(result) ==
    CASE result = "returned" -> "200"
      [] result = "PSIPWebhookForgeryError" -> "403"
      [] result = "BaseException" -> "dropped"
      [] OTHER -> "500"

(* A request arrives: it is parsed, and refused or handed to dispatch().   *)
Post(d) ==
    /\ body[d] = NoBody
    /\ \E b \in Payloads :
          /\ body' = [body EXCEPT ![d] = b]
          /\ ripe' = [ripe EXCEPT ![d] = Backed(b)]
          /\ IF Parse(b) = "event"
             THEN Dispatch(d) /\ verify'[d] = ViewVerify /\ UNCHANGED status
             ELSE /\ status' = [status EXCEPT ![d] =
                        IF Parse(b) = "PSIPWebhookValidationError"
                        THEN "400" ELSE "500"]
                  /\ UNCHANGED vars
    /\ UNCHANGED records

(* Mutated form: waits for a record that is not committed yet.             *)
VerifyWhenRecorded(d) ==
    /\ Verifier(d)
    /\ records[body[d].tx] # "none"
    /\ \E result \in GetOutcomes(body[d].tx) :
          verdict'[d] = VerifyEvent(body[d], result)
    /\ UNCHANGED <<records, viewVars>>

(* dispatch() calls client.webhooks.verify_event.                          *)
Verify(d) ==
    /\ Verifier(d)
    /\ \E result \in GetOutcomes(body[d].tx) :
          verdict'[d] = VerifyEvent(body[d], result)
    /\ UNCHANGED <<records, viewVars>>

RunHandlers(d) ==
    /\ \/ Lookup(d) \/ Invoke(d) \/ HandlerReturns(d) \/ HandlerRaises(d)
       \/ Interrupt(d) \/ Finish(d)
    /\ UNCHANGED <<records, viewVars>>

Answer(d) ==
    /\ pc[d] = "done" /\ status[d] = "none"
    /\ status' = [status EXCEPT ![d] = StatusOf(outcome[d])]
    /\ UNCHANGED <<vars, records, body, ripe>>

Register(h, t) == On(h, t) /\ UNCHANGED <<records, viewVars>>

(* The server (external): a transaction is recorded and settled.           *)
Settle(t) ==
    /\ \E s \in {"pending", "succeeded", "failed"} :
          /\ records[t] \in (IF s = "pending" THEN {"none"}
                             ELSE {"none", "pending"})
          /\ records' = [records EXCEPT ![t] = s]
    /\ UNCHANGED <<vars, viewVars>>

ReceiverNext ==
    \/ \E d \in Dispatches : Post(d) \/ Verify(d) \/ RunHandlers(d) \/ Answer(d)
    \/ \E h \in Handlers, t \in EventTypes : Register(h, t)
    \/ \E t \in Transactions : Settle(t)

ReceiverSpec == ReceiverInit /\ [][ReceiverNext]_receiverVars

(* A worker that has a request goes on with it: transactions.get ends, as  *)
(* every call of the transport does, and the handlers do.  Nothing         *)
(* interrupts it of necessity.                                             *)
GoesOn(d) ==
    \/ Verify(d) \/ Answer(d)
    \/ RunHandlers(d) /\ ~Interrupt(d)

FairReceiverSpec ==
    /\ ReceiverSpec
    /\ \A d \in Dispatches : WF_receiverVars(GoesOn(d))
-----------------------------------------------------------------------------
(* Properties.                                                             *)

(* No handler acts on a payment the server has not recorded as succeeded,  *)
(* for this order and this amount, whatever is posted and however often    *)
(* and early.                                                              *)
HandledOnlyIfBacked ==
    \A d \in Dispatches : ViewVerify /\ ran[d] # << >> => Backed(body[d])

(* A 200 -- after which the payment service forgets the event -- means     *)
(* that every handler registered for it when it was looked up has run and  *)
(* returned.                                                               *)
AckMeansHandled ==
    \A d \in Dispatches : status[d] = "200" =>
        promised[d] <= Len(ran[d]) /\ failed[d] = {}

(* A refusal, which tells the sender not to come again, is given before    *)
(* any handler ran: a handler's own error is never one.                    *)
RefusedUntouched ==
    \A d \in Dispatches : status[d] \in {"400", "403"} => ran[d] = << >>

(* An event whose payment is on record is not refused -- neither for the   *)
(* way its currency is written nor because the server cannot be asked.     *)
GenuineNotRefused ==
    \A d \in Dispatches : ripe[d] => status[d] \notin {"400", "403"}

(* Every request is answered, or its worker was interrupted, whatever is   *)
(* posted, however long the server cannot be asked and though handlers may *)
(* be registered while it is dispatched.                                   *)
EveryPostAnswered ==
    \A d \in Dispatches : body[d] # NoBody ~> status[d] # "none"

(* django/views.py:30: "400: payload was not valid JSON".                  *)
BrokenBodyIs400 ==
    \A d \in Dispatches :
        body[d] # NoBody /\ body[d].kind \in BrokenBodies => status[d] = "400"
-----------------------------------------------------------------------------
(* The refinement of WebhookDelivery.                                      *)

TakenUp(d) ==
    \/ pc[d] \in {"loop", "handler"}
    \/ outcome[d] \in {"returned", "ExceptionGroup"}
    \/ ran[d] # << >>

Taken == {d \in Dispatches : TakenUp(d)}

Due == {d \in Dispatches : ripe[d]}

OnRecord == {b \in Payloads : Backed(b)}

Delivery == INSTANCE WebhookDelivery
    WITH Deliveries <- Dispatches, Events <- Payloads, Checked <- ViewVerify,
         NoEvent <- NoBody, registered <- handlers[EventType],
         backed <- OnRecord, event <- body, due <- Due, taken <- Taken,
         answer <- status

(* Seen from outside, view, parser, verifier and dispatcher are one        *)
(* receiver: it hands the handlers what is on record, in their order, each *)
(* once; answers once, 200 and 500 by what the handlers did, 403 before    *)
(* they run; and does nothing more for a request it has answered.          *)
DeliversAsPromised == Delivery!Spec
=============================================================================

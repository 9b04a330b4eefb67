--------------------------- MODULE WebhookEvents ---------------------------
(***************************************************************************)
(* The event models (models/webhook.py) and the parsers of them            *)
(* (webhooks/parser.py).  A payload is a JSON object, of which the name    *)
(* under `event', the `status' and the names of the fields but `event'     *)
(* matter.                                                                 *)
(***************************************************************************)
EXTENDS Naturals

Payload(event, status, fields) ==
    [event |-> event, status |-> status, fields |-> fields]

(* A model: the literals its `event' may be, those its `status' may be,    *)
(* and the fields without a default.  {} stands for a plain string, or for *)
(* no such field.                                                          *)
Model(events, statuses, required) ==
    [events |-> events, statuses |-> statuses, required |-> required]

(* Mutated form: the status is any string, like those of the other models. *)
PaymentOfAnyStatus ==
    Model({}, {},
          {"order_id", "status", "amount", "currency", "transaction_id"})

PaymentCompletedEvent ==
    Model({}, {"completed"},
          {"order_id", "status", "amount", "currency", "transaction_id"})

IntentEvent(event) ==
    Model({event}, {}, {"id", "status", "amount", "currency"})

PaymentIntentSucceededEvent == IntentEvent("payment_intent.succeeded")

PaymentIntentFailedEvent == IntentEvent("payment_intent.payment_failed")

CustomerEvent == Model({"customer.created", "customer.updated"}, {}, {"id"})

SubscriptionEvent ==
    Model({"subscription.created", "subscription.updated",
           "subscription.deleted", "subscription.trial_will_end"}, {}, {"id"})

InvoiceEvent ==
    Model({"invoice.paid", "invoice.payment_failed", "invoice.upcoming"},
          {}, {"id"})

Parsers ==
    [payment_completed |-> PaymentCompletedEvent,
     payment_intent_succeeded |-> PaymentIntentSucceededEvent,
     payment_intent_failed |-> PaymentIntentFailedEvent,
     customer_event |-> CustomerEvent,
     subscription_event |-> SubscriptionEvent,
     invoice_event |-> InvoiceEvent]

(* model_validate; fields the model does not know are ignored.             *)
Accepts(model, payload) ==
    /\ model.required \subseteq payload.fields
    /\ model.events # {} => payload.event \in model.events
    /\ model.statuses # {} => payload.status \in model.statuses

(* The parsers that return an event for the payload; the others raise      *)
(* PSIPWebhookValidationError.                                             *)
ParsedBy(payload) == {p \in DOMAIN Parsers : Accepts(Parsers[p], payload)}

(* The five fields of a completed payment are there, and its status says   *)
(* so.                                                                     *)
SaysCompleted(payload) ==
    /\ payload.status = "completed"
    /\ \A f \in {"order_id", "status", "amount", "currency", "transaction_id"} :
          f \in payload.fields

(* What the gateway announces: completed payments of Checkout, refunds,    *)
(* and the events that a model names.  Each may have any other field, as   *)
(* the `event_id' that all of them have.                                   *)
Announced(payload) ==
    \/ payload.event = "payment.completed" /\ SaysCompleted(payload)
    \/ payload.event = "payment.refunded"
    \/ \E p \in DOMAIN Parsers :
          /\ payload.event \in Parsers[p].events
          /\ Parsers[p].required \subseteq payload.fields
=============================================================================

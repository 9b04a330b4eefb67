-------------------------- MODULE MCWebhookReceiver --------------------------
(* Instances of WebhookReceiver for TLC: one payment, and the bodies that  *)
(* tell its fields apart.                                                  *)
EXTENDS WebhookReceiver, TLC

Order(t) == [order |-> "ord_1", amount |-> 999, currency |-> "usd"]

MCPayment == [t \in Transactions |-> Order(t)]

Event(t, o, a, c) ==
    [kind |-> "event", tx |-> t, order |-> o, amount |-> a, currency |-> c]

(* The payment's own event, in another case, with another amount, for      *)
(* another order; and what is no event.                                    *)
MCPayloads ==
    UNION {{Event(t, "ord_1", 999, "usd"), Event(t, "ord_1", 999, "USD"),
            Event(t, "ord_1", 1, "usd"), Event(t, "ord_2", 999, "usd")} :
           t \in Transactions}
    \cup [kind : {"notUtf8", "notJson", "notEvent"}]

Symmetry == Permutations(Handlers) \cup Permutations(Dispatches)
=============================================================================

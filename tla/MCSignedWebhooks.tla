-------------------------- MODULE MCSignedWebhooks --------------------------
(* An instance of SignedWebhooks for TLC: deliveries of two payloads, and  *)
(* every payload there is for the parsers.                                 *)
EXTENDS SignedWebhooks, TLC

intent == Payload("payment_intent.succeeded", "succeeded",
                  {"id", "status", "amount", "currency", "event_id"})
refunded == Payload("payment.refunded", "succeeded",
                    {"id", "status", "amount", "currency", "order_id"})

CONSTANTS d1, d2
MCBody == (d1 :> intent) @@ (d2 :> refunded)

Events ==
    UNION {Parsers[p].events : p \in DOMAIN Parsers}
    \cup {"payment.completed", "payment.refunded"}

Statuses == {"completed", "succeeded"}

FieldNames ==
    UNION {Parsers[p].required : p \in DOMAIN Parsers} \cup {"event_id"}

Payloads ==
    {Payload(event, status, fields) :
        event \in Events, status \in Statuses \cup {""},
        fields \in SUBSET FieldNames}

(* Whatever is announced, with and without every field that some model     *)
(* requires and one that none declares.                                    *)
MCBodies ==
    {payload \in Payloads :
        /\ payload.status = "" <=> "status" \notin payload.fields
        /\ Announced(payload)}

Symmetry == Permutations(Rotations)
=============================================================================

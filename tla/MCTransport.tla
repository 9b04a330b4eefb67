---------------------------- MODULE MCTransport ----------------------------
(* Instances of Transport for TLC.                                         *)
EXTENDS Transport

CONSTANTS w, v, r,   \* calls
          k          \* a key a caller pins

(* One write with a key of the SDK's, one read.                            *)
WriteReadMethod == [c \in {w, r} |-> IF c = w THEN "POST" ELSE "GET"]
WriteReadKey == [c \in {w, r} |-> None]

(* Three writes: one with a key of the SDK's, two with the caller's key,   *)
(* as when the caller retries a call that failed, or runs both at once.    *)
ThreeWritesMethod == [c \in {w, v, r} |-> IF c = w THEN "POST" ELSE "DELETE"]
OnePinnedKey == [c \in {w, v, r} |-> IF c = w THEN None ELSE k]

Envelope(s, d) == [kind |-> "object", status |-> s, data |-> d]

(* The answer, the answer of an endpoint without envelope status, the      *)
(* empty body of a DELETE, a contradiction, a redirect, a refusal, an      *)
(* error page of a proxy (to be retried) and of the gateway (not).         *)
RichResponses ==
    {[status |-> 200, body |-> Envelope("success", "dict")],
     [status |-> 200, body |-> Envelope("absent", "dict")],
     [status |-> 204, body |-> [kind |-> "notJson"]],
     [status |-> 200, body |-> Envelope("failure", "dict")],
     [status |-> 302, body |-> [kind |-> "notJson"]],
     [status |-> 409, body |-> Envelope("failure", "dict")],
     [status |-> 503, body |-> [kind |-> "notJson"]],
     [status |-> 500, body |-> Envelope("failure", "other")]}

FewResponses ==
    {[status |-> 200, body |-> Envelope("success", "dict")],
     [status |-> 401, body |-> Envelope("absent", "dict")],
     [status |-> 503, body |-> [kind |-> "notJson"]]}
=============================================================================

---------------------------- MODULE HttpResponse ----------------------------
(***************************************************************************)
(* What the SDK makes of one HTTP response: `_handle_response',            *)
(* `_decode_envelope' and `_classify_error' of transport.py.               *)
(*                                                                         *)
(* A response is its status code and a class of body.  A body is           *)
(*   notJson    not decodable as JSON, the empty body of a 204 included;   *)
(*   notObject  JSON, but not an object;                                   *)
(*   object     an envelope, of which `status' and the shape of `data'     *)
(*              matter: "dict" is an object, "other" is not one, or is     *)
(*              missing.                                                   *)
(* Messages, raw bodies and request ids are left out: no control flow of   *)
(* the SDK depends on them.                                                *)
(***************************************************************************)
EXTENDS Integers

Envelopes == [kind : {"object"},
              status : {"success", "failure", "absent"},
              data : {"dict", "other"}]

Bodies == [kind : {"notJson", "notObject"}] \cup Envelopes

AllResponses == [status : 100..599, body : Bodies]

(* The classes `_classify_error' chooses from, and every way a call ends.  *)
APIErrors == {"PSIPAuthError", "PSIPNotFoundError", "PSIPValidationError",
              "PSIPServerError", "PSIPAPIError"}

Errors == APIErrors \cup {"PSIPProtocolError", "PSIPNetworkError",
                          "RuntimeError", "CancelledError"}

Outcomes == Errors \cup {"Data"}

IsSuccess(r) == r.status \in 200..299

EmptyEnvelope == [kind |-> "object", status |-> "absent", data |-> "other"]

Undecodable == [kind |-> "undecodable"]

(* `{}' for an undecodable error page; PSIPProtocolError (Undecodable) for *)
(* an undecodable 2xx.                                                     *)
DecodeEnvelope(r) ==
    IF r.body.kind = "object" THEN r.body
    ELSE IF IsSuccess(r) THEN Undecodable ELSE EmptyEnvelope

ClassifyError(status) ==
    CASE status = 401 -> "PSIPAuthError"
      [] status = 404 -> "PSIPNotFoundError"
      [] status \in 400..499 \ {401, 404} -> "PSIPValidationError"
      [] status \in 500..599 -> "PSIPServerError"
      [] OTHER -> "PSIPAPIError"

HasUsableData(envelope) ==
    /\ envelope # Undecodable
    /\ envelope.status # "failure"
    /\ envelope.data # "other"

(* Mutated form: the HTTP status is not looked at, only the envelope.      *)
HandleEnvelopeOnly(r) ==
    IF HasUsableData(DecodeEnvelope(r)) THEN "Data" ELSE ClassifyError(r.status)

HandleResponse(r) ==
    CASE ~IsSuccess(r) -> ClassifyError(r.status)
      [] IsSuccess(r) /\ HasUsableData(DecodeEnvelope(r)) -> "Data"
      [] OTHER -> "PSIPProtocolError"
=============================================================================

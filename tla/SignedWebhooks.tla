--------------------------- MODULE SignedWebhooks ---------------------------
(***************************************************************************)
(* Signed deliveries and the secret they are signed with.                  *)
(*                                                                         *)
(* The consumer keeps the signing_secret that creating a webhook endpoint  *)
(* or `rotate_secret' (resources/webhook_endpoints.py) returned -- the     *)
(* only answers that carry it -- and has `verify_signature' (webhooks/     *)
(* verifier.py) check each delivery with it before a parser sees the body. *)
(* The gateway signs with the newest secret and forgets the older ones.    *)
(*                                                                         *)
(* rotate_secret is one request(): a POST whose attempts share one key.    *)
(* An attempt may be lost, or be served long after the client has gone on; *)
(* the gateway serves a key once and repeats the answer.                   *)
(* Deliveries are late, repeated or never come, with headers that have     *)
(* been cut short, joined with those of another delivery or extended; the  *)
(* two clocks differ.  The signature is ideal: that of other contents or   *)
(* with another secret is another one.                                     *)
(***************************************************************************)
EXTENDS Integers, Sequences, FiniteSets, WebhookEvents

CONSTANTS
    Rotations,     \* the calls of rotate_secret
    MaxAttempts,   \* of one of them: max_retries + 1
    Deliveries,    \* the deliveries of the gateway
    Bodies,        \* the payloads the gateway announces
    Body,          \* that of each delivery
    TICKS,         \* the clocks' ticks in a second
    TOLERANCE,     \* tolerance_seconds
    SKEW,          \* how many ticks the two clocks may differ by
    MaxTime,       \* the bound on the gateway's clock, in ticks
    NoCall, NotSent

(* What is not signed: a body changed on the way, one garbled.             *)
Altered == Payload("altered", "", {})
NotUtf8 == Payload("not UTF-8", "", {})

Requests == Rotations \X (1..MaxAttempts)
Messages == [at : 0..MaxTime, secret : Nat]
ASSUME SignedAssumption ==
    /\ MaxAttempts \in Nat \ {0}
    /\ TICKS \in Nat \ {0} /\ TOLERANCE \in Nat /\ SKEW \in Nat
    /\ MaxTime \in Nat
    /\ NoCall \notin Rotations
    /\ NotSent \notin Messages
    /\ Altered \notin Bodies /\ NotUtf8 \notin Bodies

ASSUME BodyAssumption ==
    /\ Body \in [Deliveries -> Bodies]
    /\ \A body \in Bodies : Announced(body)

VARIABLES
    now,        \* the gateway's clock
    skew,       \* the consumer's clock is so far ahead of it
    secret,     \* the gateway's signing secrets are numbered; the newest
    stored,     \* the one the consumer keeps; 0 is the empty string
    state,      \* of each rotate_secret: "idle", "waiting", "done", "failed"
    attempts,   \* how many requests each that is waiting has sent
    requests,   \* those under way to the gateway
    answered,   \* the calls an answer is on its way to, to the last attempt
    issued,     \* the secret it issued for each key, 0 if none
    sent,       \* what it has signed and sent, per delivery
    alone       \* history: the newest rotation, if nothing disturbed it

clocks == <<now, skew>>
rotationVars == <<secret, stored, state, attempts, requests, answered,
                  issued, alone>>
vars == <<clocks, rotationVars, sent>>

TypeOK ==
    /\ now \in 0..MaxTime
    /\ skew \in -SKEW..SKEW
    /\ secret \in Nat \ {0}
    /\ stored \in Nat
    /\ state \in [Rotations -> {"idle", "waiting", "done", "failed"}]
    /\ attempts \in [Rotations -> 0..MaxAttempts]
    /\ requests \subseteq Requests
    /\ answered \subseteq Rotations
    /\ issued \in [Requests -> Nat]
    /\ sent \in [Deliveries -> Messages \cup {NotSent}]
    /\ alone \in Rotations \cup {NoCall}

(* The endpoint was created, and the answer with its secret may have been  *)
(* lost: no other answer will show it.                                     *)
Init ==
    /\ now = 0
    /\ skew \in -SKEW..SKEW
    /\ secret = 1
    /\ stored \in {0, 1}
    /\ state = [c \in Rotations |-> "idle"]
    /\ attempts = [c \in Rotations |-> 0]
    /\ requests = {} /\ answered = {}
    /\ issued = [r \in Requests |-> 0]
    /\ sent = [d \in Deliveries |-> NotSent]
    /\ alone = NoCall
-----------------------------------------------------------------------------
(* rotate_secret.                                                          *)

(* Mutated form: every attempt has a key of its own.                       *)
KeyPerAttempt(r) == r

(* The Idempotency-Key of a request: minted once for all attempts.         *)
Key(r) == <<r[1], 1>>

Undisturbed ==
    /\ requests = {}
    /\ \A c \in Rotations : state[c] # "waiting"

RotateSecret(c) ==
    /\ state[c] = "idle"
    /\ state' = [state EXCEPT ![c] = "waiting"]
    /\ attempts' = [attempts EXCEPT ![c] = 1]
    /\ requests' = requests \cup {<<c, 1>>}
    /\ alone' = IF Undisturbed THEN c ELSE NoCall
    /\ UNCHANGED <<clocks, secret, stored, answered, issued, sent>>

(* The gateway gets a request, in any order and at any time.  The answer   *)
(* to an attempt that was given up has nobody to go to.                    *)
Serve(r) ==
    /\ r \in requests
    /\ requests' = requests \ {r}
    /\ answered' =
          IF state[r[1]] = "waiting" /\ attempts[r[1]] = r[2]
          THEN answered \cup {r[1]} ELSE answered
    /\ IF issued[Key(r)] = 0
       THEN /\ secret' = secret + 1
            /\ issued' = [issued EXCEPT ![Key(r)] = secret + 1]
       ELSE UNCHANGED <<secret, issued>>
    /\ UNCHANGED <<clocks, stored, state, attempts, sent, alone>>

(* The network lost it.                                                    *)
Lose(r) ==
    /\ r \in requests
    /\ requests' = requests \ {r}
    /\ UNCHANGED <<clocks, secret, stored, state, attempts, answered,
                   issued, sent, alone>>

AttemptsLeft(c) == attempts[c] < MaxAttempts

(* No answer, or a status to retry on: the request is sent again.          *)
Retry(c) ==
    /\ state[c] = "waiting"
    /\ AttemptsLeft(c)
    /\ attempts' = [attempts EXCEPT ![c] = attempts[c] + 1]
    /\ requests' = requests \cup {<<c, attempts[c] + 1>>}
    /\ answered' = answered \ {c}
    /\ UNCHANGED <<clocks, secret, stored, state, issued, sent, alone>>

(* The answer to the last attempt: the caller keeps its signing_secret.    *)
Return(c) ==
    /\ state[c] = "waiting"
    /\ c \in answered
    /\ answered' = answered \ {c}
    /\ stored' = issued[Key(<<c, attempts[c]>>)]
    /\ state' = [state EXCEPT ![c] = "done"]
    /\ attempts' = [attempts EXCEPT ![c] = 0]
    /\ UNCHANGED <<clocks, secret, requests, issued, sent, alone>>

(* An error that is not retried, no attempt left, or an answer that does   *)
(* not parse.                                                              *)
Raise(c) ==
    /\ state[c] = "waiting"
    /\ state' = [state EXCEPT ![c] = "failed"]
    /\ attempts' = [attempts EXCEPT ![c] = 0]
    /\ answered' = answered \ {c}
    /\ UNCHANGED <<clocks, secret, stored, requests, issued, sent, alone>>
-----------------------------------------------------------------------------
(* The gateway's deliveries.                                               *)

(* The header has whole seconds.                                           *)
Seconds(at) == at \div TICKS

Signature(s, t, body) == [secret |-> s, t |-> t, body |-> body]

TimePart(d) == [name |-> "t", value |-> Seconds(sent[d].at)]

DigestPart(d, body) ==
    [name |-> "v1",
     value |-> Signature(sent[d].secret, Seconds(sent[d].at), body)]

SignedPart(d) == DigestPart(d, Body[d])

HeaderOf(d) == <<TimePart(d), SignedPart(d)>>

Sent == {d \in Deliveries : sent[d] # NotSent}

Sign(d) ==
    /\ sent[d] = NotSent
    /\ sent' = [sent EXCEPT ![d] = [at |-> now, secret |-> secret]]
    /\ UNCHANGED <<clocks, rotationVars>>

(* Parts a header may have besides: another scheme, a time that is none;   *)
(* and a digest that is not ASCII.                                         *)
NoNumber == -1
OtherParts ==
    {[name |-> "v2", value |-> NoNumber], [name |-> "t", value |-> NoNumber]}

NotAscii == Signature(NoNumber, NoNumber, NotUtf8)
NotAsciiPart == [name |-> "v1", value |-> NotAscii]

CutShort(header) == {SubSeq(header, 1, n) : n \in 0..Len(header)}

(* What may arrive as the header of d: cut short anywhere, joined with     *)
(* another's as two headers of one name are, or with a part more.          *)
Arrivals(d) ==
    (UNION {CutShort(HeaderOf(d) \o HeaderOf(e)) : e \in Sent})
    \cup {HeaderOf(d) \o <<p>> : p \in OtherParts \cup {NotAsciiPart}}

Intact(d) == {HeaderOf(d)} \cup {HeaderOf(d) \o <<p>> : p \in OtherParts}
-----------------------------------------------------------------------------
(* verify_signature.                                                       *)

Times(header) ==
    {i \in DOMAIN header : header[i].name = "t" /\ header[i].value # NoNumber}

Digests(header) == {i \in DOMAIN header : header[i].name = "v1"}

Last(indices) == CHOOSE i \in indices : \A j \in indices : j <= i

(* _parse_signature_header: the last time that is a number and the last    *)
(* digest.                                                                 *)
Timestamp(header) == header[Last(Times(header))].value
Digest(header) == header[Last(Digests(header))].value

(* Mutated form: a time ahead of the clock is outside, too.                *)
OutsideAheadToo(t, clock) ==
    clock - t * TICKS > TOLERANCE * TICKS \/ clock < t * TICKS

(* abs(now_unix - timestamp) > tolerance_seconds                           *)
OutsideTolerance(t, clock) ==
    \/ clock - t * TICKS > TOLERANCE * TICKS
    \/ t * TICKS - clock > TOLERANCE * TICKS

Readable(header) == Times(header) # {} /\ Digests(header) # {}

(* Mutated form: the timestamp is not part of what is signed.              *)
MatchesBodyOnly(header, signing_secret, body) ==
    /\ Digest(header).secret = signing_secret
    /\ Digest(header).body = body

(* hmac.compare_digest, which refuses to compare what is not ASCII.        *)
Matches(header, signing_secret, body) ==
    Digest(header) = Signature(signing_secret, Timestamp(header), body)

VerifySignature(body, signing_secret, header, clock) ==
    IF signing_secret = 0 THEN "PSIPWebhookValidationError"
    ELSE IF header = <<>> THEN "PSIPWebhookForgeryError"
    ELSE IF ~Readable(header) THEN "PSIPWebhookValidationError"
    ELSE IF OutsideTolerance(Timestamp(header), clock)
         THEN "PSIPWebhookForgeryError"
    ELSE IF body = NotUtf8 THEN "UnicodeDecodeError"
    ELSE IF Digest(header) = NotAscii THEN "TypeError"
    ELSE IF Matches(header, signing_secret, body) THEN "accepted"
    ELSE "PSIPWebhookForgeryError"

Tick ==
    /\ now < MaxTime
    /\ now' = now + 1
    /\ UNCHANGED <<skew, rotationVars, sent>>

Next ==
    \/ \E c \in Rotations :
          RotateSecret(c) \/ Retry(c) \/ Return(c) \/ Raise(c)
    \/ \E r \in Requests : Serve(r) \/ Lose(r)
    \/ \E d \in Deliveries : Sign(d)
    \/ Tick

Spec == Init /\ [][Next]_vars
-----------------------------------------------------------------------------
(* verify_signature keeps nothing: a delivery may arrive in any state, and *)
(* any number of times, with any of its headers and its body as it was or  *)
(* changed or garbled on the way.                                          *)
Changed(d) == {Body[d], Altered, NotUtf8}

LetsPass(header, body) ==
    VerifySignature(body, stored, header, now + skew) = "accepted"

(* What verify_signature lets pass the gateway signed, contents and all,   *)
(* with the secret the consumer keeps, and not longer ago than the         *)
(* tolerance and the clocks' difference allow: however headers are cut     *)
(* short or joined, a stale delivery is not refreshed by another's time,   *)
(* and a repetition counts only within that window.                        *)
AcceptedIsRecent ==
    \A d \in Sent : \A header \in Arrivals(d) :
        \A body \in Changed(d) :
            LetsPass(header, body) =>
                \E e \in Sent :
                    /\ Body[e] = body
                    /\ sent[e].secret = stored
                    /\ now - sent[e].at <= TOLERANCE * TICKS + SKEW

(* A delivery that arrives whole, signed with the secret the consumer      *)
(* keeps, is let pass while it is younger than the tolerance less the      *)
(* clocks' difference and the second that the header rounds off; also if   *)
(* the consumer's clock is behind the gateway's.                           *)
PromptIsAccepted ==
    \A d \in Sent : \A header \in Intact(d) :
        /\ stored # 0 /\ sent[d].secret = stored
        /\ now - sent[d].at + SKEW + (TICKS - 1) <= TOLERANCE * TICKS
        => LetsPass(header, Body[d])

(* When a rotate_secret that began with nothing else under way returns,    *)
(* the consumer has the newest secret, and keeps it until the next one is  *)
(* called: no attempt that was given up rotates it once more behind its    *)
(* back.  So a lost answer is made good by rotating again.                 *)
CurrentAfterRotation ==
    alone # NoCall /\ state[alone] = "done" => stored = secret

(* What the parsers should make of a payload.  payment_completed asks no   *)
(* event: it takes whatever says all that a completed payment does, so     *)
(* that the literal in its status is what keeps refunds and other events   *)
(* with a payment's fields from being taken for one.  Of the other parsers *)
(* one takes the events that have a model, whatever fields come with them, *)
(* and none the payments and refunds of Checkout.                          *)
Misread ==
    {body \in Bodies :
        ~(/\ "payment_completed" \in ParsedBy(body) <=> SaysCompleted(body)
          /\ Cardinality(ParsedBy(body) \ {"payment_completed"}) =
                (IF body.event \in {"payment.completed", "payment.refunded"}
                 THEN 0 ELSE 1))}

(* Whichever announced payload a delivery is of, it is not let pass to be  *)
(* misread: taken by two parsers of its event, by none, or for a payment   *)
(* that it is not.                                                         *)
UnderstoodAsAnnounced ==
    \A d \in Sent, body \in Misread :
        ~LetsPass(<<TimePart(d), DigestPart(d, body)>>, body)
-----------------------------------------------------------------------------
(* The refinement of RemoteOperation.                                      *)

ResultIn ==
    [idle |-> "none", waiting |-> "pending", done |-> "data",
     failed |-> "error"]

ResultOf == [c \in Rotations |-> ResultIn[state[c]]]

IssuedFor(c) == {r \in Requests : r[1] = c /\ issued[r] # 0}

EffectsOf == [c \in Rotations |-> Cardinality(IssuedFor(c))]

Remote == INSTANCE RemoteOperation
    WITH Calls <- Rotations, Writes <- Rotations, Operations <- Rotations,
         OperationOf <- [c \in Rotations |-> c],
         result <- ResultOf, effects <- EffectsOf

(* rotate_secret over the retries is a call that rotates at most once,     *)
(* perhaps after it failed, and has rotated when it returns: what the      *)
(* other resources take request() for.                                     *)
RotationIsOneOperation == Remote!Spec
=============================================================================

------------------------ MODULE SignedWebhooksProofs ------------------------
(***************************************************************************)
(* What holds of SignedWebhooks for any number of rotations, attempts and  *)
(* deliveries, any payloads, any tolerance and clock difference.           *)
(***************************************************************************)
EXTENDS SignedWebhooks, FiniteSetTheorems, TLAPS

USE SignedAssumption

(* A request shares its key with the first attempt of its call.            *)
LEMMA KeyOfRequest ==
    ASSUME NEW r \in Requests
    PROVE  Key(r) \in Requests /\ Key(r) = <<r[1], 1>> /\ r[1] \in Rotations
           /\ r = <<r[1], r[2]>> /\ r[2] \in 1..MaxAttempts
BY DEF Requests, Key

(* What makes CurrentAfterRotation inductive: an undisturbed rotation is   *)
(* the only one with requests under way, so that nobody but it can rotate, *)
(* and it rotates once.                                                    *)
ClockInv == \A d \in Sent : sent[d].at <= now

CallInv ==
    /\ \A r \in Requests :
          /\ r \in requests => state[r[1]] # "idle"
          /\ issued[Key(r)] # 0 => state[r[1]] # "idle"
    /\ \A c \in answered : issued[<<c, 1>>] # 0
    /\ \A c \in Rotations : state[c] = "idle" => c \notin answered

AloneInv ==
    alone # NoCall =>
        /\ state[alone] # "idle"
        /\ \A r \in requests : r[1] = alone
        /\ \A c \in Rotations \ {alone} : state[c] # "waiting"
        /\ issued[<<alone, 1>>] # 0 => issued[<<alone, 1>>] = secret
        /\ state[alone] = "done" =>
              issued[<<alone, 1>>] # 0 /\ stored = issued[<<alone, 1>>]

SecretInv == ClockInv /\ CallInv /\ AloneInv

IInv == TypeOK /\ SecretInv

LEMMA InitInv == Init => IInv
<1> SUFFICES ASSUME Init PROVE IInv
  OBVIOUS
<1>1. TypeOK
  BY DEF Init, TypeOK
<1>2. SecretInv
  BY <1>1, KeyOfRequest DEF Init, SecretInv, ClockInv, CallInv, AloneInv, Sent
<1> QED
  BY <1>1, <1>2 DEF IInv

LEMMA RotateSecretInv ==
    ASSUME IInv, NEW c \in Rotations, RotateSecret(c) PROVE IInv'
<1> USE DEF IInv, TypeOK, SecretInv
<1>0. <<c, 1>> \in Requests /\ Key(<<c, 1>>) = <<c, 1>>
  BY DEF Requests, Key
<1>1. TypeOK'
  BY <1>0 DEF RotateSecret, clocks
<1>2. ClockInv'
  BY DEF RotateSecret, clocks, ClockInv, Sent
<1>3. CallInv'
  BY <1>0, KeyOfRequest DEF RotateSecret, CallInv
<1>4. AloneInv'
  <2>1. CASE Undisturbed
    BY <2>1, <1>0, KeyOfRequest DEF RotateSecret, CallInv, AloneInv, Undisturbed
  <2>2. CASE ~Undisturbed
    BY <2>2 DEF RotateSecret, AloneInv
  <2> QED
    BY <2>1, <2>2
<1> QED
  BY <1>1, <1>2, <1>3, <1>4

LEMMA ServeInv ==
    ASSUME IInv, NEW r \in Requests, Serve(r) PROVE IInv'
<1> USE DEF IInv, TypeOK, SecretInv
<1>0. /\ Key(r) \in Requests /\ Key(r) = <<r[1], 1>> /\ r[1] \in Rotations
      /\ r \in requests /\ requests' = requests \ {r}
      /\ answered' = answered \/ answered' = answered \cup {r[1]}
      /\ \/ issued[Key(r)] # 0 /\ UNCHANGED <<secret, issued>>
         \/ /\ issued[Key(r)] = 0 /\ secret' = secret + 1
            /\ issued' = [issued EXCEPT ![Key(r)] = secret + 1]
      /\ UNCHANGED <<now, skew, stored, state, attempts, sent, alone>>
  BY KeyOfRequest DEF Serve, clocks
<1>1. TypeOK'
  BY <1>0
<1>2. ClockInv'
  BY <1>0 DEF ClockInv, Sent
<1>3. CallInv'
  <2>1. \A q \in Requests : issued'[Key(q)] # 0 =>
           issued[Key(q)] # 0 \/ Key(q) = Key(r)
    BY <1>0, KeyOfRequest
  <2>2. \A q \in Requests : Key(q) = Key(r) => q[1] = r[1]
    BY KeyOfRequest DEF Key
  <2>3. state[r[1]] # "idle"
    BY <1>0 DEF CallInv
  <2>4. \A k \in Requests : issued[k] # 0 => issued'[k] # 0
    BY <1>0
  <2>5. issued'[Key(r)] # 0
    BY <1>0
  <2>6. \A c \in Rotations : <<c, 1>> \in Requests
    BY DEF Requests
  <2> QED
    BY <1>0, <2>1, <2>2, <2>3, <2>4, <2>5, <2>6 DEF CallInv
<1>4. AloneInv'
  <2> SUFFICES ASSUME alone # NoCall PROVE AloneInv'
    BY <1>0 DEF AloneInv
  <2>1. r[1] = alone /\ Key(r) = <<alone, 1>>
    BY <1>0 DEF AloneInv
  <2> QED
    BY <1>0, <2>1 DEF AloneInv
<1> QED
  BY <1>1, <1>2, <1>3, <1>4

LEMMA LoseInv ==
    ASSUME IInv, NEW r \in Requests, Lose(r) PROVE IInv'
BY KeyOfRequest
   DEF IInv, TypeOK, SecretInv, ClockInv, CallInv, AloneInv, Sent, Lose,
       clocks

LEMMA RetryInv ==
    ASSUME IInv, NEW c \in Rotations, Retry(c) PROVE IInv'
<1> USE DEF IInv, TypeOK, SecretInv
<1>0. /\ <<c, attempts[c] + 1>> \in Requests
      /\ <<c, attempts[c] + 1>>[1] = c
  BY DEF Requests, Retry, AttemptsLeft
<1>1. TypeOK'
  BY <1>0 DEF Retry, AttemptsLeft, clocks
<1>2. ClockInv'
  BY DEF Retry, AttemptsLeft, clocks, ClockInv, Sent
<1>3. CallInv'
  BY <1>0 DEF Retry, AttemptsLeft, CallInv
<1>4. AloneInv'
  BY <1>0 DEF Retry, AttemptsLeft, AloneInv
<1> QED
  BY <1>1, <1>2, <1>3, <1>4

LEMMA ReturnInv ==
    ASSUME IInv, NEW c \in Rotations, Return(c) PROVE IInv'
<1> USE DEF IInv, TypeOK, SecretInv
<1>0. /\ Key(<<c, attempts[c]>>) = <<c, 1>> /\ <<c, 1>> \in Requests
      /\ issued[<<c, 1>>] # 0
  BY DEF Requests, Key, Return, CallInv
<1>1. TypeOK'
  BY <1>0 DEF Return, clocks
<1>2. ClockInv'
  BY DEF Return, clocks, ClockInv, Sent
<1>3. CallInv'
  BY <1>0, KeyOfRequest DEF Return, CallInv
<1>4. AloneInv'
  BY <1>0 DEF Return, AloneInv
<1> QED
  BY <1>1, <1>2, <1>3, <1>4

LEMMA RaiseInv ==
    ASSUME IInv, NEW c \in Rotations, Raise(c) PROVE IInv'
BY KeyOfRequest
   DEF IInv, TypeOK, SecretInv, ClockInv, CallInv, AloneInv, Sent, Raise,
       clocks

LEMMA SignInv ==
    ASSUME IInv, NEW d \in Deliveries, Sign(d) PROVE IInv'
<1> USE DEF IInv, TypeOK, SecretInv, Sign, clocks, rotationVars
<1>1. TypeOK'
  BY DEF Messages
<1>2. ClockInv'
  BY DEF ClockInv, Sent, Messages
<1>3. CallInv' /\ AloneInv'
  BY DEF CallInv, AloneInv
<1> QED
  BY <1>1, <1>2, <1>3

LEMMA TickInv == ASSUME IInv, Tick PROVE IInv'
<1> USE DEF IInv, TypeOK, SecretInv, Tick, rotationVars
<1>1. TypeOK'
  OBVIOUS
<1>2. ClockInv'
  BY DEF ClockInv, Sent, Messages
<1>3. CallInv' /\ AloneInv'
  BY DEF CallInv, AloneInv
<1> QED
  BY <1>1, <1>2, <1>3

LEMMA StutterInv == ASSUME IInv, UNCHANGED vars PROVE IInv'
BY DEF IInv, TypeOK, SecretInv, ClockInv, CallInv, AloneInv, Sent, vars,
       clocks, rotationVars

LEMMA NextInv == IInv /\ [Next]_vars => IInv'
BY RotateSecretInv, ServeInv, LoseInv, RetryInv, ReturnInv, RaiseInv, SignInv,
   TickInv, StutterInv DEF Next

LEMMA AlwaysInv == Spec => []IInv
BY InitInv, NextInv, PTL DEF Spec

(* Every variable keeps its type.                                          *)
THEOREM TypeCorrect == Spec => []TypeOK
<1>1. IInv => TypeOK
  BY DEF IInv
<1> QED
  BY <1>1, AlwaysInv, PTL

(* The secret that an undisturbed rotation returned is the gateway's own,  *)
(* however often it was retried and whatever of it was lost or late.       *)
THEOREM RotationKeepsInStep == Spec => []CurrentAfterRotation
<1>1. IInv => CurrentAfterRotation
  BY DEF IInv, SecretInv, AloneInv, CurrentAfterRotation
<1> QED
  BY <1>1, AlwaysInv, PTL
-----------------------------------------------------------------------------
(* verify_signature.                                                       *)

(* The header's whole seconds are at most a second behind.                 *)
LEMMA RoundedDown ==
    ASSUME NEW at \in Nat
    PROVE  /\ Seconds(at) \in Int
           /\ Seconds(at) * TICKS <= at
           /\ at <= Seconds(at) * TICKS + (TICKS - 1)
<1>1. at \div TICKS \in Int /\ (at \div TICKS) * TICKS <= at
      /\ at < (at \div TICKS) * TICKS + TICKS
  BY SMT
<1> QED
  BY <1>1 DEF Seconds

LEMMA LastIsIn ==
    ASSUME NEW S \in SUBSET (1..4), S # {}
    PROVE  Last(S) \in S /\ \A j \in S : j <= Last(S)
<1>1. \E i \in S : \A j \in S : j <= i
  <2>1. CASE 4 \in S
    BY <2>1
  <2>2. CASE 4 \notin S /\ 3 \in S
    BY <2>2
  <2>3. CASE 4 \notin S /\ 3 \notin S /\ 2 \in S
    BY <2>3
  <2>4. CASE 4 \notin S /\ 3 \notin S /\ 2 \notin S
    <3>1. \A j \in S : j = 1
      BY <2>4
    <3>2. 1 \in S
      BY <3>1
    <3> QED
      BY <3>1, <3>2
  <2> QED
    BY <2>1, <2>2, <2>3, <2>4
<1> QED
  BY <1>1 DEF Last

Parts == {TimePart(e) : e \in Sent} \cup {SignedPart(e) : e \in Sent}
         \cup OtherParts \cup {NotAsciiPart}

(* A header that arrives is made of at most four parts, each of a delivery *)
(* the gateway sent or unknown.                                            *)
LEMMA PartsOfHeader ==
    ASSUME NEW d \in Sent, NEW header \in Arrivals(d)
    PROVE  DOMAIN header \in SUBSET (1..4)
           /\ \A i \in DOMAIN header : header[i] \in Parts
<1>0. /\ TimePart(d) \in Parts /\ SignedPart(d) \in Parts
      /\ \A p \in OtherParts \cup {NotAsciiPart} : p \in Parts
  BY DEF Parts
<1>1. ASSUME NEW e \in Sent, header \in CutShort(HeaderOf(d) \o HeaderOf(e))
      PROVE  DOMAIN header \in SUBSET (1..4)
             /\ \A i \in DOMAIN header : header[i] \in Parts
  <2>1. TimePart(e) \in Parts /\ SignedPart(e) \in Parts
    BY DEF Parts
  <2>2. HeaderOf(d) \o HeaderOf(e) \in Seq(Parts)
        /\ Len(HeaderOf(d) \o HeaderOf(e)) = 4
    BY <1>0, <2>1 DEF HeaderOf
  <2>3. PICK n \in 0..4 : header = SubSeq(HeaderOf(d) \o HeaderOf(e), 1, n)
    BY <1>1, <2>2 DEF CutShort
  <2> QED
    BY <2>2, <2>3
<1>2. ASSUME NEW p \in OtherParts \cup {NotAsciiPart},
             header = HeaderOf(d) \o <<p>>
      PROVE  DOMAIN header \in SUBSET (1..4)
             /\ \A i \in DOMAIN header : header[i] \in Parts
  <2>1. header \in Seq(Parts) /\ Len(header) = 3
    BY <1>0, <1>2 DEF HeaderOf
  <2> QED
    BY <2>1
<1>3. \/ \E e \in Sent : header \in CutShort(HeaderOf(d) \o HeaderOf(e))
      \/ \E p \in OtherParts \cup {NotAsciiPart} :
            header = HeaderOf(d) \o <<p>>
  BY Zenon DEF Arrivals
<1> QED
  BY <1>1, <1>2, <1>3

(* No signature is that of another secret, time or body.                   *)
LEMMA PassedMeansSigned ==
    ASSUME NEW d \in Sent, NEW header \in Arrivals(d), NEW body,
           LetsPass(header, body)
    PROVE  \E e \in Sent :
              /\ Body[e] = body /\ sent[e].secret = stored
              /\ ~OutsideTolerance(Seconds(sent[e].at), now + skew)
<1>1. /\ Readable(header)
      /\ ~OutsideTolerance(Timestamp(header), now + skew)
      /\ Matches(header, stored, body) /\ Digest(header) # NotAscii
  BY DEF LetsPass, VerifySignature
<1>2. Digests(header) \in SUBSET (1..4) /\ Digests(header) # {}
  BY <1>1, PartsOfHeader DEF Readable, Digests
<1> DEFINE i == Last(Digests(header))
<1>3. i \in DOMAIN header /\ header[i].name = "v1"
  BY <1>2, LastIsIn DEF Digests
<1>4. PICK e \in Sent : header[i] = SignedPart(e)
  <2>1. header[i] # NotAsciiPart
    BY <1>1 DEF Digest, NotAsciiPart
  <2> QED
    BY <1>3, <2>1, PartsOfHeader DEF Parts, TimePart, OtherParts
<1>5. Signature(sent[e].secret, Seconds(sent[e].at), Body[e])
         = Signature(stored, Timestamp(header), body)
  BY <1>1, <1>4 DEF Matches, Digest, SignedPart, DigestPart
<1>6. /\ sent[e].secret = stored
      /\ Seconds(sent[e].at) = Timestamp(header)
      /\ Body[e] = body
  BY <1>5 DEF Signature
<1> QED
  BY <1>1, <1>6

(* Nothing passes but what the gateway signed recently with the secret the *)
(* consumer keeps.                                                         *)
THEOREM OnlyRecentPasses == Spec => []AcceptedIsRecent
<1>1. ASSUME IInv PROVE AcceptedIsRecent
  <2> SUFFICES ASSUME NEW d \in Sent, NEW header \in Arrivals(d),
                      NEW body \in Changed(d), LetsPass(header, body)
               PROVE  \E e \in Sent :
                         /\ Body[e] = body /\ sent[e].secret = stored
                         /\ now - sent[e].at <= TOLERANCE * TICKS + SKEW
    BY DEF AcceptedIsRecent
  <2>1. PICK e \in Sent :
           /\ Body[e] = body /\ sent[e].secret = stored
           /\ ~OutsideTolerance(Seconds(sent[e].at), now + skew)
    BY PassedMeansSigned
  <2>2. sent[e].at \in Nat /\ now \in Int /\ skew \in Int /\ -SKEW <= skew
    BY <1>1 DEF IInv, TypeOK, Sent, Messages
  <2> DEFINE s == Seconds(sent[e].at) * TICKS
             w == TOLERANCE * TICKS
  <2>3. s \in Int /\ w \in Int /\ s <= sent[e].at
    BY <2>2, RoundedDown
  <2>4. now + skew - s <= w
    BY <2>1, <2>2, <2>3 DEF OutsideTolerance
  <2>5. now - sent[e].at <= w + SKEW
    <3> HIDE DEF s, w
    <3> QED
      BY <2>2, <2>3, <2>4
  <2> QED
    BY <2>1, <2>5
<1> QED
  BY <1>1, AlwaysInv, PTL

(* Of an intact header the time and the digest are the delivery's own.     *)
LEMMA IntactHeader ==
    ASSUME NEW d \in Sent, IInv, NEW header \in Intact(d)
    PROVE  /\ header # <<>> /\ Readable(header)
           /\ Timestamp(header) = Seconds(sent[d].at)
           /\ Digest(header) # NotAscii
           /\ Matches(header, sent[d].secret, Body[d])
<1>1. sent[d].at \in Nat /\ sent[d].secret \in Nat
  BY DEF IInv, TypeOK, Sent, Messages
<1>2. Seconds(sent[d].at) # NoNumber
  <2>1. Seconds(sent[d].at) * TICKS + (TICKS - 1) >= 0
        /\ Seconds(sent[d].at) \in Int
    BY <1>1, RoundedDown
  <2> QED
    BY <2>1 DEF NoNumber
<1>3. /\ header[1] = TimePart(d) /\ header[2] = SignedPart(d)
      /\ \/ DOMAIN header = 1..2
         \/ DOMAIN header = 1..3 /\ header[3] \in OtherParts
  <2>1. CASE header = HeaderOf(d)
    BY <2>1 DEF HeaderOf
  <2>2. ASSUME NEW p \in OtherParts, header = HeaderOf(d) \o <<p>>
        PROVE  /\ header[1] = TimePart(d) /\ header[2] = SignedPart(d)
               /\ DOMAIN header = 1..3 /\ header[3] \in OtherParts
    <3>1. /\ header = <<TimePart(d), SignedPart(d)>> \o <<p>>
          /\ <<TimePart(d), SignedPart(d)>> \in Seq({TimePart(d), SignedPart(d)})
          /\ <<p>> \in Seq(OtherParts)
      BY <2>2 DEF HeaderOf
    <3>2. /\ header[1] = TimePart(d) /\ header[2] = SignedPart(d)
          /\ DOMAIN header = 1..3 /\ header[3] = p
      BY <3>1
    <3> QED
      BY <3>2, <2>2
  <2> QED
    BY <2>1, <2>2 DEF Intact
<1>4. Times(header) = {1}
  BY <1>2, <1>3 DEF Times, TimePart, SignedPart, DigestPart, OtherParts
<1>5. Digests(header) = {2}
  BY <1>3 DEF Digests, TimePart, SignedPart, DigestPart, OtherParts
<1>6. Last({1}) = 1 /\ Last({2}) = 2
  BY LastIsIn
<1>7. /\ Timestamp(header) = Seconds(sent[d].at)
      /\ Digest(header) = SignedPart(d).value
  BY <1>3, <1>4, <1>5, <1>6 DEF Timestamp, Digest, TimePart
<1>8. header # <<>>
  BY <1>3
<1>9. Digest(header) # NotAscii
  BY <1>1, <1>7 DEF SignedPart, DigestPart, Signature, NotAscii, NoNumber
<1> QED
  BY <1>4, <1>5, <1>7, <1>8, <1>9 DEF Readable, Matches, SignedPart, DigestPart

(* A young delivery that is whole passes, whichever clock is ahead.        *)
THEOREM PromptPasses == Spec => []PromptIsAccepted
<1>1. ASSUME IInv PROVE PromptIsAccepted
  <2> SUFFICES ASSUME NEW d \in Sent, NEW header \in Intact(d),
                      stored # 0, sent[d].secret = stored,
                      now - sent[d].at + SKEW + (TICKS - 1)
                         <= TOLERANCE * TICKS
               PROVE  LetsPass(header, Body[d])
    BY DEF PromptIsAccepted
  <2>1. /\ header # <<>> /\ Readable(header)
        /\ Timestamp(header) = Seconds(sent[d].at)
        /\ Digest(header) # NotAscii
        /\ Matches(header, stored, Body[d])
    BY <1>1, IntactHeader
  <2>2. /\ sent[d].at \in Nat /\ now \in Int /\ skew \in Int
        /\ -SKEW <= skew /\ skew <= SKEW /\ sent[d].at <= now
    BY <1>1 DEF IInv, TypeOK, Sent, Messages, SecretInv, ClockInv
  <2> DEFINE s == Seconds(sent[d].at) * TICKS
             w == TOLERANCE * TICKS
  <2>3. /\ s \in Int /\ w \in Int /\ s <= sent[d].at
        /\ sent[d].at <= s + (TICKS - 1)
        /\ now - sent[d].at + SKEW + (TICKS - 1) <= w
    BY <2>2, RoundedDown
  <2>4. now + skew - s <= w /\ s - (now + skew) <= w
    <3> HIDE DEF s, w
    <3> QED
      BY <2>2, <2>3
  <2>5. ~OutsideTolerance(Timestamp(header), now + skew)
    BY <2>1, <2>2, <2>3, <2>4 DEF OutsideTolerance
  <2>6. Body[d] # NotUtf8
    BY BodyAssumption DEF Sent
  <2> QED
    BY <2>1, <2>5, <2>6 DEF LetsPass, VerifySignature
<1> QED
  BY <1>1, AlwaysInv, PTL
-----------------------------------------------------------------------------
(* The events and fields of the models, spelled out.                       *)
ParserNames ==
    {"payment_completed", "payment_intent_succeeded", "payment_intent_failed",
     "customer_event", "subscription_event", "invoice_event"}

LEMMA ParserModels ==
    /\ DOMAIN Parsers = ParserNames
    /\ Parsers["payment_completed"] = PaymentCompletedEvent
    /\ Parsers["payment_intent_succeeded"] = PaymentIntentSucceededEvent
    /\ Parsers["payment_intent_failed"] = PaymentIntentFailedEvent
    /\ Parsers["customer_event"] = CustomerEvent
    /\ Parsers["subscription_event"] = SubscriptionEvent
    /\ Parsers["invoice_event"] = InvoiceEvent
BY DEF Parsers, ParserNames

LEMMA ModelEvents ==
    /\ PaymentCompletedEvent.events = {}
    /\ PaymentIntentSucceededEvent.events = {"payment_intent.succeeded"}
    /\ PaymentIntentFailedEvent.events = {"payment_intent.payment_failed"}
    /\ CustomerEvent.events = {"customer.created", "customer.updated"}
    /\ SubscriptionEvent.events =
          {"subscription.created", "subscription.updated",
           "subscription.deleted", "subscription.trial_will_end"}
    /\ InvoiceEvent.events =
          {"invoice.paid", "invoice.payment_failed", "invoice.upcoming"}
BY DEF PaymentCompletedEvent, PaymentIntentSucceededEvent,
       PaymentIntentFailedEvent, IntentEvent, CustomerEvent,
       SubscriptionEvent, InvoiceEvent, Model

(* No event has two models.                                                *)
LEMMA EventsApart ==
    ASSUME NEW p \in ParserNames, NEW q \in ParserNames,
           NEW event \in Parsers[p].events, event \in Parsers[q].events
    PROVE  p = q
BY ParserModels, ModelEvents DEF ParserNames

LEMMA OtherEvents ==
    /\ \A p \in ParserNames : "payment.completed" \notin Parsers[p].events
    /\ \A p \in ParserNames : "payment.refunded" \notin Parsers[p].events
BY ParserModels, ModelEvents DEF ParserNames

(* Only the model of payments of Checkout takes an event by other things   *)
(* than its name.                                                          *)
LEMMA Named ==
    ASSUME NEW p \in ParserNames, p # "payment_completed"
    PROVE  Parsers[p].events # {} /\ Parsers[p].statuses = {}
<1>1. Parsers[p].events # {}
  BY ParserModels, ModelEvents DEF ParserNames
<1>2. Parsers[p].statuses = {}
  BY ParserModels
     DEF ParserNames, PaymentIntentSucceededEvent, PaymentIntentFailedEvent,
         IntentEvent, CustomerEvent, SubscriptionEvent, InvoiceEvent, Model
<1> QED
  BY <1>1, <1>2

(* payment_completed takes what says all of a completed payment, whatever  *)
(* else it says.                                                           *)
LEMMA TakenForPayment ==
    ASSUME NEW payload
    PROVE  "payment_completed" \in ParsedBy(payload) <=> SaysCompleted(payload)
<1>1. /\ PaymentCompletedEvent.events = {}
      /\ PaymentCompletedEvent.statuses = {"completed"}
      /\ PaymentCompletedEvent.required =
            {"order_id", "status", "amount", "currency", "transaction_id"}
  BY DEF PaymentCompletedEvent, Model
<1>2. Accepts(PaymentCompletedEvent, payload) <=> SaysCompleted(payload)
  BY <1>1 DEF Accepts, SaysCompleted
<1> QED
  BY <1>2, ParserModels DEF ParsedBy, ParserNames

(* Which of the other parsers takes what the gateway announces.            *)
LEMMA OneParser ==
    ASSUME NEW payload, Announced(payload)
    PROVE  Cardinality(ParsedBy(payload) \ {"payment_completed"}) =
               (IF payload.event \in {"payment.completed", "payment.refunded"}
                THEN 0 ELSE 1)
<1> USE ParserModels
<1>1. CASE payload.event \in {"payment.completed", "payment.refunded"}
  <2>1. ASSUME NEW p \in ParserNames, p # "payment_completed"
        PROVE  ~Accepts(Parsers[p], payload)
    BY <1>1, <2>1, Named, OtherEvents DEF Accepts
  <2>2. ParsedBy(payload) \ {"payment_completed"} = {}
    BY <2>1 DEF ParsedBy
  <2> QED
    BY <1>1, <2>2, FS_EmptySet
<1>2. CASE payload.event \notin {"payment.completed", "payment.refunded"}
  <2>1. PICK p \in ParserNames :
              /\ payload.event \in Parsers[p].events
              /\ Parsers[p].required \subseteq payload.fields
    BY <1>2 DEF Announced
  <2>2. p # "payment_completed"
    BY <2>1, ModelEvents
  <2>3. Accepts(Parsers[p], payload)
    BY <2>1, <2>2, Named DEF Accepts
  <2>4. ASSUME NEW q \in ParserNames, q # p, q # "payment_completed"
        PROVE  ~Accepts(Parsers[q], payload)
    BY <2>1, <2>4, Named, EventsApart DEF Accepts
  <2>5. ParsedBy(payload) \ {"payment_completed"} = {p}
    BY <2>2, <2>3, <2>4 DEF ParsedBy
  <2> QED
    BY <1>2, <2>5, FS_Singleton
<1> QED
  BY <1>1, <1>2

(* Whatever is announced is taken by the parser of its event, with         *)
(* whichever fields it comes, and for a payment if and only if it says all *)
(* of a completed one.                                                     *)
LEMMA NothingMisread == Misread = {}
BY BodyAssumption, OneParser, TakenForPayment DEF Misread

(* So whatever passes is understood, whichever payload it is.              *)
THEOREM TakenAsAnnounced == Spec => []UnderstoodAsAnnounced
<1>1. UnderstoodAsAnnounced
  BY NothingMisread DEF UnderstoodAsAnnounced
<1> QED
  BY <1>1, PTL
-----------------------------------------------------------------------------
(* The refinement of RemoteOperation.                                      *)

(* A call has one key, that of its first attempt.                          *)
FirstKeysOnly == \A r \in Requests : issued[r] # 0 => r = Key(r)

LEMMA KeyOfKey == ASSUME NEW r \in Requests PROVE Key(Key(r)) = Key(r)
BY DEF Key

LEMMA AlwaysFirstKeys == Spec => []FirstKeysOnly
<1>1. Init => FirstKeysOnly
  BY DEF Init, FirstKeysOnly
<1>2. ASSUME IInv, FirstKeysOnly, [Next]_vars PROVE FirstKeysOnly'
  <2>1. \/ UNCHANGED issued
        \/ \E r \in Requests : issued' = [issued EXCEPT ![Key(r)] = secret + 1]
    BY <1>2 DEF Next, vars, rotationVars, RotateSecret, Retry, Return, Raise,
                Serve, Lose, Sign, Tick
  <2> QED
    BY <1>2, <2>1, KeyOfKey DEF FirstKeysOnly, IInv, TypeOK
<1> QED
  BY <1>1, <1>2, AlwaysInv, PTL DEF Spec

LEMMA OneKeyOneEffect ==
    ASSUME NEW c \in Rotations, NEW f,
           \A r \in Requests : f[r] # 0 => r = Key(r)
    PROVE  Cardinality({r \in Requests : r[1] = c /\ f[r] # 0})
              = IF f[<<c, 1>>] = 0 THEN 0 ELSE 1
<1> DEFINE S == {r \in Requests : r[1] = c /\ f[r] # 0}
<1>1. <<c, 1>> \in Requests
  BY DEF Requests
<1>2. \A r \in S : r = <<c, 1>>
  BY KeyOfRequest
<1>3. CASE f[<<c, 1>>] = 0
  <2>1. S = {}
    BY <1>2, <1>3
  <2> QED
    BY <1>3, <2>1, FS_EmptySet
<1>4. CASE f[<<c, 1>>] # 0
  <2>1. S = {<<c, 1>>}
    BY <1>1, <1>2, <1>4
  <2> QED
    BY <1>4, <2>1, FS_Singleton
<1> QED
  BY <1>3, <1>4

LEMMA EffectOf ==
    ASSUME FirstKeysOnly, NEW c \in Rotations
    PROVE  EffectsOf[c] = IF issued[<<c, 1>>] = 0 THEN 0 ELSE 1
BY OneKeyOneEffect DEF FirstKeysOnly, EffectsOf, IssuedFor

LEMMA EffectAfter ==
    ASSUME FirstKeysOnly', NEW c \in Rotations
    PROVE  EffectsOf'[c] = IF issued'[<<c, 1>>] = 0 THEN 0 ELSE 1
BY OneKeyOneEffect DEF FirstKeysOnly, EffectsOf, IssuedFor

LEMMA SameEffects ==
    ASSUME UNCHANGED issued PROVE UNCHANGED EffectsOf
BY DEF EffectsOf, IssuedFor

LEMMA SameResults ==
    ASSUME UNCHANGED state PROVE UNCHANGED ResultOf
BY DEF ResultOf

(* What a step of one call does to the state it does to the result.        *)
LEMMA Results ==
    /\ ResultIn["idle"] = "none" /\ ResultIn["waiting"] = "pending"
    /\ ResultIn["done"] = "data" /\ ResultIn["failed"] = "error"
BY DEF ResultIn

LEMMA ResultMoves ==
    ASSUME IInv, NEW c \in Rotations, NEW s,
           state' = [state EXCEPT ![c] = s]
    PROVE  /\ ResultOf[c] = ResultIn[state[c]]
           /\ ResultOf' = [ResultOf EXCEPT ![c] = ResultIn[s]]
BY DEF ResultOf, IInv, TypeOK

LEMMA CallMoves ==
    ASSUME IInv, NEW c \in Rotations, state[c] = "idle",
           state' = [state EXCEPT ![c] = "waiting"]
    PROVE  /\ ResultOf[c] = "none"
           /\ ResultOf' = [ResultOf EXCEPT ![c] = "pending"]
<1>1. /\ ResultOf[c] = ResultIn["idle"]
      /\ ResultOf' = [ResultOf EXCEPT ![c] = ResultIn["waiting"]]
  BY ResultMoves
<1> QED
  BY <1>1, Results

LEMMA EndMoves ==
    ASSUME IInv, NEW c \in Rotations, state[c] = "waiting",
           NEW s, state' = [state EXCEPT ![c] = s]
    PROVE  /\ ResultOf[c] = "pending"
           /\ ResultOf' = [ResultOf EXCEPT ![c] = ResultIn[s]]
<1>1. /\ ResultOf[c] = ResultIn["waiting"]
      /\ ResultOf' = [ResultOf EXCEPT ![c] = ResultIn[s]]
  BY ResultMoves
<1> QED
  BY <1>1, Results

(* A request that is served the first time for its call is the effect of   *)
(* it, and a repetition changes nothing.                                   *)
LEMMA ServeTakesEffect ==
    ASSUME IInv, FirstKeysOnly, FirstKeysOnly', NEW r \in Requests, Serve(r)
    PROVE  Remote!TakeEffect(r[1]) \/ UNCHANGED Remote!vars
<1>0. /\ r[1] \in Rotations /\ Key(r) = <<r[1], 1>> /\ Key(r) \in Requests
      /\ UNCHANGED state /\ state[r[1]] # "idle"
  BY KeyOfRequest DEF Serve, IInv, SecretInv, CallInv
<1>1. CASE issued[Key(r)] # 0
  BY <1>1, SameEffects, SameResults DEF Serve, Remote!vars
<1>2. CASE issued[Key(r)] = 0
  <2>1. issued' = [issued EXCEPT ![Key(r)] = secret + 1] /\ secret \in Nat
    BY <1>2 DEF Serve, IInv, TypeOK
  <2>2. \A c \in Rotations : <<c, 1>> \in Requests
    BY DEF Requests
  <2>3. \A c \in Rotations :
           issued'[<<c, 1>>] = IF c = r[1] THEN secret + 1
                               ELSE issued[<<c, 1>>]
    <3>1. \A c \in Rotations : <<c, 1>> = Key(r) <=> c = r[1]
      BY <1>0
    <3>2. issued \in [Requests -> Nat]
      BY DEF IInv, TypeOK
    <3> HIDE <1>0
    <3> QED
      BY <2>1, <2>2, <3>1, <3>2
  <2>4. \A c \in Rotations :
           EffectsOf'[c] = IF c = r[1] THEN 1 ELSE EffectsOf[c]
    <3> TAKE c \in Rotations
    <3>1. EffectsOf'[c] = IF issued'[<<c, 1>>] = 0 THEN 0 ELSE 1
      BY EffectAfter
    <3> QED
      BY <3>1, <2>1, <2>3, EffectOf
  <2>5. EffectsOf' = [EffectsOf EXCEPT ![r[1]] = 1]
    <3>1. EffectsOf' = [c \in Rotations |-> EffectsOf'[c]]
          /\ EffectsOf = [c \in Rotations |-> EffectsOf[c]]
      BY DEF EffectsOf
    <3> QED
      BY <2>4, <3>1
  <2>6. EffectsOf[r[1]] = 0
    BY <1>0, <1>2, EffectOf
  <2>7. ResultOf[r[1]] # "none"
    BY <1>0, Results DEF ResultOf, IInv, TypeOK
  <2> QED
    BY <1>0, <2>5, <2>6, <2>7, SameResults DEF Remote!TakeEffect
<1> QED
  BY <1>1, <1>2

(* rotate_secret, with its retries and the gateway, implements             *)
(* RemoteOperation: a call rotates once at most, at any time after it was  *)
(* made, and has done so when it returns.                                  *)
THEOREM RotationRefines == Spec => RotationIsOneOperation
<1>1. ASSUME Init PROVE Remote!Init
  <2>1. \A c \in Rotations : EffectsOf[c] = 0
    <3>1. \A c \in Rotations : IssuedFor(c) = {}
      BY <1>1 DEF Init, IssuedFor
    <3> QED
      BY <3>1, FS_EmptySet DEF EffectsOf
  <2>2. EffectsOf = [c \in Rotations |-> 0]
    BY <2>1 DEF EffectsOf
  <2>3. ResultOf = [c \in Rotations |-> "none"]
    BY <1>1, Results DEF Init, ResultOf
  <2> QED
    BY <2>2, <2>3 DEF Remote!Init
<1>2. ASSUME IInv, FirstKeysOnly, FirstKeysOnly', [Next]_vars
      PROVE  [Remote!Next]_(Remote!vars)
  <2> USE <1>2
  <2>1. ASSUME NEW c \in Rotations, RotateSecret(c) PROVE Remote!Call(c)
    <3>1. /\ state[c] = "idle" /\ UNCHANGED issued
          /\ state' = [state EXCEPT ![c] = "waiting"]
      BY <2>1 DEF RotateSecret
    <3> QED
      BY <3>1, CallMoves, SameEffects DEF Remote!Call
  <2>2. ASSUME NEW c \in Rotations, Retry(c) PROVE UNCHANGED Remote!vars
    BY <2>2, SameEffects, SameResults DEF Retry, Remote!vars
  <2>3. ASSUME NEW c \in Rotations, Return(c) PROVE Remote!Return(c)
    <3>1. /\ state[c] = "waiting" /\ UNCHANGED issued
          /\ state' = [state EXCEPT ![c] = "done"]
      BY <2>3 DEF Return
    <3>2. issued[<<c, 1>>] # 0
      BY <2>3 DEF Return, IInv, SecretInv, CallInv
    <3>3. EffectsOf[c] = 1
      BY <3>2, EffectOf
    <3>4. /\ ResultOf[c] = "pending"
          /\ ResultOf' = [ResultOf EXCEPT ![c] = ResultIn["done"]]
      BY <3>1, EndMoves
    <3> QED
      BY <3>1, <3>3, <3>4, Results, SameEffects DEF Remote!Return
  <2>4. ASSUME NEW c \in Rotations, Raise(c) PROVE Remote!Raise(c)
    <3>1. /\ state[c] = "waiting" /\ UNCHANGED issued
          /\ state' = [state EXCEPT ![c] = "failed"]
      BY <2>4 DEF Raise
    <3>2. /\ ResultOf[c] = "pending"
          /\ ResultOf' = [ResultOf EXCEPT ![c] = ResultIn["failed"]]
      BY <3>1, EndMoves
    <3> QED
      BY <3>1, <3>2, Results, SameEffects DEF Remote!Raise
  <2>5. ASSUME NEW r \in Requests, Serve(r)
        PROVE  r[1] \in Rotations
               /\ (Remote!TakeEffect(r[1]) \/ UNCHANGED Remote!vars)
    BY <2>5, ServeTakesEffect, KeyOfRequest
  <2>6. ASSUME \/ \E r \in Requests : Lose(r)
               \/ \E d \in Deliveries : Sign(d)
               \/ Tick
               \/ UNCHANGED vars
        PROVE  UNCHANGED Remote!vars
    <3>1. UNCHANGED <<state, issued>>
      BY <2>6 DEF Lose, Sign, Tick, vars, rotationVars
    <3> QED
      BY <3>1, SameEffects, SameResults DEF Remote!vars
  <2> QED
    BY <2>1, <2>2, <2>3, <2>4, <2>5, <2>6 DEF Next, Remote!Next
<1> QED
  BY <1>1, <1>2, AlwaysInv, AlwaysFirstKeys, PTL
  DEF Spec, RotationIsOneOperation, Remote!Spec
=============================================================================

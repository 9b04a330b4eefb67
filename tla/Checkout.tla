------------------------------ MODULE Checkout ------------------------------
(***************************************************************************)
(* What becomes of the arguments.  The consumer configures a client from   *)
(* the environment or from the settings, and then creates payments,        *)
(* creates them again, verifies and refunds them (resources/payments.py,   *)
(* resources/verify.py); each method builds a request model and sends what *)
(* it dumps.  The gateway takes bodies literally: two spellings of an      *)
(* order are two orders to it.                                             *)
(*                                                                         *)
(* `asked' is kept beside it, in the consumer's own terms: by order,       *)
(* whatever the blanks and capitals in the arguments were.  The effects of *)
(* retries and lost answers are the matter of Transport and Resources:     *)
(* here each call is carried out at once.                                  *)
(***************************************************************************)
EXTENDS RequestModels, Configuration

CONSTANTS
    Words,            \* what texts say, blanks and capitals aside
    OrderTexts,       \* what is given as an order id
    CurrencyTexts,    \* what is given as a currency
    Amounts,          \* what is given as a price or an amount
    Environments, Overrides, DjangoSettings,
    Samples           \* of each type of value, what any field is given

Stripped(text) == [text EXCEPT !.padded = FALSE]

OrderKeys == OrderTexts \cup {Stripped(t) : t \in OrderTexts}
OrderIds == {t.is : t \in {u \in OrderTexts : u.size > 0}}

Texts == [type : {"text"}, is : Words, size : Nat, padded : BOOLEAN,
          upper : BOOLEAN]

ASSUME CheckoutAssumption ==
    /\ OrderTexts \cup CurrencyTexts \subseteq Texts
    /\ "usd" \in Words
    /\ \A t, u \in OrderTexts :
          t.is = u.is => t.size = u.size /\ t.upper = u.upper
    /\ \A t, u \in CurrencyTexts \cup {Usd} : t.is = u.is => t.size = u.size
    /\ Amounts \subseteq Nat

(* A mapping of settings, all from one place.                              *)
IsMapping(fields, from) ==
    /\ DOMAIN fields \subseteq ConfigFields
    /\ \A f \in DOMAIN fields : fields[f] \in [from : {from}, is : FieldIs]

ASSUME ConfigurationAssumption ==
    /\ \A env \in Environments : IsMapping(env, "environment")
    /\ \A overrides \in Overrides : IsMapping(overrides, "keyword")
    /\ \A settings \in DjangoSettings :
          \/ settings.kind \in {"falsy", "no mapping"}
          \/ settings.kind = "mapping" /\ IsMapping(settings.fields, "settings")

VARIABLES
    client,    \* the configuration of the client
    orders,    \* at the gateway, by what was sent as their id
    asked,     \* history: what the consumer asked for, by order
    last       \* the answer that is on its way to the consumer, if any

vars == <<client, orders, asked, last>>

NoOrder == [exists |-> FALSE]
NoCall == [call |-> "none"]

Order(price, currency, live) ==
    [exists |-> TRUE, price |-> price, currency |-> currency, live |-> live,
     paid |-> FALSE, refunded |-> 0]

TypeOK ==
    /\ client.stage \in {"none", "configured", "ready"}
    /\ \A k \in OrderKeys : orders[k] # NoOrder =>
          /\ ~k.padded /\ k.size > 0
          /\ orders[k].price \in Nat \ {0} /\ orders[k].price % 10 = 0
          /\ ~orders[k].currency.padded /\ ~orders[k].currency.upper
          /\ orders[k].refunded \in 0..orders[k].price
    /\ \A o \in OrderIds : asked[o] # NoOrder =>
          asked[o].price \in Amounts /\ asked[o].live \in BOOLEAN

Init ==
    /\ client = [stage |-> "none"]
    /\ orders = [k \in OrderKeys |-> NoOrder]
    /\ asked = [o \in OrderIds |-> NoOrder]
    /\ last = NoCall
-----------------------------------------------------------------------------
(* The client.                                                             *)

Configured(source, outcome) ==
    client' = [stage |-> "configured", source |-> source, outcome |-> outcome]

ConfigureFromEnv ==
    /\ client.stage = "none"
    /\ \E env \in Environments, overrides \in Overrides :
          Configured([kind |-> "env", env |-> env, overrides |-> overrides],
                     FromEnv(env, overrides))
    /\ UNCHANGED <<orders, asked, last>>

ConfigureFromSettings ==
    /\ client.stage = "none"
    /\ \E settings \in DjangoSettings :
          Configured([kind |-> "settings", settings |-> settings],
                     FromSettings(settings))
    /\ UNCHANGED <<orders, asked, last>>

(* Of the configuration nothing is read by a resource, default_sandbox     *)
(* included.                                                               *)
Connect ==
    /\ client.stage = "configured"
    /\ "error" \notin DOMAIN client.outcome
    /\ client' = [stage |-> "ready"]
    /\ UNCHANGED <<orders, asked, last>>
-----------------------------------------------------------------------------
(* The methods.  Of the answers only verify's is kept.                     *)

Ready == client.stage = "ready" /\ last = NoCall

Return ==
    /\ last # NoCall
    /\ last' = NoCall
    /\ UNCHANGED <<client, orders, asked>>

Is(args, f, default) == IF f \in DOMAIN args THEN args[f].is ELSE default

AskedOrder(args) ==
    Order(args.price.is, Is(args, "currency", "usd"),
          ~Is(args, "sandbox", TRUE))

(* payments.create: an order id is good for one payment.  A call that is   *)
(* refused, by the model or by the gateway, raises and changes nothing.    *)
Create(args) ==
    LET body == DumpFull(Build(PaymentCreateRequest, args))
        key == body.order_id
    IN  /\ Ready
        /\ body # Refused
        /\ orders[key] = NoOrder
        /\ orders' = [orders EXCEPT ![key] =
               Order(body.price.is, body.currency, ~body.sandbox.is)]
        /\ asked' = [asked EXCEPT ![key.is] = AskedOrder(args)]
        /\ UNCHANGED <<client, last>>

(* Mutated form: null is sent for what is None.                            *)
RecreateBodyFull(request) == DumpFull(request)

(* payments.recreate: what is not given stays as it was.                   *)
RecreateBody(request) == DumpSparse(request)

Recreate(args) ==
    LET request == Build(RepaymentRequest, args)
        body == RecreateBody(request)
        key == body.order_id
    IN  /\ Ready
        /\ request # Refused
        /\ orders[key] # NoOrder /\ ~orders[key].paid
        /\ orders' = [orders EXCEPT ![key].live =
               IF "sandbox" \in DOMAIN body THEN body.sandbox # Flag(TRUE)
               ELSE @]
        /\ asked' = [asked EXCEPT ![key.is].live =
               IF args.sandbox # None THEN args.sandbox = Flag(FALSE) ELSE @]
        /\ UNCHANGED <<client, last>>

(* The customer pays.                                                      *)
Pay(key) ==
    /\ orders[key] # NoOrder /\ ~orders[key].paid
    /\ orders' = [orders EXCEPT ![key].paid = TRUE]
    /\ asked' = [asked EXCEPT ![key.is].paid = TRUE]
    /\ UNCHANGED <<client, last>>

Verified(body) ==
    /\ orders[body.order_id] # NoOrder
    /\ orders[body.order_id].paid
    /\ orders[body.order_id].price = body.price.is
    /\ orders[body.order_id].currency = body.currency

(* client.verify; what is refused by the model is never sent.              *)
Verify(args) ==
    LET body == DumpFull(Build(VerifyRequest, args))
    IN  /\ Ready
        /\ body # Refused
        /\ last' = [call |-> "verify", args |-> args,
                    verified |-> Verified(body)]
        /\ UNCHANGED <<client, orders, asked>>

(* The gateway keeps cents.                                                *)
Cents(thousandths) == thousandths - (thousandths % 10)

(* payments.refund of the transaction of an order.                         *)
Refund(key, args) ==
    LET request == Build(RefundRequest, args)
        body == DumpSparse(request)
        left == orders[key].price - orders[key].refunded
        amount == IF "amount" \in DOMAIN body THEN Cents(body.amount.is)
                  ELSE left
        asks == IF args.amount = None
                THEN asked[key.is].price - asked[key.is].refunded
                ELSE args.amount.is
    IN  /\ Ready
        /\ orders[key] # NoOrder /\ orders[key].paid
        /\ request # Refused
        /\ amount > 0 /\ amount <= left
        /\ orders' = [orders EXCEPT ![key].refunded = @ + amount]
        /\ asked' = [asked EXCEPT ![key.is].refunded = @ + asks]
        /\ UNCHANGED <<client, last>>
-----------------------------------------------------------------------------
(* Any model, given what is required and two more fields or the same with  *)
(* other values.  It is of no order: it is tried before the first.         *)

Sends(fields, dump) == [fields |-> fields, dump |-> dump]

Models ==
    {Sends(m, "full") : m \in
        {PaymentCreateRequest, VerifyRequest, CustomerPortalSessionRequest}}
    \cup
    {Sends(m, "sparse") : m \in
        {RepaymentRequest, RefundRequest, PaymentIntentCreateRequest,
         PaymentIntentConfirmRequest, PaymentIntentCaptureRequest,
         PaymentIntentCancelRequest, CustomerCreateRequest,
         CustomerUpdateRequest, SetupIntentCreateRequest,
         SetupIntentConfirmRequest, SubscriptionCreateRequest,
         SubscriptionUpdateRequest, SubscriptionCancelRequest,
         ProductCreateRequest, ProductUpdateRequest, PriceCreateRequest,
         WebhookEndpointCreateRequest, WebhookEndpointUpdateRequest}}

Body(model, request) ==
    IF model.dump = "full" THEN DumpFull(request) ELSE DumpSparse(request)

Sound(fields) ==
    [f \in {g \in DOMAIN fields : fields[g].default = NoDefault} |->
        CHOOSE v \in Samples[fields[f].type] : Validates(fields[f], v)]

Trial(fields, f, v, g, w) ==
    Merge(Sound(fields), [h \in {f, g} |-> IF h = f THEN v ELSE w])

ValuesOf(field) == Samples[field.type] \cup {None}

(* Samples are values of their types, lines of `items' included, and every *)
(* field that is required can be given one that it takes.                  *)
IsValue(v) == v.type = "text" => v \in Texts

IsItems(v) ==
    v.type = "items" =>
        /\ v = List("items", v.is)
        /\ Len(v.is) \in Nat /\ DOMAIN v.is = 1..Len(v.is)
        /\ \A i \in DOMAIN v.is : \A f \in DOMAIN v.is[i] : IsValue(v.is[i][f])

ASSUME SamplesAssumption ==
    \A model \in Models : \A f \in DOMAIN model.fields :
        /\ \A v \in Samples[model.fields[f].type] : IsValue(v) /\ IsItems(v)
        /\ model.fields[f].default = NoDefault =>
              \E v \in Samples[model.fields[f].type] :
                  Validates(model.fields[f], v)

Submit ==
    /\ Ready
    /\ \A k \in OrderKeys : orders[k] = NoOrder
    /\ \E model \in Models : \E f, g \in DOMAIN model.fields :
          \E v \in ValuesOf(model.fields[f]), w \in ValuesOf(model.fields[g]) :
             LET request == Build(model.fields, Trial(model.fields, f, v, g, w))
             IN  /\ request # Refused
                 /\ last' = [call |-> "submit", model |-> model,
                             body |-> Body(model, request)]
    /\ UNCHANGED <<client, orders, asked>>
-----------------------------------------------------------------------------
Flags == {Flag(TRUE), Flag(FALSE)}
Url == Other("url", "url", TRUE)

(* A keyword that may be left out.                                         *)
OneOrNone(f, values) == {<<>>} \cup {[g \in {f} |-> v] : v \in values}

CreateArgs(o, p, currency, sandbox) ==
    Merge([order_id |-> o, price |-> Money(p), success_webhook |-> Url,
           failure_webhook |-> Url], Merge(currency, sandbox))

RecreateArgs(o, sandbox) ==
    [order_id |-> o, success_webhook |-> None, failure_webhook |-> None,
     sandbox |-> sandbox]

VerifyArgs(o, p, currency) ==
    Merge([order_id |-> o, price |-> Money(p)], currency)

RefundArgs(amount) == [amount |-> amount, reason |-> None]

CurrencyGiven == OneOrNone("currency", CurrencyTexts)
SandboxGiven == OneOrNone("sandbox", Flags)

Next ==
    \/ ConfigureFromEnv \/ ConfigureFromSettings \/ Connect
    \/ \E o \in OrderTexts, p \in Amounts,
          c \in CurrencyGiven, s \in SandboxGiven :
          Create(CreateArgs(o, p, c, s))
    \/ \E o \in OrderTexts, s \in Flags \cup {None} :
          Recreate(RecreateArgs(o, s))
    \/ \E key \in OrderKeys : Pay(key)
    \/ \E o \in OrderTexts, p \in Amounts, c \in CurrencyGiven :
          Verify(VerifyArgs(o, p, c))
    \/ \E key \in OrderKeys, a \in {Money(p) : p \in Amounts} \cup {None} :
          Refund(key, RefundArgs(a))
    \/ Submit
    \/ Return

Spec == Init /\ [][Next]_vars
-----------------------------------------------------------------------------
(* A configuration that was accepted says what the consumer set last: its  *)
(* own keywords before the environment, and that before the defaults.      *)
AcceptedAsAsked ==
    client.stage = "configured" /\ client.source.kind = "env"
        /\ "error" \notin DOMAIN client.outcome =>
        \A f \in ConfigFields :
            client.outcome[f].from =
                (IF f \in DOMAIN client.source.overrides THEN "keyword"
                 ELSE IF f \in DOMAIN client.source.env THEN "environment"
                 ELSE "default")

(* Whatever is wrong with settings.PSIP, a Django project sees             *)
(* ImproperlyConfigured -- unless the key is no string, as when it is read *)
(* from a variable that is not set.                                        *)
RefusedAsOne ==
    client.stage = "configured" /\ client.source.kind = "settings"
        /\ "error" \in DOMAIN client.outcome =>
        \/ client.outcome.error = "ImproperlyConfigured"
        \/ /\ client.source.settings.kind = "mapping"
           /\ "api_key" \in DOMAIN client.source.settings.fields
           /\ client.source.settings.fields.api_key.is = "none"

(* A configuration is what was set last, or it is refused, in Django with  *)
(* one error for every cause.                                              *)
ConfiguredAsAsked == AcceptedAsAsked /\ RefusedAsOne

(* verify answers yes to exactly the order, the amount and the currency    *)
(* that create was given, if it is paid by then, however each of the two   *)
(* calls spelled them.                                                     *)
VerifiedAsAsked ==
    [][last'.call = "verify" /\ last = NoCall =>
        (last'.verified <=>
            LET order == asked[last'.args.order_id.is]
            IN  /\ order # NoOrder /\ order.paid
                /\ order.price = last'.args.price.is
                /\ order.currency = Is(last'.args, "currency", "usd"))]_vars

(* An order is live only as long as the last `sandbox' given for it -- to  *)
(* create or to recreate -- was False; the configuration has no say.       *)
ModeAsAsked ==
    \A k \in OrderKeys :
        orders[k] # NoOrder => orders[k].live = asked[k.is].live

(* What was refunded is what was asked for, to the cent: an amount that    *)
(* cannot be refunded exactly is refused, zero does not become the whole,  *)
(* and the parts do not exceed the payment.                                *)
RefundedAsAsked ==
    \A k \in OrderKeys :
        orders[k] # NoOrder =>
            /\ orders[k].refunded = asked[k.is].refunded
            /\ orders[k].refunded <= asked[k.is].price

(* A body that was sent is a request of its own: building the model from   *)
(* it again, as a consumer that keeps bodies to send them later does, is   *)
(* not refused and gives the same body.                                    *)
SameWhenRebuilt ==
    last.call = "submit" =>
        LET again == Build(last.model.fields, last.body)
        IN  again # Refused /\ Body(last.model, again) = last.body
=============================================================================

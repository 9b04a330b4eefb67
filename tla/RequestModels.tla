--------------------------- MODULE RequestModels ---------------------------
(***************************************************************************)
(* The request models (models/): what a pydantic model makes of the        *)
(* arguments it is built from, and what of it goes into the body.          *)
(*                                                                         *)
(* A value has a type and says what it is.  Of a text matter its length    *)
(* without the blanks around it, whether it has any, and whether it is in  *)
(* capitals; money is in thousandths; of urls, enumerations, lists and     *)
(* maps only whether pydantic takes them.                                  *)
(***************************************************************************)
EXTENDS Integers, Sequences

None == [type |-> "none"]
Text(is, size, padded, upper) ==
    [type |-> "text", is |-> is, size |-> size, padded |-> padded,
     upper |-> upper]
Money(thousandths) == [type |-> "money", is |-> thousandths]
Number(n) == [type |-> "number", is |-> n]
Flag(b) == [type |-> "flag", is |-> b]
List(type, is) == [type |-> type, is |-> is]
Other(type, is, valid) == [type |-> type, is |-> is, valid |-> valid]

NoDefault == [type |-> "no default"]

(* A field: the type of its values, their range (for a text or a list, of  *)
(* their length), what they are multiples of, what it is if not given, and *)
(* whether it is turned into lower case.                                   *)
Field(type, least, most, default) ==
    [type |-> type, least |-> least, most |-> most, step |-> 1,
     default |-> default, lower |-> FALSE]

Unbounded == 1000000000
Required(type) == Field(type, 0, Unbounded, NoDefault)
RequiredText(most) == Field("text", 1, most, NoDefault)
Optional(type) == Field(type, 0, Unbounded, None)
OptionalText(most) == Field("text", 0, most, None)
Default(value) == Field(value.type, 0, Unbounded, value)
On == Default(Flag(TRUE))
Off == Default(Flag(FALSE))
Count == Field("number", 1, Unbounded, Number(1))

(* Field(gt=0, decimal_places=2)                                           *)
Amount == [Field("money", 1, Unbounded, NoDefault) EXCEPT !.step = 10]
OptionalAmount == [Amount EXCEPT !.default = None]

Usd == Text("usd", 3, FALSE, FALSE)

(* _lowercase_currency, and the default "usd".                             *)
Currency == [Field("text", 2, 10, Usd) EXCEPT !.lower = TRUE]

Choice(is) == Default(Other("choice", is, TRUE))

PaymentCreateRequest ==
    [price |-> Amount, currency |-> Currency,
     order_id |-> RequiredText(Unbounded),
     payment_type |-> Choice("one_time"),
     success_webhook |-> Required("url"), failure_webhook |-> Required("url"),
     sandbox |-> On,
     customer |-> Field("text", 1, Unbounded, None),
     create_invoice |-> Off, metadata |-> Optional("map")]

RepaymentRequest ==
    [order_id |-> RequiredText(Unbounded),
     success_webhook |-> Optional("url"), failure_webhook |-> Optional("url"),
     sandbox |-> Optional("flag"), metadata |-> Optional("map")]

(* Mutated form: an amount need not be in cents.                           *)
RefundRequestAnyDecimal ==
    [amount |-> Field("money", 1, Unbounded, None),
     reason |-> Field("text", 1, 2000, None)]

RefundRequest ==
    [amount |-> OptionalAmount, reason |-> Field("text", 1, 2000, None)]

(* Mutated form: the currency is compared as it is written.                *)
VerifyRequestExactCase ==
    [order_id |-> RequiredText(Unbounded), price |-> Amount,
     currency |-> Field("text", 2, 10, Usd)]

VerifyRequest ==
    [order_id |-> RequiredText(Unbounded), price |-> Amount,
     currency |-> Currency]

PaymentIntentCreateRequest ==
    [amount |-> Amount, currency |-> Currency,
     customer |-> Optional("text"), payment_method |-> Optional("text"),
     confirm |-> Off, capture_method |-> Choice("automatic"),
     description |-> Optional("text"), success_webhook |-> Optional("url"),
     failure_webhook |-> Optional("url"), sandbox |-> On,
     metadata |-> Optional("map")]

PaymentIntentConfirmRequest == [payment_method |-> Optional("text")]
PaymentIntentCaptureRequest == [amount_to_capture |-> OptionalAmount]
PaymentIntentCancelRequest == [cancellation_reason |-> Optional("choice")]

CustomerUpdateRequest ==
    [email |-> Optional("text"), name |-> Optional("text"),
     phone |-> Optional("text"), description |-> OptionalText(500),
     metadata |-> Optional("map")]

With(fields, f, spec) ==
    [g \in DOMAIN fields \cup {f} |-> IF g = f THEN spec ELSE fields[g]]

CustomerCreateRequest ==
    With(CustomerUpdateRequest, "sandbox", On)

CustomerPortalSessionRequest == [return_url |-> Required("url")]

SetupIntentCreateRequest ==
    [customer |-> Optional("text"), payment_method |-> Optional("text"),
     usage |-> Choice("off_session"), description |-> Optional("text"),
     confirm |-> Off, sandbox |-> On,
     metadata |-> Optional("map")]

SetupIntentConfirmRequest == [payment_method |-> Optional("text")]

(* A line of `items'.                                                      *)
SubscriptionItemInput ==
    [id |-> Optional("text"), price |-> Optional("text"),
     quantity |-> Field("number", 1, Unbounded, None),
     deleted |-> Off]

SubscriptionCreateRequest ==
    [customer |-> RequiredText(Unbounded),
     items |-> Field("items", 1, Unbounded, NoDefault),
     trial_period_days |-> Optional("number"),
     default_payment_method |-> Optional("text"),
     metadata |-> Optional("map"), sandbox |-> On]

SubscriptionUpdateRequest ==
    [items |-> Optional("items"), default_payment_method |-> Optional("text"),
     cancel_at_period_end |-> Optional("flag"),
     proration_behavior |-> Optional("choice"), metadata |-> Optional("map")]

SubscriptionCancelRequest ==
    [at_period_end |-> Off,
     cancellation_reason |-> Optional("choice"),
     invoice_now |-> Off, prorate |-> Optional("flag")]

ProductCreateRequest ==
    [name |-> RequiredText(255), description |-> OptionalText(500),
     metadata |-> Optional("map"), sandbox |-> On]

ProductUpdateRequest ==
    [name |-> OptionalText(255), description |-> OptionalText(500),
     metadata |-> Optional("map"), is_active |-> Optional("flag")]

PriceCreateRequest ==
    [product |-> RequiredText(Unbounded), unit_amount |-> Amount,
     currency |-> Currency, recurring_interval |-> Choice("none"),
     recurring_interval_count |-> Count,
     nickname |-> OptionalText(255), metadata |-> Optional("map"),
     sandbox |-> On]

WebhookEndpointCreateRequest ==
    [url |-> Required("url"),
     subscribed_events |-> Field("list", 1, Unbounded, NoDefault),
     description |-> OptionalText(255)]

WebhookEndpointUpdateRequest ==
    [url |-> Optional("url"), subscribed_events |-> Optional("list"),
     description |-> OptionalText(255), is_active |-> Optional("flag")]
-----------------------------------------------------------------------------
(* Validation.                                                             *)

Refused == [refused |-> TRUE]

(* What the range of a field is of.                                        *)
Measure(v) ==
    CASE v.type = "text" -> v.size
      [] v.type \in {"money", "number"} -> v.is
      [] v.type \in {"list", "items"} -> Len(v.is)
      [] OTHER -> 0

Validates(f, v) ==
    \/ v = None /\ f.default = None
    \/ /\ v.type = f.type
       /\ f.least <= Measure(v) /\ Measure(v) <= f.most
       /\ v.type \in {"money", "number"} => v.is % f.step = 0
       /\ v.type \in {"url", "choice", "map"} => v.valid

(* Mutated form: the blanks are kept.                                      *)
NormaliseCase(f, v) ==
    IF v.type = "text" THEN [v EXCEPT !.upper = ~f.lower /\ @] ELSE v

(* str.lower of a currency; str_strip_whitespace.                          *)
Normalise(f, v) ==
    IF v.type = "text"
    THEN [v EXCEPT !.padded = FALSE, !.upper = ~f.lower /\ @]
    ELSE v

(* A model of keywords, the checks of `items' aside: unknown names are     *)
(* ignored, defaults are taken as they are.                                *)
Fill(model, args) ==
    IF \A f \in DOMAIN model :
          IF f \in DOMAIN args THEN Validates(model[f], args[f])
          ELSE model[f].default # NoDefault
    THEN [f \in DOMAIN model |->
             IF f \in DOMAIN args THEN Normalise(model[f], args[f])
             ELSE model[f].default]
    ELSE Refused

(* _check_either_id_or_price                                               *)
IdOrPrice(line) ==
    \E f \in {"id", "price"} : line[f] # None /\ line[f].size > 0

(* Mutated form: the check comes before the blanks are stripped.           *)
BuildItemCheckedFirst(args) ==
    IF \E f \in {"id", "price"} \cap DOMAIN args :
          args[f] # None /\ (args[f].size > 0 \/ args[f].padded)
    THEN Fill(SubscriptionItemInput, args) ELSE Refused

BuildItem(args) ==
    LET line == Fill(SubscriptionItemInput, args)
    IN  IF line # Refused /\ IdOrPrice(line) THEN line ELSE Refused

ItemsOf(args) ==
    IF "items" \in DOMAIN args /\ args.items.type = "items"
    THEN args.items.is ELSE <<>>

Build(model, args) ==
    LET items == [i \in DOMAIN ItemsOf(args) |-> BuildItem(ItemsOf(args)[i])]
        request == Fill(model, args)
    IN  IF request = Refused \/ \E i \in DOMAIN items : items[i] = Refused
        THEN Refused
        ELSE IF "items" \in DOMAIN request /\ request.items # None
             THEN [request EXCEPT !.items.is = items]
             ELSE request
-----------------------------------------------------------------------------
(* model_dump(mode="json"), and with exclude_none.                         *)

Given(fields) == {f \in DOMAIN fields : fields[f] # None}

ExcludeNone(fields) == [f \in Given(fields) |-> fields[f]]

DumpFull(request) == request

DumpSparse(request) ==
    LET body == ExcludeNone(request)
    IN  IF "items" \in DOMAIN body
        THEN [body EXCEPT !.items.is =
                 [i \in DOMAIN @ |-> ExcludeNone(@[i])]]
        ELSE body
=============================================================================

--------------------------- MODULE CheckoutProofs ---------------------------
(***************************************************************************)
(* What holds of Checkout whatever texts and amounts are given: that what  *)
(* the gateway keeps of an order is what was asked for.                    *)
(***************************************************************************)
EXTENDS Checkout, TLAPS

(* What a model that is not refused makes of one field.                    *)
LEMMA FillFacts ==
    ASSUME NEW model, NEW args, Fill(model, args) # Refused,
           NEW f \in DOMAIN model
    PROVE  /\ f \in DOMAIN args =>
                 /\ Validates(model[f], args[f])
                 /\ Fill(model, args)[f] = Normalise(model[f], args[f])
           /\ f \notin DOMAIN args =>
                 /\ model[f].default # NoDefault
                 /\ Fill(model, args)[f] = model[f].default
           /\ DOMAIN Fill(model, args) = DOMAIN model
  BY Zenon DEF Fill

(* A model without `items' is nothing but its fields.                      *)
LEMMA BuildIsFill ==
    ASSUME NEW model, NEW args,
           "items" \notin DOMAIN model, "items" \notin DOMAIN args
    PROVE  Build(model, args) = Fill(model, args)
<1>1. ItemsOf(args) = <<>>
  BY DEF ItemsOf
<1>2. \A i \in DOMAIN ItemsOf(args) : FALSE
  BY <1>1
<1>3. CASE Fill(model, args) = Refused
  BY <1>3 DEF Build
<1>4. CASE Fill(model, args) # Refused
  <2>1. DOMAIN Fill(model, args) = DOMAIN model
    BY <1>4 DEF Fill
  <2> QED
    BY <1>2, <1>4, <2>1 DEF Build
<1> QED
  BY <1>3, <1>4
-----------------------------------------------------------------------------
(* Texts.                                                                  *)

LEMMA TextFields ==
    ASSUME NEW t \in Texts
    PROVE  /\ t.type = "text" /\ t.is \in Words /\ t.size \in Nat
           /\ t.padded \in BOOLEAN /\ t.upper \in BOOLEAN
  BY DEF Texts

LEMMA TextEqual ==
    ASSUME NEW t \in Texts, NEW u \in Texts, t.is = u.is, t.size = u.size,
           t.upper = u.upper, ~t.padded, ~u.padded
    PROVE  t = u
<1>1. t.padded = u.padded
  BY DEF Texts
<1> QED
  BY <1>1 DEF Texts

LEMMA StrippedText ==
    ASSUME NEW t \in Texts
    PROVE  /\ Stripped(t) \in Texts
           /\ Stripped(t).is = t.is /\ Stripped(t).size = t.size
           /\ Stripped(t).upper = t.upper
           /\ ~Stripped(t).padded
<1>1. Stripped(t) \in Texts
  BY DEF Texts, Stripped
<1>2. /\ Stripped(t).is = t.is /\ Stripped(t).size = t.size
      /\ Stripped(t).upper = t.upper
  BY DEF Texts, Stripped
<1>3. ~Stripped(t).padded
  BY DEF Texts, Stripped
<1> QED
  BY <1>1, <1>2, <1>3

LEMMA NormalisedText ==
    ASSUME NEW t \in Texts, NEW f, f.lower \in BOOLEAN
    PROVE  /\ Normalise(f, t) \in Texts
           /\ Normalise(f, t).is = t.is /\ Normalise(f, t).size = t.size
           /\ Normalise(f, t).upper = (~f.lower /\ t.upper)
           /\ ~Normalise(f, t).padded
<1> DEFINE upper == ~f.lower /\ t.upper
<1> DEFINE n == [t EXCEPT !.padded = FALSE, !.upper = upper]
<1>1. t.type = "text" /\ upper \in BOOLEAN
  BY TextFields
<1>2. Normalise(f, t) = n
  BY <1>1 DEF Normalise
<1> HIDE DEF upper
<1>3. n \in Texts
  BY <1>1 DEF Texts
<1>4. n.is = t.is
  BY DEF Texts
<1>5. n.size = t.size
  BY DEF Texts
<1>6. n.upper = upper
  BY DEF Texts
<1>7. ~n.padded
  BY DEF Texts
<1> HIDE DEF n
<1> QED
  BY <1>2, <1>3, <1>4, <1>5, <1>6, <1>7 DEF upper

LEMMA UsdText ==
    Usd \in Texts /\ Usd.is = "usd" /\ Usd.size = 3 /\ ~Usd.padded /\ ~Usd.upper
<1>1. Usd = [type |-> "text", is |-> "usd", size |-> 3, padded |-> FALSE,
             upper |-> FALSE]
  BY DEF Usd, Text
<1>2. "usd" \in Words
  BY CheckoutAssumption
<1>3. Usd \in Texts
  BY <1>1, <1>2 DEF Texts
<1>4. Usd.is = "usd" /\ Usd.size = 3
  BY <1>1
<1>5. ~Usd.padded /\ ~Usd.upper
  BY <1>1
<1> QED
  BY <1>3, <1>4, <1>5

(* The fields of the models that texts are given for.                      *)
LEMMA TextSpecs ==
    /\ ~RequiredText(Unbounded).lower /\ RequiredText(Unbounded).lower \in BOOLEAN
    /\ RequiredText(Unbounded).least = 1
    /\ Currency.lower /\ Currency.lower \in BOOLEAN
    /\ Currency.default = Usd
<1>1. RequiredText(Unbounded) =
        [type |-> "text", least |-> 1, most |-> Unbounded, step |-> 1,
         default |-> NoDefault, lower |-> FALSE]
  BY DEF RequiredText, Field
<1>3. ~RequiredText(Unbounded).lower /\ RequiredText(Unbounded).lower \in BOOLEAN
  BY <1>1
<1>4. RequiredText(Unbounded).least = 1
  BY <1>1
<1>5. Currency.lower /\ Currency.lower \in BOOLEAN
  BY DEF Currency, Field
<1>6. Currency.default = Usd
  BY DEF Currency, Field
<1> QED
  BY <1>3, <1>4, <1>5, <1>6

(* An order id is sent without the blanks around it, and is not empty.     *)
LEMMA OrderIdField ==
    ASSUME NEW o \in OrderTexts
    PROVE  /\ Normalise(RequiredText(Unbounded), o) = Stripped(o)
           /\ Stripped(o) \in OrderKeys
           /\ Stripped(o) \in Texts /\ ~Stripped(o).padded
           /\ Stripped(o).is = o.is
           /\ Validates(RequiredText(Unbounded), o) =>
                 o.size > 0 /\ o.is \in OrderIds
<1> DEFINE f == RequiredText(Unbounded)
<1>1. o \in Texts
  BY CheckoutAssumption
<1>2. ~f.lower /\ f.lower \in BOOLEAN /\ f.least = 1
  BY TextSpecs
<1> HIDE DEF f
<1>3. Normalise(f, o) = Stripped(o)
  <2>1. Normalise(f, o).upper = Stripped(o).upper
    BY <1>1, <1>2, NormalisedText, StrippedText, TextFields
  <2> QED
    BY <1>1, <1>2, <2>1, NormalisedText, StrippedText, TextEqual
<1>4. Validates(f, o) => o.size > 0
  <2>1. o # None /\ Measure(o) = o.size
    BY <1>1, TextFields DEF None, Measure
  <2> QED
    BY <1>1, <1>2, <2>1, TextFields DEF Validates
<1>5. o.size > 0 => o.is \in OrderIds
  BY DEF OrderIds
<1>6. Stripped(o) \in OrderKeys
  BY DEF OrderKeys
<1> QED
  BY <1>1, <1>3, <1>4, <1>5, <1>6, StrippedText DEF f

(* An order has one key that is sent.                                      *)
LEMMA OneKey ==
    ASSUME NEW k \in OrderKeys, NEW l \in OrderKeys, ~k.padded, ~l.padded,
           k.is = l.is
    PROVE  k = l
<1>1. \A x \in OrderKeys : \E t \in OrderTexts :
        /\ x \in Texts /\ t \in Texts /\ x.is = t.is /\ x.size = t.size
        /\ x.upper = t.upper
  BY CheckoutAssumption, StrippedText DEF OrderKeys
<1>2. k.size = l.size /\ k.upper = l.upper /\ k \in Texts /\ l \in Texts
  BY <1>1, CheckoutAssumption
<1> QED
  BY <1>2, TextEqual

(* What is sent for a currency.                                            *)
CurrencySent(given) ==
    IF "currency" \in DOMAIN given THEN Normalise(Currency, given.currency)
    ELSE Usd

LEMMA CurrencyField ==
    ASSUME NEW t \in Texts
    PROVE  /\ Normalise(Currency, t) \in Texts
           /\ Normalise(Currency, t).is = t.is
           /\ Normalise(Currency, t).size = t.size
           /\ ~Normalise(Currency, t).padded /\ ~Normalise(Currency, t).upper
<1> DEFINE f == Currency
<1> DEFINE n == Normalise(f, t)
<1>1. f.lower \in BOOLEAN
  BY TextSpecs
<1>4. f.lower
  BY TextSpecs
<1> HIDE DEF f
<1>2. /\ n \in Texts /\ n.is = t.is /\ n.size = t.size /\ ~n.padded
      /\ n.upper = (~f.lower /\ t.upper)
  BY <1>1, NormalisedText
<1> HIDE DEF n
<1>3. ~n.upper
  BY <1>4, <1>2
<1> QED
  BY <1>2, <1>3 DEF f, n

(* What is sent for a currency, given or not, is a text of what was given, *)
(* in lower case and without blanks.                                       *)
LEMMA SentCurrency ==
    ASSUME NEW c \in CurrencyGiven
    PROVE  \E t \in CurrencyTexts \cup {Usd} :
              /\ t \in Texts
              /\ CurrencySent(c) \in Texts
              /\ CurrencySent(c).is = t.is
              /\ CurrencySent(c).size = t.size
              /\ ~CurrencySent(c).padded /\ ~CurrencySent(c).upper
              /\ Is(c, "currency", "usd") = t.is
<1>1. CASE c = <<>>
  <2>1. "currency" \notin DOMAIN c
    BY <1>1
  <2> QED
    BY <2>1, UsdText DEF CurrencySent, Is
<1>2. CASE \E t \in CurrencyTexts : c = [g \in {"currency"} |-> t]
  <2>1. PICK t \in CurrencyTexts : c = [g \in {"currency"} |-> t]
    BY <1>2
  <2>2. t \in Texts /\ "currency" \in DOMAIN c /\ c.currency = t
        /\ c["currency"] = t
    BY <2>1, CheckoutAssumption
  <2>3. /\ CurrencySent(c) = Normalise(Currency, t)
        /\ Is(c, "currency", "usd") = t.is
    BY <2>2 DEF CurrencySent, Is
  <2>4. /\ Normalise(Currency, t) \in Texts
        /\ Normalise(Currency, t).is = t.is
        /\ Normalise(Currency, t).size = t.size
        /\ ~Normalise(Currency, t).padded /\ ~Normalise(Currency, t).upper
    BY <2>2, CurrencyField
  <2> QED
    BY <2>2, <2>3, <2>4
<1> QED
  BY <1>1, <1>2 DEF CurrencyGiven, OneOrNone

(* Two currencies are sent alike just when they are the same one.          *)
LEMMA SameCurrency ==
    ASSUME NEW c \in CurrencyGiven, NEW d \in CurrencyGiven
    PROVE  CurrencySent(c) = CurrencySent(d) <=>
               Is(c, "currency", "usd") = Is(d, "currency", "usd")
<1> DEFINE Sent(x, t) == /\ t \in Texts
                         /\ CurrencySent(x) \in Texts
                         /\ CurrencySent(x).is = t.is
                         /\ CurrencySent(x).size = t.size
                         /\ ~CurrencySent(x).padded /\ ~CurrencySent(x).upper
                         /\ Is(x, "currency", "usd") = t.is
<1>1. PICK t \in CurrencyTexts \cup {Usd} : Sent(c, t)
  BY SentCurrency
<1>2. PICK u \in CurrencyTexts \cup {Usd} : Sent(d, u)
  BY SentCurrency
<1>3. t.is = u.is => t.size = u.size
  BY CheckoutAssumption
<1>4. CurrencySent(c).upper = CurrencySent(d).upper
  BY <1>1, <1>2, TextFields
<1> QED
  BY <1>1, <1>2, <1>3, <1>4, TextEqual
-----------------------------------------------------------------------------
(* The arguments.                                                          *)

LEMMA MergeFacts ==
    ASSUME NEW a, NEW b
    PROVE  /\ \A f : f \in DOMAIN Merge(a, b) <=> f \in DOMAIN a \/ f \in DOMAIN b
           /\ \A f \in DOMAIN b : Merge(a, b)[f] = b[f]
           /\ \A f \in DOMAIN a : f \notin DOMAIN b => Merge(a, b)[f] = a[f]
  BY DEF Merge

LEMMA GivenDomain ==
    ASSUME NEW f, NEW values, NEW x \in OneOrNone(f, values)
    PROVE  /\ DOMAIN x \subseteq {f}
           /\ f \in DOMAIN x => x[f] \in values
<1>1. CASE x = <<>>
  <2>1. DOMAIN x = {}
    BY <1>1
  <2> QED
    BY <2>1
<1>2. CASE \E v \in values : x = [g \in {f} |-> v]
  BY <1>2
<1> QED
  BY <1>1, <1>2 DEF OneOrNone

LEMMA CreateArgsFacts ==
    ASSUME NEW o, NEW p, NEW c \in CurrencyGiven, NEW s \in SandboxGiven
    PROVE  LET args == CreateArgs(o, p, c, s)
           IN  /\ "order_id" \in DOMAIN args /\ args["order_id"] = o
               /\ "price" \in DOMAIN args /\ args["price"] = Money(p)
               /\ "items" \notin DOMAIN args
               /\ "currency" \in DOMAIN args <=> "currency" \in DOMAIN c
               /\ "currency" \in DOMAIN c => args["currency"] = c["currency"]
               /\ "sandbox" \in DOMAIN args <=> "sandbox" \in DOMAIN s
               /\ "sandbox" \in DOMAIN s => args["sandbox"] = s["sandbox"]
<1> DEFINE a == [order_id |-> o, price |-> Money(p), success_webhook |-> Url,
                 failure_webhook |-> Url]
<1> DEFINE b == Merge(c, s)
<1>1. /\ DOMAIN a = {"order_id", "price", "success_webhook", "failure_webhook"}
      /\ a["order_id"] = o /\ a["price"] = Money(p)
  OBVIOUS
<1>2. DOMAIN c \subseteq {"currency"} /\ DOMAIN s \subseteq {"sandbox"}
  BY GivenDomain DEF CurrencyGiven, SandboxGiven
<1>3. /\ \A f : f \in DOMAIN b <=> f \in DOMAIN c \/ f \in DOMAIN s
      /\ "currency" \in DOMAIN c => b["currency"] = c["currency"]
      /\ "sandbox" \in DOMAIN s => b["sandbox"] = s["sandbox"]
  BY <1>2, MergeFacts
<1> HIDE DEF a, b
<1>4. /\ \A f : f \in DOMAIN Merge(a, b) <=> f \in DOMAIN a \/ f \in DOMAIN b
      /\ \A f \in DOMAIN b : Merge(a, b)[f] = b[f]
      /\ \A f \in DOMAIN a : f \notin DOMAIN b => Merge(a, b)[f] = a[f]
  BY MergeFacts
<1>5. CreateArgs(o, p, c, s) = Merge(a, b)
  BY DEF CreateArgs, a, b
<1> QED
  BY <1>1, <1>2, <1>3, <1>4, <1>5

LEMMA VerifyArgsFacts ==
    ASSUME NEW o, NEW p, NEW c \in CurrencyGiven
    PROVE  LET args == VerifyArgs(o, p, c)
           IN  /\ "order_id" \in DOMAIN args /\ args["order_id"] = o
               /\ "price" \in DOMAIN args /\ args["price"] = Money(p)
               /\ "items" \notin DOMAIN args
               /\ "currency" \in DOMAIN args <=> "currency" \in DOMAIN c
               /\ "currency" \in DOMAIN c => args["currency"] = c["currency"]
<1> DEFINE a == [order_id |-> o, price |-> Money(p)]
<1>1. /\ DOMAIN a = {"order_id", "price"}
      /\ a["order_id"] = o /\ a["price"] = Money(p)
  OBVIOUS
<1>2. DOMAIN c \subseteq {"currency"}
  BY GivenDomain DEF CurrencyGiven
<1> HIDE DEF a
<1>3. /\ \A f : f \in DOMAIN Merge(a, c) <=> f \in DOMAIN a \/ f \in DOMAIN c
      /\ \A f \in DOMAIN c : Merge(a, c)[f] = c[f]
      /\ \A f \in DOMAIN a : f \notin DOMAIN c => Merge(a, c)[f] = a[f]
  BY MergeFacts
<1>4. VerifyArgs(o, p, c) = Merge(a, c)
  BY DEF VerifyArgs, a
<1> QED
  BY <1>1, <1>2, <1>3, <1>4
-----------------------------------------------------------------------------
(* The bodies.                                                             *)

(* An amount that is not refused is positive and in whole cents.           *)
LEMMA AmountField ==
    ASSUME NEW p \in Amounts, NEW f, f.least = 1, f.step = 10,
           Validates(f, Money(p))
    PROVE  p \in Nat /\ p > 0 /\ p % 10 = 0
<1>1. p \in Nat
  BY CheckoutAssumption
<1>2. /\ Money(p) # None /\ Money(p).type = "money" /\ Money(p).is = p
      /\ Measure(Money(p)) = p
  BY DEF Money, None, Measure
<1> QED
  BY <1>1, <1>2 DEF Validates

LEMMA AmountSpecs ==
    /\ Amount.least = 1 /\ Amount.step = 10
    /\ OptionalAmount.least = 1 /\ OptionalAmount.step = 10
<1>1. Amount.least = 1 /\ Amount.step = 10
  BY DEF Amount, Field
<1>2. OptionalAmount.least = 1 /\ OptionalAmount.step = 10
  BY DEF OptionalAmount, Amount, Field
<1> QED
  BY <1>1, <1>2

(* Only texts are changed.                                                 *)
LEMMA NotText ==
    ASSUME NEW f, NEW v, v.type # "text"
    PROVE  Normalise(f, v) = v
  BY DEF Normalise

LEMMA CreateSpecs ==
    /\ {"price", "currency", "order_id", "sandbox"} \subseteq
           DOMAIN PaymentCreateRequest
    /\ "items" \notin DOMAIN PaymentCreateRequest
    /\ PaymentCreateRequest["price"] = Amount
    /\ PaymentCreateRequest["currency"] = Currency
    /\ PaymentCreateRequest["order_id"] = RequiredText(Unbounded)
    /\ PaymentCreateRequest["sandbox"].default = Flag(TRUE)
<1>1. PaymentCreateRequest["sandbox"] = On
  BY DEF PaymentCreateRequest
<1>2. On.default = Flag(TRUE)
  BY DEF On, Default, Field
<1>3. DOMAIN PaymentCreateRequest =
        {"price", "currency", "order_id", "payment_type", "success_webhook",
         "failure_webhook", "sandbox", "customer", "create_invoice", "metadata"}
  BY DEF PaymentCreateRequest
<1>4. /\ PaymentCreateRequest["price"] = Amount
      /\ PaymentCreateRequest["currency"] = Currency
      /\ PaymentCreateRequest["order_id"] = RequiredText(Unbounded)
  BY DEF PaymentCreateRequest
<1> QED
  BY <1>1, <1>2, <1>3, <1>4

LEMMA VerifySpecs ==
    /\ DOMAIN VerifyRequest = {"price", "currency", "order_id"}
    /\ VerifyRequest["price"] = Amount
    /\ VerifyRequest["currency"] = Currency
    /\ VerifyRequest["order_id"] = RequiredText(Unbounded)
  BY DEF VerifyRequest

(* What both create and verify make of order, price and currency.          *)
LEMMA OrderFields ==
    ASSUME NEW model, NEW args, NEW o \in OrderTexts, NEW p \in Amounts,
           NEW c \in CurrencyGiven,
           {"price", "currency", "order_id"} \subseteq DOMAIN model,
           "items" \notin DOMAIN model,
           model["price"] = Amount, model["currency"] = Currency,
           model["order_id"] = RequiredText(Unbounded),
           "order_id" \in DOMAIN args, args["order_id"] = o,
           "price" \in DOMAIN args, args["price"] = Money(p),
           "items" \notin DOMAIN args,
           "currency" \in DOMAIN args <=> "currency" \in DOMAIN c,
           "currency" \in DOMAIN c => args["currency"] = c["currency"],
           Build(model, args) # Refused
    PROVE  /\ Build(model, args) = Fill(model, args)
           /\ Build(model, args)["order_id"] = Stripped(o)
           /\ o.is \in OrderIds
           /\ Build(model, args)["price"].is = p
           /\ p \in Nat /\ p > 0 /\ p % 10 = 0
           /\ Build(model, args)["currency"] = CurrencySent(c)
<1>1. Build(model, args) = Fill(model, args) /\ Fill(model, args) # Refused
  BY BuildIsFill
<1>2. /\ Validates(RequiredText(Unbounded), o)
      /\ Fill(model, args)["order_id"] = Normalise(RequiredText(Unbounded), o)
  BY <1>1, FillFacts
<1>3. /\ Validates(Amount, Money(p))
      /\ Fill(model, args)["price"] = Normalise(Amount, Money(p))
  BY <1>1, FillFacts
<1>4. Money(p).type # "text" /\ Money(p).is = p
  BY DEF Money
<1>5. Fill(model, args)["price"].is = p
  BY <1>3, <1>4, NotText
<1>6. Fill(model, args)["currency"] = CurrencySent(c)
  BY <1>1, FillFacts, TextSpecs DEF CurrencySent
<1>7. p \in Nat /\ p > 0 /\ p % 10 = 0
  BY <1>3, AmountField, AmountSpecs
<1>8. o.is \in OrderIds /\ Fill(model, args)["order_id"] = Stripped(o)
  BY <1>2, OrderIdField
<1> QED
  BY <1>1, <1>5, <1>6, <1>7, <1>8

LEMMA FlagFacts ==
    /\ \A v \in Flags : v.type # "text" /\ v # None /\ v.is \in BOOLEAN
    /\ Flag(TRUE).is = TRUE /\ Flag(FALSE).is = FALSE
    /\ Flag(TRUE) # Flag(FALSE)
<1>1. \A v \in Flags : v.type = "flag"
  BY DEF Flags, Flag
<1>2. Flag(TRUE).is = TRUE /\ Flag(FALSE).is = FALSE
  BY DEF Flag
<1>3. None.type = "none"
  BY DEF None
<1> QED
  BY <1>1, <1>2, <1>3 DEF Flags

LEMMA CreateBody ==
    ASSUME NEW o \in OrderTexts, NEW p \in Amounts,
           NEW c \in CurrencyGiven, NEW s \in SandboxGiven,
           Build(PaymentCreateRequest, CreateArgs(o, p, c, s)) # Refused
    PROVE  LET args == CreateArgs(o, p, c, s)
               body == DumpFull(Build(PaymentCreateRequest, args))
           IN  /\ body.order_id = Stripped(o) /\ o.is \in OrderIds
               /\ body.price.is = p /\ p \in Nat /\ p > 0 /\ p % 10 = 0
               /\ body.currency = CurrencySent(c)
               /\ body.sandbox.is = Is(args, "sandbox", TRUE)
               /\ Is(args, "sandbox", TRUE) \in BOOLEAN
               /\ args.price.is = p
               /\ Is(args, "currency", "usd") = Is(c, "currency", "usd")
<1> DEFINE args == CreateArgs(o, p, c, s)
<1> DEFINE model == PaymentCreateRequest
<1> DEFINE body == Build(model, args)
<1>1. /\ "order_id" \in DOMAIN args /\ args["order_id"] = o
      /\ "price" \in DOMAIN args /\ args["price"] = Money(p)
      /\ "items" \notin DOMAIN args
      /\ "currency" \in DOMAIN args <=> "currency" \in DOMAIN c
      /\ "currency" \in DOMAIN c => args["currency"] = c["currency"]
      /\ "sandbox" \in DOMAIN args <=> "sandbox" \in DOMAIN s
      /\ "sandbox" \in DOMAIN s => args["sandbox"] = s["sandbox"]
  BY CreateArgsFacts
<1>2. /\ {"price", "currency", "order_id", "sandbox"} \subseteq DOMAIN model
      /\ "items" \notin DOMAIN model
      /\ model["price"] = Amount
      /\ model["currency"] = Currency
      /\ model["order_id"] = RequiredText(Unbounded)
      /\ model["sandbox"].default = Flag(TRUE)
  BY CreateSpecs
<1>3. body # Refused
  OBVIOUS
<1> HIDE DEF args, model
<1>4. /\ body = Fill(model, args)
      /\ body["order_id"] = Stripped(o)
      /\ o.is \in OrderIds
      /\ body["price"].is = p
      /\ p \in Nat /\ p > 0 /\ p % 10 = 0
      /\ body["currency"] = CurrencySent(c)
  BY <1>1, <1>2, <1>3, OrderFields
<1>5. "sandbox" \in DOMAIN args => args["sandbox"] \in Flags
  BY <1>1, GivenDomain DEF SandboxGiven
<1>6. \A v \in Flags : v.type # "text" /\ v.is \in BOOLEAN
  BY FlagFacts
<1>7. /\ "sandbox" \in DOMAIN args =>
             body["sandbox"] = Normalise(model["sandbox"], args["sandbox"])
      /\ "sandbox" \notin DOMAIN args => body["sandbox"] = Flag(TRUE)
  <2>1. Fill(model, args) # Refused /\ "sandbox" \in DOMAIN model
    BY <1>2, <1>3, <1>4
  <2>2. "sandbox" \in DOMAIN args => Fill(model, args)["sandbox"] =
            Normalise(model["sandbox"], args["sandbox"])
    BY <2>1, FillFacts
  <2>3. "sandbox" \notin DOMAIN args =>
            Fill(model, args)["sandbox"] = model["sandbox"].default
    BY <2>1, FillFacts
  <2> HIDE DEF body
  <2> QED
    BY <1>2, <1>4, <2>2, <2>3
<1>8. /\ body["sandbox"].is = Is(args, "sandbox", TRUE)
      /\ Is(args, "sandbox", TRUE) \in BOOLEAN
  <2>1. CASE "sandbox" \in DOMAIN args
    BY <2>1, <1>5, <1>6, <1>7, NotText DEF Is
  <2>2. CASE "sandbox" \notin DOMAIN args
    BY <2>2, <1>7, FlagFacts DEF Is
  <2> QED
    BY <2>1, <2>2
<1>9. args["price"].is = p
  BY <1>1 DEF Money
<1>10. Is(args, "currency", "usd") = Is(c, "currency", "usd")
  BY <1>1 DEF Is
<1> HIDE DEF body
<1>11. /\ body.order_id = Stripped(o) /\ o.is \in OrderIds
       /\ body.price.is = p /\ p \in Nat /\ p > 0 /\ p % 10 = 0
       /\ body.currency = CurrencySent(c)
       /\ body.sandbox.is = Is(args, "sandbox", TRUE)
       /\ Is(args, "sandbox", TRUE) \in BOOLEAN
       /\ args.price.is = p
       /\ Is(args, "currency", "usd") = Is(c, "currency", "usd")
  BY <1>4, <1>8, <1>9, <1>10
<1> QED
  BY <1>11 DEF DumpFull, body, model, args

LEMMA VerifyBody ==
    ASSUME NEW o \in OrderTexts, NEW p \in Amounts, NEW c \in CurrencyGiven,
           Build(VerifyRequest, VerifyArgs(o, p, c)) # Refused
    PROVE  LET args == VerifyArgs(o, p, c)
               body == DumpFull(Build(VerifyRequest, args))
           IN  /\ body.order_id = Stripped(o) /\ o.is \in OrderIds
               /\ body.price.is = p
               /\ body.currency = CurrencySent(c)
               /\ args.order_id = o /\ args.price.is = p
               /\ Is(args, "currency", "usd") = Is(c, "currency", "usd")
<1> DEFINE args == VerifyArgs(o, p, c)
<1> DEFINE model == VerifyRequest
<1> DEFINE body == Build(model, args)
<1>1. /\ "order_id" \in DOMAIN args /\ args["order_id"] = o
      /\ "price" \in DOMAIN args /\ args["price"] = Money(p)
      /\ "items" \notin DOMAIN args
      /\ "currency" \in DOMAIN args <=> "currency" \in DOMAIN c
      /\ "currency" \in DOMAIN c => args["currency"] = c["currency"]
  BY VerifyArgsFacts
<1>2. /\ {"price", "currency", "order_id"} \subseteq DOMAIN model
      /\ "items" \notin DOMAIN model
      /\ model["price"] = Amount
      /\ model["currency"] = Currency
      /\ model["order_id"] = RequiredText(Unbounded)
  BY VerifySpecs
<1>3. body # Refused
  OBVIOUS
<1> HIDE DEF args, model
<1>4. /\ body["order_id"] = Stripped(o)
      /\ o.is \in OrderIds
      /\ body["price"].is = p
      /\ body["currency"] = CurrencySent(c)
  BY <1>1, <1>2, <1>3, OrderFields
<1>5. args["price"].is = p
  BY <1>1 DEF Money
<1>6. Is(args, "currency", "usd") = Is(c, "currency", "usd")
  BY <1>1 DEF Is
<1> HIDE DEF body
<1>7. /\ body.order_id = Stripped(o) /\ o.is \in OrderIds
      /\ body.price.is = p
      /\ body.currency = CurrencySent(c)
      /\ args.order_id = o /\ args.price.is = p
      /\ Is(args, "currency", "usd") = Is(c, "currency", "usd")
  BY <1>1, <1>4, <1>5, <1>6
<1> QED
  BY <1>7 DEF DumpFull, body, model, args

(* exclude_none.                                                           *)
LEMMA SparseFacts ==
    ASSUME NEW request, "items" \notin DOMAIN request
    PROVE  /\ \A f : f \in DOMAIN DumpSparse(request) <=>
                       f \in DOMAIN request /\ request[f] # None
           /\ \A f \in DOMAIN request : request[f] # None =>
                  DumpSparse(request)[f] = request[f]
<1>1. DOMAIN ExcludeNone(request) = Given(request)
  BY DEF ExcludeNone
<1>2. "items" \notin DOMAIN ExcludeNone(request)
  BY <1>1 DEF Given
<1>3. DumpSparse(request) = ExcludeNone(request)
  BY <1>2 DEF DumpSparse
<1> QED
  BY <1>1, <1>3 DEF ExcludeNone, Given

LEMMA RecreateBodyFacts ==
    ASSUME NEW o \in OrderTexts, NEW s \in Flags \cup {None},
           Build(RepaymentRequest, RecreateArgs(o, s)) # Refused
    PROVE  LET request == Build(RepaymentRequest, RecreateArgs(o, s))
               body == RecreateBody(request)
           IN  /\ body.order_id = Stripped(o) /\ o.is \in OrderIds
               /\ "sandbox" \in DOMAIN body <=> s # None
               /\ s # None => body.sandbox = s
               /\ RecreateArgs(o, s).sandbox = s
<1> DEFINE args == RecreateArgs(o, s)
<1> DEFINE model == RepaymentRequest
<1> DEFINE request == Build(model, args)
<1>1. /\ DOMAIN args = {"order_id", "success_webhook", "failure_webhook", "sandbox"}
      /\ args["order_id"] = o /\ args["sandbox"] = s
  BY DEF RecreateArgs
<1>2. /\ DOMAIN model = {"order_id", "success_webhook", "failure_webhook",
                         "sandbox", "metadata"}
      /\ model["order_id"] = RequiredText(Unbounded)
  BY DEF RepaymentRequest
<1>3. request # Refused
  OBVIOUS
<1> HIDE DEF args, model
<1>4. request = Fill(model, args) /\ Fill(model, args) # Refused
  BY <1>1, <1>2, <1>3, BuildIsFill
<1> HIDE DEF request
<1>5. DOMAIN request = DOMAIN model
  BY <1>2, <1>4, FillFacts
<1>6. /\ Validates(model["order_id"], o)
      /\ request["order_id"] = Normalise(model["order_id"], o)
  BY <1>1, <1>2, <1>4, FillFacts
<1>7. request["order_id"] = Stripped(o) /\ o.is \in OrderIds
  BY <1>2, <1>6, OrderIdField
<1>8. Stripped(o) # None
  <2>1. Stripped(o).type = "text"
    BY OrderIdField, TextFields
  <2> QED
    BY <2>1 DEF None
<1>9. request["sandbox"] = s
  <2>1. s.type # "text"
    BY DEF Flags, Flag, None
  <2>2. request["sandbox"] = Normalise(model["sandbox"], s)
    BY <1>1, <1>2, <1>4, FillFacts
  <2> QED
    BY <2>1, <2>2, NotText
<1>10. /\ DumpSparse(request)["order_id"] = Stripped(o)
       /\ "sandbox" \in DOMAIN DumpSparse(request) <=> s # None
       /\ s # None => DumpSparse(request)["sandbox"] = s
  BY <1>2, <1>5, <1>7, <1>8, <1>9, SparseFacts
<1> QED
  BY <1>1, <1>7, <1>10 DEF RecreateBody, args, model, request

LEMMA RefundBodyFacts ==
    ASSUME NEW a, Build(RefundRequest, RefundArgs(a)) # Refused
    PROVE  LET body == DumpSparse(Build(RefundRequest, RefundArgs(a)))
           IN  /\ a = None => "amount" \notin DOMAIN body
               /\ \A p \in Amounts : a = Money(p) =>
                    /\ "amount" \in DOMAIN body /\ body.amount.is = p
                    /\ p \in Nat /\ p > 0 /\ p % 10 = 0
               /\ RefundArgs(a).amount = a
<1> DEFINE args == RefundArgs(a)
<1> DEFINE model == RefundRequest
<1> DEFINE request == Build(model, args)
<1>1. DOMAIN args = {"amount", "reason"} /\ args["amount"] = a
  BY DEF RefundArgs
<1>2. DOMAIN model = {"amount", "reason"} /\ model["amount"] = OptionalAmount
  BY DEF RefundRequest
<1>3. request # Refused
  OBVIOUS
<1> HIDE DEF args, model
<1>4. request = Fill(model, args) /\ Fill(model, args) # Refused
  BY <1>1, <1>2, <1>3, BuildIsFill
<1> HIDE DEF request
<1>5. DOMAIN request = DOMAIN model
  BY <1>2, <1>4, FillFacts
<1>6. /\ Validates(OptionalAmount, a)
      /\ request["amount"] = Normalise(OptionalAmount, a)
  BY <1>1, <1>2, <1>4, FillFacts
<1>7. /\ a = None => a.type # "text"
      /\ \A p \in Amounts : a = Money(p) =>
            a.type # "text" /\ a # None /\ a.is = p
  BY DEF None, Money
<1>8. /\ a = None => "amount" \notin DOMAIN DumpSparse(request)
      /\ \A p \in Amounts : a = Money(p) =>
            /\ "amount" \in DOMAIN DumpSparse(request)
            /\ DumpSparse(request)["amount"].is = p
  BY <1>2, <1>5, <1>6, <1>7, NotText, SparseFacts
<1>9. \A p \in Amounts : a = Money(p) => p \in Nat /\ p > 0 /\ p % 10 = 0
  BY <1>6, AmountField, AmountSpecs
<1> QED
  BY <1>1, <1>8, <1>9 DEF args, model, request
-----------------------------------------------------------------------------
(* The invariant: what the gateway keeps of an order agrees with what was  *)
(* asked for in every respect but the spelling of the currency, under the  *)
(* one key that is sent for the order.                                     *)

Orders(currencies) ==
    [exists : {TRUE}, price : Nat, currency : currencies, live : BOOLEAN,
     paid : BOOLEAN, refunded : Nat]

Agrees(order, want) ==
    /\ order \in Orders(Texts) /\ want \in Orders(Words)
    /\ order.price = want.price /\ order.live = want.live
    /\ order.paid = want.paid /\ order.refunded = want.refunded
    /\ order.price \in Amounts /\ order.price > 0 /\ order.price % 10 = 0
    /\ order.refunded <= order.price
    /\ \E c \in CurrencyGiven : /\ order.currency = CurrencySent(c)
                                /\ want.currency = Is(c, "currency", "usd")

OrderInv ==
    /\ orders \in [OrderKeys -> Orders(Texts) \cup {NoOrder}]
    /\ asked \in [OrderIds -> Orders(Words) \cup {NoOrder}]
    /\ \A k \in OrderKeys : orders[k] # NoOrder =>
          ~k.padded /\ k.is \in OrderIds /\ Agrees(orders[k], asked[k.is])
    /\ \A o \in OrderIds : asked[o] # NoOrder =>
          \E k \in OrderKeys : k.is = o /\ orders[k] # NoOrder

ClientInv == client.stage \in {"none", "configured", "ready"}

LEMMA NotNoOrder ==
    ASSUME NEW C, NEW order \in Orders(C)
    PROVE  order # NoOrder
<1>1. order.exists = TRUE
  BY DEF Orders
<1>2. NoOrder.exists = FALSE
  BY DEF NoOrder
<1> QED
  BY <1>1, <1>2

LEMMA InitInv == Init => OrderInv /\ ClientInv
<1> SUFFICES ASSUME Init PROVE OrderInv /\ ClientInv
  OBVIOUS
<1>1. /\ \A k \in OrderKeys : orders[k] = NoOrder
      /\ \A o \in OrderIds : asked[o] = NoOrder
      /\ orders \in [OrderKeys -> Orders(Texts) \cup {NoOrder}]
      /\ asked \in [OrderIds -> Orders(Words) \cup {NoOrder}]
  BY DEF Init
<1>2. client.stage = "none"
  BY DEF Init
<1> QED
  BY <1>1, <1>2 DEF OrderInv, ClientInv

(* An order and what is asked of it change together, under its key.        *)
LEMMA PutKeeps ==
    ASSUME OrderInv, NEW key \in OrderKeys, ~key.padded, key.is \in OrderIds,
           NEW order, NEW want, Agrees(order, want),
           orders' = [orders EXCEPT ![key] = order],
           asked' = [asked EXCEPT ![key.is] = want]
    PROVE  OrderInv'
<1>1. /\ orders \in [OrderKeys -> Orders(Texts) \cup {NoOrder}]
      /\ asked \in [OrderIds -> Orders(Words) \cup {NoOrder}]
  BY DEF OrderInv
<1>2. order \in Orders(Texts) /\ want \in Orders(Words)
  BY DEF Agrees
<1>3. order # NoOrder /\ want # NoOrder
  BY <1>2, NotNoOrder
<1>4. /\ orders' \in [OrderKeys -> Orders(Texts) \cup {NoOrder}]
      /\ asked' \in [OrderIds -> Orders(Words) \cup {NoOrder}]
  BY <1>1, <1>2
<1>5. ASSUME NEW k \in OrderKeys, orders'[k] # NoOrder
      PROVE  ~k.padded /\ k.is \in OrderIds /\ Agrees(orders'[k], asked'[k.is])
  <2>1. CASE k = key
    <3>1. orders'[k] = order /\ asked'[k.is] = want
      BY <1>1, <2>1
    <3> QED
      BY <2>1, <3>1
  <2>2. CASE k # key
    <3>1. orders'[k] = orders[k] /\ orders[k] # NoOrder
      BY <1>1, <1>5, <2>2
    <3>2. ~k.padded /\ k.is \in OrderIds /\ Agrees(orders[k], asked[k.is])
      BY <3>1 DEF OrderInv
    <3>3. k.is # key.is
      BY <2>2, <3>2, OneKey
    <3>4. asked'[k.is] = asked[k.is]
      BY <1>1, <3>2, <3>3
    <3> QED
      BY <3>1, <3>2, <3>4
  <2> QED
    BY <2>1, <2>2
<1>6. ASSUME NEW o \in OrderIds, asked'[o] # NoOrder
      PROVE  \E k \in OrderKeys : k.is = o /\ orders'[k] # NoOrder
  <2>1. CASE o = key.is
    <3>1. orders'[key] = order
      BY <1>1
    <3> QED
      BY <1>3, <2>1, <3>1
  <2>2. CASE o # key.is
    <3>1. asked[o] # NoOrder
      BY <1>1, <1>6, <2>2
    <3>2. PICK k \in OrderKeys : k.is = o /\ orders[k] # NoOrder
      BY <3>1 DEF OrderInv
    <3>3. orders'[k] = orders[k]
      BY <1>1, <2>2, <3>2
    <3> QED
      BY <3>2, <3>3
  <2> QED
    BY <2>1, <2>2
<1> HIDE DEF Agrees
<1> QED
  BY <1>4, <1>5, <1>6 DEF OrderInv

LEMMA Same ==
    ASSUME OrderInv, UNCHANGED <<orders, asked>>
    PROVE  OrderInv'
<1>1. orders' = orders /\ asked' = asked
  OBVIOUS
<1> QED
  BY <1>1 DEF OrderInv

LEMMA KeptOrder ==
    ASSUME OrderInv, NEW key \in OrderKeys, orders[key] # NoOrder
    PROVE  /\ ~key.padded /\ key.is \in OrderIds
           /\ Agrees(orders[key], asked[key.is])
           /\ orders[key] \in Orders(Texts)
           /\ asked[key.is] \in Orders(Words)
           /\ asked[key.is] # NoOrder
<1>1. /\ ~key.padded /\ key.is \in OrderIds
      /\ Agrees(orders[key], asked[key.is])
  BY DEF OrderInv
<1> QED
  BY <1>1, NotNoOrder DEF Agrees

LEMMA CreateKeeps ==
    ASSUME OrderInv, NEW o \in OrderTexts, NEW p \in Amounts,
           NEW c \in CurrencyGiven, NEW s \in SandboxGiven,
           Create(CreateArgs(o, p, c, s))
    PROVE  OrderInv'
<1> DEFINE args == CreateArgs(o, p, c, s)
<1> DEFINE body == DumpFull(Build(PaymentCreateRequest, args))
<1> DEFINE key == Stripped(o)
<1>1. body # Refused /\ Build(PaymentCreateRequest, args) # Refused
  BY DEF Create, DumpFull
<1>2. /\ body.order_id = key /\ o.is \in OrderIds
      /\ body.price.is = p /\ p \in Nat /\ p > 0 /\ p % 10 = 0
      /\ body.currency = CurrencySent(c)
      /\ body.sandbox.is = Is(args, "sandbox", TRUE)
      /\ Is(args, "sandbox", TRUE) \in BOOLEAN
      /\ args.price.is = p
      /\ Is(args, "currency", "usd") = Is(c, "currency", "usd")
  BY <1>1, CreateBody
<1>3. key \in OrderKeys /\ ~key.padded /\ key.is = o.is
  BY OrderIdField
<1>4. PICK t \in CurrencyTexts \cup {Usd} :
        t \in Texts /\ CurrencySent(c) \in Texts /\ Is(c, "currency", "usd") = t.is
  BY SentCurrency
<1>5. CurrencySent(c) \in Texts /\ Is(c, "currency", "usd") \in Words
  BY <1>4, TextFields
<1> DEFINE order == Order(body.price.is, body.currency, ~body.sandbox.is)
<1> DEFINE want == AskedOrder(args)
<1>6. /\ orders' = [orders EXCEPT ![key] = order]
      /\ asked' = [asked EXCEPT ![key.is] = want]
  BY <1>2 DEF Create
<1>7. /\ order = Order(p, CurrencySent(c), ~Is(args, "sandbox", TRUE))
      /\ want = Order(p, Is(c, "currency", "usd"), ~Is(args, "sandbox", TRUE))
  BY <1>2 DEF AskedOrder
<1> HIDE DEF args, body, order, want, key
<1>8. Agrees(order, want)
  <2> DEFINE live == ~Is(args, "sandbox", TRUE)
  <2>1. live \in BOOLEAN
    OBVIOUS
  <2> HIDE DEF live
  <2>2. order = Order(p, CurrencySent(c), live)
        /\ want = Order(p, Is(c, "currency", "usd"), live)
    BY <1>7 DEF live
  <2>3. order \in Orders(Texts) /\ want \in Orders(Words)
    BY <1>2, <1>5, <2>1, <2>2 DEF Order, Orders
  <2>4. /\ order.price = p /\ want.price = p
        /\ order.currency = CurrencySent(c)
        /\ want.currency = Is(c, "currency", "usd")
        /\ order.live = want.live /\ order.paid = want.paid
        /\ order.refunded = 0 /\ want.refunded = 0
    BY <2>2 DEF Order
  <2> QED
    BY <1>2, <2>3, <2>4 DEF Agrees
<1> QED
  BY <1>2, <1>3, <1>6, <1>8, PutKeeps

LEMMA RecreateKeeps ==
    ASSUME OrderInv, NEW o \in OrderTexts, NEW s \in Flags \cup {None},
           Recreate(RecreateArgs(o, s))
    PROVE  OrderInv'
<1> DEFINE args == RecreateArgs(o, s)
<1> DEFINE request == Build(RepaymentRequest, args)
<1> DEFINE body == RecreateBody(request)
<1> DEFINE key == Stripped(o)
<1>1. request # Refused
  BY DEF Recreate
<1>2. /\ body.order_id = key /\ o.is \in OrderIds
      /\ "sandbox" \in DOMAIN body <=> s # None
      /\ s # None => body.sandbox = s
      /\ args.sandbox = s
  BY <1>1, RecreateBodyFacts
<1>3. key \in OrderKeys /\ ~key.padded /\ key.is = o.is
  BY OrderIdField
<1> DEFINE live == IF s # None THEN s = Flag(FALSE) ELSE orders[key].live
<1> DEFINE order == [orders[key] EXCEPT !.live = live]
<1> DEFINE want == [asked[key.is] EXCEPT !.live = live]
<1>4. orders[key] # NoOrder
  BY <1>2 DEF Recreate
<1>5. /\ Agrees(orders[key], asked[key.is])
      /\ orders[key] \in Orders(Texts) /\ asked[key.is] \in Orders(Words)
  BY <1>3, <1>4, KeptOrder
<1>6. orders[key].live = asked[key.is].live
  BY <1>5 DEF Agrees
<1>7. s # None => (s # Flag(TRUE) <=> s = Flag(FALSE))
  BY FlagFacts DEF Flags
<1>8. /\ orders' = [orders EXCEPT ![key] = order]
      /\ asked' = [asked EXCEPT ![key.is] = want]
  <2>1. /\ orders' = [orders EXCEPT ![key].live =
               IF "sandbox" \in DOMAIN body THEN body.sandbox # Flag(TRUE)
               ELSE @]
        /\ asked' = [asked EXCEPT ![key.is].live =
               IF s # None THEN s = Flag(FALSE) ELSE @]
    BY <1>2 DEF Recreate
  <2>2. CASE s = None
    BY <1>2, <1>6, <2>1, <2>2
  <2>3. CASE s # None
    BY <1>2, <1>7, <2>1, <2>3
  <2> QED
    BY <2>2, <2>3
<1>9. live \in BOOLEAN
  BY <1>5 DEF Orders
<1> HIDE DEF args, request, body, live, key
<1>10. order \in Orders(Texts) /\ want \in Orders(Words)
  BY <1>5, <1>9 DEF Orders
<1>11. Agrees(order, want)
  <2>1. /\ order.price = orders[key].price /\ want.price = asked[key.is].price
        /\ order.currency = orders[key].currency
        /\ want.currency = asked[key.is].currency
    BY <1>5 DEF Orders
  <2>2. order.live = live /\ want.live = live
    BY <1>5, <1>9 DEF Orders
  <2>3. order.paid = orders[key].paid /\ want.paid = asked[key.is].paid
    BY <1>5 DEF Orders
  <2>4. /\ order.refunded = orders[key].refunded
        /\ want.refunded = asked[key.is].refunded
    BY <1>5 DEF Orders
  <2> HIDE DEF order, want
  <2> QED
    BY <1>5, <1>10, <2>1, <2>2, <2>3, <2>4 DEF Agrees
<1> QED
  BY <1>2, <1>3, <1>8, <1>11, PutKeeps

LEMMA PayKeeps ==
    ASSUME OrderInv, NEW key \in OrderKeys, Pay(key)
    PROVE  OrderInv'
<1> DEFINE order == [orders[key] EXCEPT !.paid = TRUE]
<1> DEFINE want == [asked[key.is] EXCEPT !.paid = TRUE]
<1>1. orders[key] # NoOrder
  BY DEF Pay
<1>2. /\ Agrees(orders[key], asked[key.is])
      /\ ~key.padded /\ key.is \in OrderIds
      /\ orders[key] \in Orders(Texts) /\ asked[key.is] \in Orders(Words)
  BY <1>1, KeptOrder
<1>3. /\ orders' = [orders EXCEPT ![key] = order]
      /\ asked' = [asked EXCEPT ![key.is] = want]
  BY DEF Pay
<1>4. order \in Orders(Texts) /\ want \in Orders(Words)
  BY <1>2 DEF Orders
<1>5. Agrees(order, want)
  <2>1. /\ order.price = orders[key].price /\ want.price = asked[key.is].price
        /\ order.currency = orders[key].currency
        /\ want.currency = asked[key.is].currency
    BY <1>2 DEF Orders
  <2>2. order.live = orders[key].live /\ want.live = asked[key.is].live
    BY <1>2 DEF Orders
  <2>3. order.paid = want.paid
    BY <1>2 DEF Orders
  <2>4. /\ order.refunded = orders[key].refunded
        /\ want.refunded = asked[key.is].refunded
    BY <1>2 DEF Orders
  <2> HIDE DEF order, want
  <2> QED
    BY <1>2, <1>4, <2>1, <2>2, <2>3, <2>4 DEF Agrees
<1> QED
  BY <1>2, <1>3, <1>5, PutKeeps

LEMMA WholeCents ==
    ASSUME NEW p \in Nat, p % 10 = 0
    PROVE  Cents(p) = p
  BY DEF Cents

LEMMA RefundKeeps ==
    ASSUME OrderInv, NEW key \in OrderKeys,
           NEW a \in {Money(p) : p \in Amounts} \cup {None},
           Refund(key, RefundArgs(a))
    PROVE  OrderInv'
<1> DEFINE args == RefundArgs(a)
<1> DEFINE body == DumpSparse(Build(RefundRequest, args))
<1> DEFINE left == orders[key].price - orders[key].refunded
<1> DEFINE amount == IF "amount" \in DOMAIN body THEN Cents(body.amount.is)
                     ELSE left
<1> DEFINE asks == IF args.amount = None
                   THEN asked[key.is].price - asked[key.is].refunded
                   ELSE args.amount.is
<1>1. Build(RefundRequest, args) # Refused
  BY DEF Refund
<1>2. /\ orders[key] # NoOrder
      /\ amount > 0 /\ amount <= left
      /\ orders' = [orders EXCEPT ![key].refunded = @ + amount]
      /\ asked' = [asked EXCEPT ![key.is].refunded = @ + asks]
  BY DEF Refund
<1>3. /\ Agrees(orders[key], asked[key.is])
      /\ ~key.padded /\ key.is \in OrderIds
      /\ orders[key] \in Orders(Texts) /\ asked[key.is] \in Orders(Words)
  BY <1>2, KeptOrder
<1>4. /\ orders[key].price = asked[key.is].price
      /\ orders[key].refunded = asked[key.is].refunded
      /\ orders[key].refunded <= orders[key].price
  BY <1>3 DEF Agrees
<1>5. /\ orders[key].price \in Nat /\ orders[key].refunded \in Nat
      /\ asked[key.is].price \in Nat /\ asked[key.is].refunded \in Nat
  BY <1>3 DEF Orders
<1>6. amount = asks /\ amount \in Nat
  <2>1. CASE a = None
    <3>1. "amount" \notin DOMAIN body /\ args.amount = None
      BY <1>1, <2>1, RefundBodyFacts
    <3> QED
      BY <1>4, <1>5, <3>1
  <2>2. CASE \E p \in Amounts : a = Money(p)
    <3>1. PICK p \in Amounts : a = Money(p)
      BY <2>2
    <3>2. /\ "amount" \in DOMAIN body /\ body.amount.is = p
          /\ p \in Nat /\ p > 0 /\ p % 10 = 0 /\ args.amount = a
      BY <1>1, <3>1, RefundBodyFacts
    <3>3. a # None /\ a.is = p
      BY <3>1 DEF Money, None
    <3>4. amount = p
      BY <3>2, WholeCents
    <3> QED
      BY <3>2, <3>3, <3>4
  <2> QED
    BY <2>1, <2>2
<1> DEFINE total == orders[key].refunded + amount
<1> DEFINE order == [orders[key] EXCEPT !.refunded = total]
<1> DEFINE want == [asked[key.is] EXCEPT !.refunded = total]
<1>7. /\ orders' = [orders EXCEPT ![key] = order]
      /\ asked' = [asked EXCEPT ![key.is] = want]
  BY <1>2, <1>4, <1>6
<1>8. total \in Nat /\ total <= orders[key].price
  BY <1>2, <1>5, <1>6
<1> HIDE DEF args, body, left, amount, asks, total
<1>9. order \in Orders(Texts) /\ want \in Orders(Words)
  BY <1>3, <1>8 DEF Orders
<1>10. Agrees(order, want)
  <2>1. /\ order.price = orders[key].price /\ want.price = asked[key.is].price
        /\ order.currency = orders[key].currency
        /\ want.currency = asked[key.is].currency
    BY <1>3 DEF Orders
  <2>2. order.live = orders[key].live /\ want.live = asked[key.is].live
    BY <1>3 DEF Orders
  <2>3. order.paid = orders[key].paid /\ want.paid = asked[key.is].paid
    BY <1>3 DEF Orders
  <2>4. order.refunded = total /\ want.refunded = total
    BY <1>3 DEF Orders
  <2> HIDE DEF order, want
  <2> QED
    BY <1>3, <1>8, <1>9, <2>1, <2>2, <2>3, <2>4 DEF Agrees
<1> QED
  BY <1>3, <1>7, <1>10, PutKeeps

LEMMA NextKeeps ==
    ASSUME OrderInv, [Next]_vars
    PROVE  OrderInv'
<1>1. CASE \/ ConfigureFromEnv \/ ConfigureFromSettings \/ Connect
           \/ Submit \/ Return \/ UNCHANGED vars
  <2>1. UNCHANGED <<orders, asked>>
    BY <1>1, Zenon DEF ConfigureFromEnv, ConfigureFromSettings, Connect,
                       Submit, Return, vars
  <2> QED
    BY <2>1, Same
<1>2. CASE \E o \in OrderTexts, p \in Amounts, c \in CurrencyGiven,
              s \in SandboxGiven : Create(CreateArgs(o, p, c, s))
  BY <1>2, CreateKeeps
<1>3. CASE \E o \in OrderTexts, s \in Flags \cup {None} :
              Recreate(RecreateArgs(o, s))
  BY <1>3, RecreateKeeps
<1>4. CASE \E key \in OrderKeys : Pay(key)
  BY <1>4, PayKeeps
<1>5. CASE \E o \in OrderTexts, p \in Amounts, c \in CurrencyGiven :
              Verify(VerifyArgs(o, p, c))
  <2>1. UNCHANGED <<orders, asked>>
    BY <1>5, Zenon DEF Verify
  <2> QED
    BY <2>1, Same
<1>6. CASE \E key \in OrderKeys,
              a \in {Money(p) : p \in Amounts} \cup {None} :
              Refund(key, RefundArgs(a))
  BY <1>6, RefundKeeps
<1> QED
  BY <1>1, <1>2, <1>3, <1>4, <1>5, <1>6, Zenon DEF Next

LEMMA NextKeepsClient ==
    ASSUME ClientInv, [Next]_vars
    PROVE  ClientInv'
<1>1. CASE ConfigureFromEnv \/ ConfigureFromSettings
  BY <1>1 DEF ConfigureFromEnv, ConfigureFromSettings, Configured, ClientInv
<1>2. CASE Connect
  BY <1>2 DEF Connect, ClientInv
<1>3. CASE UNCHANGED client
  BY <1>3 DEF ClientInv
<1>4. ASSUME NEW args, Create(args) \/ Recreate(args) \/ Verify(args)
      PROVE  UNCHANGED client
  BY <1>4, Zenon DEF Create, Recreate, Verify
<1>5. ASSUME NEW key, Pay(key) PROVE UNCHANGED client
  BY <1>5, Zenon DEF Pay
<1>6. ASSUME NEW key, NEW args, Refund(key, args) PROVE UNCHANGED client
  BY <1>6, Zenon DEF Refund
<1>7. Submit \/ Return \/ UNCHANGED vars => UNCHANGED client
  BY Zenon DEF Submit, Return, vars
<1> QED
  BY <1>1, <1>2, <1>3, <1>4, <1>5, <1>6, <1>7, Zenon DEF Next

LEMMA KeySize ==
    ASSUME NEW k \in OrderKeys, k.is \in OrderIds
    PROVE  k.size > 0
<1>1. PICK t \in OrderTexts : k.is = t.is /\ k.size = t.size
  BY CheckoutAssumption, StrippedText DEF OrderKeys
<1>2. PICK u \in OrderTexts : u.size > 0 /\ u.is = k.is
  BY DEF OrderIds
<1> QED
  BY <1>1, <1>2, CheckoutAssumption

(* What is kept of an order has its type: its key without blanks, its      *)
(* currency in lower case, its price in cents, no more refunded than paid. *)
THEOREM TypeCorrect == Spec => []TypeOK
<1>1. OrderInv /\ ClientInv => TypeOK
  <2> SUFFICES ASSUME OrderInv, ClientInv PROVE TypeOK
    OBVIOUS
  <2>1. ASSUME NEW k \in OrderKeys, orders[k] # NoOrder
        PROVE  /\ ~k.padded /\ k.size > 0
               /\ orders[k].price \in Nat \ {0} /\ orders[k].price % 10 = 0
               /\ ~orders[k].currency.padded /\ ~orders[k].currency.upper
               /\ orders[k].refunded \in 0..orders[k].price
    <3>1. /\ ~k.padded /\ k.is \in OrderIds
          /\ Agrees(orders[k], asked[k.is])
          /\ orders[k] \in Orders(Texts)
      BY <2>1, KeptOrder
    <3>2. orders[k].price \in Nat /\ orders[k].refunded \in Nat
      BY <3>1 DEF Orders
    <3>3. PICK c \in CurrencyGiven : orders[k].currency = CurrencySent(c)
      BY <3>1 DEF Agrees
    <3>4. ~orders[k].currency.padded /\ ~orders[k].currency.upper
      BY <3>3, SentCurrency
    <3>5. /\ orders[k].price > 0 /\ orders[k].price % 10 = 0
          /\ orders[k].refunded <= orders[k].price
      BY <3>1 DEF Agrees
    <3> QED
      BY <3>1, <3>2, <3>4, <3>5, KeySize
  <2>2. ASSUME NEW o \in OrderIds, asked[o] # NoOrder
        PROVE  asked[o].price \in Amounts /\ asked[o].live \in BOOLEAN
    <3>1. PICK k \in OrderKeys : k.is = o /\ orders[k] # NoOrder
      BY <2>2 DEF OrderInv
    <3>2. Agrees(orders[k], asked[o])
      BY <3>1, KeptOrder
    <3> QED
      BY <3>2 DEF Agrees, Orders
  <2> QED
    BY <2>1, <2>2 DEF TypeOK, ClientInv
<1>2. OrderInv /\ ClientInv /\ [Next]_vars => OrderInv' /\ ClientInv'
  BY NextKeeps, NextKeepsClient
<1> QED
  BY <1>1, <1>2, InitInv, PTL DEF Spec

(* What the gateway keeps agrees with what was asked for, always.          *)
THEOREM InvariantHolds == Spec => []OrderInv
<1>1. OrderInv /\ [Next]_vars => OrderInv'
  BY NextKeeps
<1> QED
  BY <1>1, InitInv, PTL DEF Spec

(* An order is live just when the last `sandbox' given for it was False,   *)
(* however its id was spelled.                                             *)
THEOREM ModeKept == Spec => []ModeAsAsked
<1>1. OrderInv => ModeAsAsked
  <2> SUFFICES ASSUME OrderInv, NEW k \in OrderKeys, orders[k] # NoOrder
               PROVE  orders[k].live = asked[k.is].live
    BY DEF ModeAsAsked
  <2>1. Agrees(orders[k], asked[k.is])
    BY KeptOrder
  <2> QED
    BY <2>1 DEF Agrees
<1> QED
  BY <1>1, InvariantHolds, PTL

(* What was refunded is what was asked for, for all amounts.               *)
THEOREM RefundedExactly == Spec => []RefundedAsAsked
<1>1. OrderInv => RefundedAsAsked
  <2> SUFFICES ASSUME OrderInv, NEW k \in OrderKeys, orders[k] # NoOrder
               PROVE  /\ orders[k].refunded = asked[k.is].refunded
                      /\ orders[k].refunded <= asked[k.is].price
    BY DEF RefundedAsAsked
  <2>1. Agrees(orders[k], asked[k.is])
    BY KeptOrder
  <2> QED
    BY <2>1 DEF Agrees
<1> QED
  BY <1>1, InvariantHolds, PTL
-----------------------------------------------------------------------------
(* The answer of one call of verify.                                       *)
LEMMA VerifyAnswers ==
    ASSUME OrderInv, NEW o \in OrderTexts, NEW p \in Amounts,
           NEW c \in CurrencyGiven, Verify(VerifyArgs(o, p, c))
    PROVE  last'.verified <=>
               LET order == asked[last'.args.order_id.is]
               IN  /\ order # NoOrder /\ order.paid
                   /\ order.price = last'.args.price.is
                   /\ order.currency = Is(last'.args, "currency", "usd")
<1> DEFINE args == VerifyArgs(o, p, c)
<1> DEFINE body == DumpFull(Build(VerifyRequest, args))
<1> DEFINE key == Stripped(o)
<1>1. Build(VerifyRequest, args) # Refused
  BY DEF Verify, DumpFull
<1>2. /\ body.order_id = key /\ o.is \in OrderIds
      /\ body.price.is = p /\ body.currency = CurrencySent(c)
      /\ args.order_id = o /\ args.price.is = p
      /\ Is(args, "currency", "usd") = Is(c, "currency", "usd")
  BY <1>1, VerifyBody
<1>3. last'.args = args /\ last'.verified = Verified(body)
  BY DEF Verify
<1>4. key \in OrderKeys /\ ~key.padded /\ key.is = o.is
  BY OrderIdField
<1> HIDE DEF args, body, key
<1>5. Verified(body) <=> /\ orders[key] # NoOrder /\ orders[key].paid
                         /\ orders[key].price = p
                         /\ orders[key].currency = CurrencySent(c)
  BY <1>2 DEF Verified
<1>6. asked[o.is] # NoOrder => orders[key] # NoOrder
  <2> SUFFICES ASSUME asked[o.is] # NoOrder PROVE orders[key] # NoOrder
    OBVIOUS
  <2>1. PICK k \in OrderKeys : k.is = o.is /\ orders[k] # NoOrder
    BY <1>2 DEF OrderInv
  <2>2. ~k.padded
    BY <2>1, KeptOrder
  <2> QED
    BY <1>4, <2>1, <2>2, OneKey
<1>7. CASE orders[key] # NoOrder
  <2>1. Agrees(orders[key], asked[o.is]) /\ asked[o.is] # NoOrder
    BY <1>4, <1>7, KeptOrder
  <2>2. PICK d \in CurrencyGiven :
          /\ orders[key].currency = CurrencySent(d)
          /\ asked[o.is].currency = Is(d, "currency", "usd")
    BY <2>1 DEF Agrees
  <2>3. CurrencySent(d) = CurrencySent(c) <=>
            Is(d, "currency", "usd") = Is(c, "currency", "usd")
    BY SameCurrency
  <2>4. /\ orders[key].paid = asked[o.is].paid
        /\ orders[key].price = asked[o.is].price
    BY <2>1 DEF Agrees
  <2>5. Verified(body) <=> /\ asked[o.is] # NoOrder /\ asked[o.is].paid
                           /\ asked[o.is].price = p
                           /\ asked[o.is].currency = Is(c, "currency", "usd")
    BY <1>5, <1>7, <2>1, <2>2, <2>3, <2>4
  <2> QED
    BY <1>2, <1>3, <2>5
<1>8. CASE orders[key] = NoOrder
  BY <1>2, <1>3, <1>5, <1>6, <1>8
<1> QED
  BY <1>7, <1>8

(* verify answers yes to exactly what create was given, if it is paid,     *)
(* whatever the spellings of order and currency in the two calls.          *)
THEOREM VerifiedExactly == Spec => VerifiedAsAsked
<1> DEFINE Answered == last'.call = "verify" /\ last = NoCall
<1> DEFINE Right == last'.verified <=>
                      LET order == asked[last'.args.order_id.is]
                      IN  /\ order # NoOrder /\ order.paid
                          /\ order.price = last'.args.price.is
                          /\ order.currency = Is(last'.args, "currency", "usd")
<1>1. OrderInv /\ [Next]_vars => [Answered => Right]_vars
  <2> SUFFICES ASSUME OrderInv, Next, Answered PROVE Right
    BY Zenon
  <2>1. CASE \E o \in OrderTexts, p \in Amounts, c \in CurrencyGiven :
                Verify(VerifyArgs(o, p, c))
    BY <2>1, VerifyAnswers, Zenon
  <2>2. ASSUME NEW args, Create(args) \/ Recreate(args) PROVE last' = last
    BY <2>2, Zenon DEF Create, Recreate
  <2>3. ASSUME NEW key, Pay(key) PROVE last' = last
    BY <2>3, Zenon DEF Pay
  <2>4. ASSUME NEW key, NEW args, Refund(key, args) PROVE last' = last
    BY <2>4, Zenon DEF Refund
  <2>5. ConfigureFromEnv \/ ConfigureFromSettings \/ Connect => last' = last
    BY Zenon DEF ConfigureFromEnv, ConfigureFromSettings, Connect
  <2>6. Return => last' = NoCall
    BY Zenon DEF Return
  <2>7. Submit => last'.call = "submit"
    BY DEF Submit
  <2>8. NoCall.call = "none"
    BY DEF NoCall
  <2> HIDE DEF Right
  <2>9. last' # last /\ ~Return /\ ~Submit
    BY <2>6, <2>7, <2>8
  <2> QED
    BY <2>1, <2>2, <2>3, <2>4, <2>5, <2>9, Zenon DEF Next
<1> QED
  BY <1>1, InvariantHolds, PTL DEF Spec, VerifiedAsAsked
-----------------------------------------------------------------------------
(* The configuration.                                                      *)

(* A client that is configured is so from one source.                      *)
ConfiguredFrom ==
    client.stage = "configured" =>
        \/ \E env \in Environments, overrides \in Overrides :
              /\ client.source = [kind |-> "env", env |-> env,
                                  overrides |-> overrides]
              /\ client.outcome = FromEnv(env, overrides)
        \/ \E settings \in DjangoSettings :
              /\ client.source = [kind |-> "settings", settings |-> settings]
              /\ client.outcome = FromSettings(settings)

LEMMA ConfiguredKeeps ==
    ASSUME ConfiguredFrom, [Next]_vars
    PROVE  ConfiguredFrom'
<1>1. CASE ConfigureFromEnv
  <2>1. PICK env \in Environments, overrides \in Overrides :
          Configured([kind |-> "env", env |-> env, overrides |-> overrides],
                     FromEnv(env, overrides))
    BY <1>1 DEF ConfigureFromEnv
  <2>2. /\ client'.source = [kind |-> "env", env |-> env, overrides |-> overrides]
        /\ client'.outcome = FromEnv(env, overrides)
    BY <2>1 DEF Configured
  <2> QED
    BY <2>2, Zenon DEF ConfiguredFrom
<1>2. CASE ConfigureFromSettings
  <2>1. PICK settings \in DjangoSettings :
          Configured([kind |-> "settings", settings |-> settings],
                     FromSettings(settings))
    BY <1>2 DEF ConfigureFromSettings
  <2>2. /\ client'.source = [kind |-> "settings", settings |-> settings]
        /\ client'.outcome = FromSettings(settings)
    BY <2>1 DEF Configured
  <2> QED
    BY <2>2, Zenon DEF ConfiguredFrom
<1>3. CASE Connect
  <2>1. client'.stage # "configured"
    BY <1>3 DEF Connect
  <2> QED
    BY <2>1, Zenon DEF ConfiguredFrom
<1>4. CASE UNCHANGED client
  BY <1>4, Zenon DEF ConfiguredFrom
<1>5. ASSUME NEW args, Create(args) \/ Recreate(args) \/ Verify(args)
      PROVE  UNCHANGED client
  BY <1>5, Zenon DEF Create, Recreate, Verify
<1>6. ASSUME NEW key, Pay(key) PROVE UNCHANGED client
  BY <1>6, Zenon DEF Pay
<1>7. ASSUME NEW key, NEW args, Refund(key, args) PROVE UNCHANGED client
  BY <1>7, Zenon DEF Refund
<1>8. Submit \/ Return \/ UNCHANGED vars => UNCHANGED client
  BY Zenon DEF Submit, Return, vars
<1> QED
  BY <1>1, <1>2, <1>3, <1>4, <1>5, <1>6, <1>7, <1>8, Zenon DEF Next

(* Of a configuration that is accepted every field comes from the keyword, *)
(* if there is one, or else from the mapping, or from the defaults.        *)
LEMMA AcceptedFields ==
    ASSUME NEW first, NEW second, NEW a, NEW b,
           IsMapping(first, a), IsMapping(second, b),
           "error" \notin DOMAIN PSIPConfig(Merge(first, second)),
           NEW f \in ConfigFields
    PROVE  PSIPConfig(Merge(first, second))[f].from =
               (IF f \in DOMAIN second THEN b
                ELSE IF f \in DOMAIN first THEN a
                ELSE "default")
<1> DEFINE given == Merge(first, second)
<1> DEFINE fields == Merge(ConfigDefaults, given)
<1>1. \A g : g \in DOMAIN given <=> g \in DOMAIN first \/ g \in DOMAIN second
  BY MergeFacts
<1>2. /\ \A g \in DOMAIN second : given[g] = second[g]
      /\ \A g \in DOMAIN first : g \notin DOMAIN second => given[g] = first[g]
  BY MergeFacts
<1> DEFINE origin == IF f \in DOMAIN second THEN b
                     ELSE IF f \in DOMAIN first THEN a
                     ELSE "default"
<1>3. "error" \in DOMAIN Failure("ValidationError")
      /\ "error" \in DOMAIN Failure("AttributeError")
  BY DEF Failure
<1> HIDE DEF given
<1>4. /\ "api_key" \in DOMAIN fields
      /\ PSIPConfig(given) = [fields EXCEPT !.base_url = NormalizeBaseUrl(@)]
  BY <1>3, Zenon DEF PSIPConfig, given
<1>5. DOMAIN ConfigDefaults = ConfigFields \ {"api_key"}
  BY DEF ConfigDefaults, ConfigFields
<1>6. /\ \A g : g \in DOMAIN fields <=> g \in DOMAIN ConfigDefaults \/ g \in DOMAIN given
      /\ \A g \in DOMAIN given : fields[g] = given[g]
      /\ \A g \in DOMAIN ConfigDefaults : g \notin DOMAIN given => fields[g] = ConfigDefaults[g]
  BY MergeFacts
<1>7. f \in DOMAIN fields
  BY <1>4, <1>5, <1>6
<1>8. \A g \in DOMAIN ConfigDefaults :
         ConfigDefaults[g] \in [from : {"default"}, is : FieldIs]
  <2>1. \A is \in FieldIs : Value("default", is) \in
                             [from : {"default"}, is : FieldIs]
    BY DEF Value
  <2>2. {"slash", "positive", "yes", "text"} \subseteq FieldIs
    BY DEF FieldIs, UrlIs, TimeoutIs, SandboxIs, AgentIs
  <2>3. /\ ConfigDefaults["base_url"] = Value("default", "slash")
        /\ ConfigDefaults["timeout"] = Value("default", "positive")
        /\ ConfigDefaults["default_sandbox"] = Value("default", "yes")
        /\ ConfigDefaults["user_agent"] = Value("default", "text")
    BY DEF ConfigDefaults
  <2>4. DOMAIN ConfigDefaults =
          {"base_url", "timeout", "default_sandbox", "user_agent"}
    BY DEF ConfigDefaults
  <2> QED
    BY <2>1, <2>2, <2>3, <2>4
<1>9. fields[f] \in [from : {origin}, is : FieldIs]
  BY <1>1, <1>2, <1>5, <1>6, <1>7, <1>8 DEF IsMapping
<1> HIDE DEF fields, origin
<1>10. fields[f].from = origin
  BY <1>9
<1>11. NormalizeBaseUrl(fields[f]).from = origin
  BY <1>9 DEF NormalizeBaseUrl
<1>12. PSIPConfig(given)[f] =
         IF f = "base_url" THEN NormalizeBaseUrl(fields[f]) ELSE fields[f]
  BY <1>4, <1>7
<1> QED
  BY <1>10, <1>11, <1>12 DEF given, origin

LEMMA AcceptedHolds ==
    ASSUME ConfiguredFrom PROVE AcceptedAsAsked
<1> SUFFICES ASSUME client.stage = "configured", client.source.kind = "env",
                    "error" \notin DOMAIN client.outcome,
                    NEW f \in ConfigFields
             PROVE  client.outcome[f].from =
                       (IF f \in DOMAIN client.source.overrides THEN "keyword"
                        ELSE IF f \in DOMAIN client.source.env
                        THEN "environment" ELSE "default")
  BY DEF AcceptedAsAsked
<1>1. ~ \E settings \in DjangoSettings :
          client.source = [kind |-> "settings", settings |-> settings]
  <2>1. \A settings :
           [kind |-> "settings", settings |-> settings].kind # "env"
    OBVIOUS
  <2> QED
    BY <2>1, Zenon
<1>2. PICK env \in Environments, overrides \in Overrides :
        /\ client.source = [kind |-> "env", env |-> env, overrides |-> overrides]
        /\ client.outcome = FromEnv(env, overrides)
  BY <1>1 DEF ConfiguredFrom
<1>3. client.source.env = env /\ client.source.overrides = overrides
  BY <1>2
<1>4. "error" \in DOMAIN Failure("ValueError")
  BY DEF Failure
<1>5. client.outcome = PSIPConfig(Merge(env, overrides))
  BY <1>2, <1>4, Zenon DEF FromEnv, MergeOverrides
<1>6. /\ IsMapping(env, "environment") /\ IsMapping(overrides, "keyword")
  BY ConfigurationAssumption
<1> QED
  BY <1>3, <1>5, <1>6, AcceptedFields

LEMMA RefusedHolds ==
    ASSUME ConfiguredFrom PROVE RefusedAsOne
<1> SUFFICES ASSUME client.stage = "configured",
                    client.source.kind = "settings",
                    "error" \in DOMAIN client.outcome
             PROVE  \/ client.outcome.error = "ImproperlyConfigured"
                    \/ /\ client.source.settings.kind = "mapping"
                       /\ "api_key" \in DOMAIN client.source.settings.fields
                       /\ client.source.settings.fields.api_key.is = "none"
  BY DEF RefusedAsOne
<1>1. ~ \E env \in Environments, overrides \in Overrides :
          client.source = [kind |-> "env", env |-> env, overrides |-> overrides]
  <2>1. \A env, overrides :
           [kind |-> "env", env |-> env, overrides |-> overrides].kind
               # "settings"
    OBVIOUS
  <2> QED
    BY <2>1, Zenon
<1>2. PICK settings \in DjangoSettings :
        /\ client.source = [kind |-> "settings", settings |-> settings]
        /\ client.outcome = FromSettings(settings)
  BY <1>1 DEF ConfiguredFrom
<1>3. client.source.settings = settings
  BY <1>2
<1>4. Failure("ImproperlyConfigured").error = "ImproperlyConfigured"
  BY DEF Failure
<1>5. CASE settings.kind \in {"falsy", "no mapping"}
  BY <1>2, <1>4, <1>5 DEF FromSettings
<1>6. CASE /\ settings.kind = "mapping"
           /\ IsMapping(settings.fields, "settings")
  <2> DEFINE given == settings.fields
  <2> DEFINE fields == Merge(ConfigDefaults, given)
  <2>1. client.outcome = AsImproperlyConfigured(PSIPConfig(given))
    BY <1>2, <1>6 DEF FromSettings
  <2>2. /\ \A g : g \in DOMAIN fields <=> g \in DOMAIN ConfigDefaults \/ g \in DOMAIN given
        /\ \A g \in DOMAIN given : fields[g] = given[g]
    BY MergeFacts
  <2>3. /\ DOMAIN ConfigDefaults = ConfigFields \ {"api_key"}
        /\ "error" \notin ConfigFields
    BY DEF ConfigDefaults, ConfigFields
  <2>4. DOMAIN given \subseteq ConfigFields
    BY <1>6 DEF IsMapping
  <2>5. "error" \notin DOMAIN fields
    BY <2>2, <2>3, <2>4
  <2> HIDE DEF given, fields
  <2>6. \/ PSIPConfig(given) = Failure("ValidationError")
        \/ /\ "api_key" \in DOMAIN fields /\ fields.api_key.is = "none"
        \/ PSIPConfig(given) = [fields EXCEPT !.base_url = NormalizeBaseUrl(@)]
    BY Zenon DEF PSIPConfig, fields
  <2>7. CASE PSIPConfig(given) = Failure("ValidationError")
    BY <1>4, <2>1, <2>7 DEF AsImproperlyConfigured
  <2>8. CASE "api_key" \in DOMAIN fields /\ fields.api_key.is = "none"
    <3>1. "api_key" \in DOMAIN given
      BY <2>2, <2>3, <2>8
    <3>2. given["api_key"].is = "none"
      BY <2>2, <2>8, <3>1
    <3> QED
      BY <1>3, <1>6, <3>1, <3>2 DEF given
  <2>9. CASE PSIPConfig(given) = [fields EXCEPT !.base_url = NormalizeBaseUrl(@)]
    <3>1. DOMAIN PSIPConfig(given) = DOMAIN fields
      BY <2>9
    <3>2. "error" \in DOMAIN Failure("ValidationError")
      BY DEF Failure
    <3>3. client.outcome = PSIPConfig(given)
      BY <2>1, <2>5, <3>1, <3>2 DEF AsImproperlyConfigured
    <3> QED
      BY <2>5, <3>1, <3>3
  <2> QED
    BY <2>6, <2>7, <2>8, <2>9
<1> QED
  BY <1>5, <1>6, ConfigurationAssumption

(* A configuration is what was set last, or refused, in Django with one    *)
(* error, for all mappings of the fields.                                  *)
THEOREM ConfiguredAlways == Spec => []ConfiguredAsAsked
<1>1. Init => ConfiguredFrom
  BY DEF Init, ConfiguredFrom
<1>2. ConfiguredFrom /\ [Next]_vars => ConfiguredFrom'
  BY ConfiguredKeeps
<1>3. ConfiguredFrom => ConfiguredAsAsked
  BY AcceptedHolds, RefusedHolds DEF ConfiguredAsAsked
<1> QED
  BY <1>1, <1>2, <1>3, PTL DEF Spec
-----------------------------------------------------------------------------
(* Bodies that are built from again.                                       *)

(* A model whose defaults it would take itself and leave as they are.      *)
Fixed(spec, v) == Validates(spec, v) /\ Normalise(spec, v) = v

FieldSound(spec) ==
    /\ spec.type # "none" /\ spec.lower \in BOOLEAN
    /\ spec.default \in {NoDefault, None} \/ Fixed(spec, spec.default)

ModelSound(fields) ==
    /\ "refused" \notin DOMAIN fields
    /\ \A f \in DOMAIN fields : FieldSound(fields[f])
    /\ "items" \in DOMAIN fields =>
          /\ fields["items"].type = "items"
          /\ fields["items"].default \in {NoDefault, None}

LEMMA NoneIsNone == None.type = "none" /\ None # NoDefault
BY DEF None, NoDefault

(* What was normalised is taken again and stays the same.                  *)
LEMMA NormalisedIsFixed ==
    ASSUME NEW spec, FieldSound(spec), NEW v, IsValue(v), Validates(spec, v)
    PROVE  Fixed(spec, Normalise(spec, v))
<1>1. CASE v.type = "text"
  <2> DEFINE n == Normalise(spec, v)
  <2>1. v \in Texts /\ spec.lower \in BOOLEAN
    BY <1>1 DEF IsValue, FieldSound
  <2>2. /\ n \in Texts
        /\ n.is = v.is /\ n.size = v.size
        /\ n.upper = (~spec.lower /\ v.upper)
        /\ ~n.padded
    BY <2>1, NormalisedText
  <2>3. n.type = "text"
    BY <2>2, TextFields
  <2>4. Validates(spec, n)
    <3>1. v # None
      BY <1>1, NoneIsNone
    <3>2. Measure(v) = v.size /\ Measure(n) = n.size
      BY <1>1, <2>3 DEF Measure
    <3> HIDE DEF n
    <3> QED
      BY <1>1, <2>2, <2>3, <3>1, <3>2 DEF Validates
  <2> HIDE DEF n
  <2>5. Normalise(spec, n) = n
    <3>1. /\ Normalise(spec, n) \in Texts
          /\ Normalise(spec, n).is = n.is /\ Normalise(spec, n).size = n.size
          /\ Normalise(spec, n).upper = (~spec.lower /\ n.upper)
          /\ ~Normalise(spec, n).padded
      BY <2>1, <2>2, NormalisedText
    <3>2. n.upper \in BOOLEAN /\ v.upper \in BOOLEAN
      BY <2>1, <2>2, TextFields
    <3>3. (~spec.lower /\ n.upper) = n.upper
      BY <2>2
    <3>4. Normalise(spec, n).upper = n.upper
      BY <3>1, <3>3
    <3> QED
      BY <2>2, <3>1, <3>4, TextEqual
  <2> QED
    BY <2>4, <2>5 DEF Fixed, n
<1>2. CASE v.type # "text"
  BY <1>2, NotText DEF Fixed
<1> QED
  BY <1>1, <1>2

(* So is what a model is filled with, and only what may be left out is     *)
(* None.                                                                   *)
LEMMA FilledIsFixed ==
    ASSUME NEW fields, ModelSound(fields), NEW args,
           \A f \in DOMAIN args : IsValue(args[f]),
           Fill(fields, args) # Refused, NEW f \in DOMAIN fields
    PROVE  /\ Fixed(fields[f], Fill(fields, args)[f])
           /\ Fill(fields, args)[f] = None => fields[f].default = None
<1> DEFINE v == Fill(fields, args)[f]
<1>1. FieldSound(fields[f])
  BY DEF ModelSound
<1>2. Fixed(fields[f], v)
  <2>1. CASE f \in DOMAIN args
    BY <1>1, <2>1, FillFacts, NormalisedIsFixed
  <2>2. CASE f \notin DOMAIN args /\ fields[f].default = None
    <3>1. v = None
      BY <2>2, FillFacts
    <3>2. Normalise(fields[f], None) = None
      BY NoneIsNone, NotText
    <3> HIDE DEF v
    <3> QED
      BY <2>2, <3>1, <3>2 DEF Fixed, Validates
  <2>3. CASE f \notin DOMAIN args /\ fields[f].default # None
    <3>1. v = fields[f].default /\ fields[f].default # NoDefault
      BY <2>3, FillFacts
    <3> QED
      BY <1>1, <2>3, <3>1 DEF FieldSound
  <2> QED
    BY <2>1, <2>2, <2>3
<1> HIDE DEF v
<1>3. ASSUME v = None PROVE fields[f].default = None
  BY <1>1, <1>2, <1>3, NoneIsNone DEF Fixed, Validates, FieldSound
<1> QED
  BY <1>2, <1>3 DEF v

(* A model is filled with the same from what it was filled with, whether   *)
(* what is None was left out or not.                                       *)
LEMMA Refilled ==
    ASSUME NEW fields, ModelSound(fields), NEW filled, NEW body,
           filled = [f \in DOMAIN fields |-> filled[f]],
           \A f \in DOMAIN fields :
              /\ Fixed(fields[f], filled[f])
              /\ filled[f] = None => fields[f].default = None
              /\ f \in DOMAIN body => body[f] = filled[f]
              /\ f \notin DOMAIN body => filled[f] = None
    PROVE  Fill(fields, body) = filled /\ filled # Refused
<1>1. \A f \in DOMAIN fields :
         IF f \in DOMAIN body THEN Validates(fields[f], body[f])
         ELSE fields[f].default # NoDefault
  BY NoneIsNone DEF Fixed
<1>2. Fill(fields, body) =
         [f \in DOMAIN fields |->
             IF f \in DOMAIN body THEN Normalise(fields[f], body[f])
             ELSE fields[f].default]
  BY <1>1, Zenon DEF Fill
<1>3. \A f \in DOMAIN fields :
         (IF f \in DOMAIN body THEN Normalise(fields[f], body[f])
          ELSE fields[f].default) = filled[f]
  BY DEF Fixed
<1>4. Fill(fields, body) = filled
  BY <1>2, <1>3
<1>5. filled # Refused
  <2>1. DOMAIN filled = DOMAIN fields
    OBVIOUS
  <2>2. "refused" \in DOMAIN Refused
    BY DEF Refused
  <2> QED
    BY <2>1, <2>2 DEF ModelSound
<1> QED
  BY <1>4, <1>5

-----------------------------------------------------------------------------
(* The lines of `items'.                                                   *)

LEMMA SparseBody ==
    ASSUME NEW fields, NEW filled, DOMAIN filled = DOMAIN fields
    PROVE  LET body == ExcludeNone(filled)
           IN  \A f \in DOMAIN fields :
                  /\ f \in DOMAIN body => body[f] = filled[f]
                  /\ f \notin DOMAIN body => filled[f] = None
BY DEF ExcludeNone, Given

(* The constructors of fields.                                             *)
LEMMA PlainFields ==
    ASSUME NEW type, type # "none", NEW least, NEW most,
           NEW default \in {NoDefault, None}
    PROVE  /\ FieldSound(Field(type, least, most, default))
           /\ Field(type, least, most, default).type = type
           /\ Field(type, least, most, default).default = default
BY DEF FieldSound, Field

LEMMA FlagValues ==
    ASSUME NEW b
    PROVE  FieldSound(Default(Flag(b)))
<1> DEFINE v == Flag(b)
<1>1. v.type = "flag" /\ v # None
  BY DEF Flag, None
<1>2. Measure(v) = 0
  BY <1>1 DEF Measure
<1>3. /\ Default(v).type = "flag" /\ Default(v).lower = FALSE
      /\ Default(v).default = v /\ Default(v).least = 0
      /\ Default(v).most = Unbounded
  BY <1>1 DEF Default, Field
<1>4. 0 <= Unbounded
  BY DEF Unbounded
<1> HIDE DEF v
<1>5. Validates(Default(v), v)
  BY <1>1, <1>2, <1>3, <1>4 DEF Validates
<1>6. Normalise(Default(v), v) = v
  BY <1>1, NotText
<1> QED
  BY <1>3, <1>5, <1>6 DEF FieldSound, Fixed, v

LEMMA OnAndOff == FieldSound(On) /\ FieldSound(Off)
<1>1. FieldSound(Default(Flag(TRUE)))
  BY FlagValues, Zenon
<1>2. FieldSound(Default(Flag(FALSE)))
  BY FlagValues, Zenon
<1> QED
  BY <1>1, <1>2, Zenon DEF On, Off

LEMMA ChoiceValues ==
    ASSUME NEW is
    PROVE  FieldSound(Choice(is))
<1> DEFINE v == Other("choice", is, TRUE)
<1>1. v.type = "choice" /\ v.valid = TRUE /\ v # None
  BY DEF Other, None
<1>2. Measure(v) = 0
  BY <1>1 DEF Measure
<1>3. /\ Default(v).type = "choice" /\ Default(v).lower = FALSE
      /\ Default(v).default = v /\ Default(v).least = 0
      /\ Default(v).most = Unbounded
  BY <1>1 DEF Default, Field
<1>4. 0 <= Unbounded
  BY DEF Unbounded
<1> HIDE DEF v
<1>5. Validates(Default(v), v)
  BY <1>1, <1>2, <1>3, <1>4 DEF Validates
<1>6. Normalise(Default(v), v) = v
  BY <1>1, NotText
<1> QED
  BY <1>3, <1>5, <1>6 DEF FieldSound, Fixed, v, Choice

LEMMA CountValues == FieldSound(Count)
<1> DEFINE v == Number(1)
<1> DEFINE spec == Field("number", 1, Unbounded, v)
<1>1. v.type = "number" /\ v.is = 1 /\ v # None
  BY DEF Number, None
<1>2. Measure(v) = 1
  BY <1>1 DEF Measure
<1>3. /\ spec.type = "number" /\ spec.lower = FALSE /\ spec.default = v
      /\ spec.least = 1 /\ spec.most = Unbounded /\ spec.step = 1
  BY DEF Field
<1>4. 1 <= Unbounded /\ 1 % 1 = 0
  BY DEF Unbounded
<1> HIDE DEF v, spec
<1>5. Validates(spec, v)
  BY <1>1, <1>2, <1>3, <1>4 DEF Validates
<1>6. Normalise(spec, v) = v
  BY <1>1, NotText
<1> QED
  BY <1>3, <1>5, <1>6 DEF FieldSound, Fixed, v, spec, Count

LEMMA CurrencyValues == FieldSound(Currency)
<1>1. /\ Currency.type = "text" /\ Currency.least = 2 /\ Currency.most = 10
      /\ Currency.lower
  BY DEF Currency, Field
<1>7. Currency.lower \in BOOLEAN
  BY DEF Currency, Field
<1>2. Currency.default = Usd
  BY TextSpecs
<1>3. Usd.type = "text" /\ Usd # None
  BY UsdText, TextFields, NoneIsNone
<1>4. Measure(Usd) = 3
  BY <1>3, UsdText DEF Measure
<1>5. Validates(Currency, Usd)
  BY <1>1, <1>3, <1>4 DEF Validates
<1>6. Normalise(Currency, Usd) = Usd
  <2>1. /\ Normalise(Currency, Usd) \in Texts
        /\ Normalise(Currency, Usd).is = Usd.is
        /\ Normalise(Currency, Usd).size = Usd.size
        /\ Normalise(Currency, Usd).upper = (~Currency.lower /\ Usd.upper)
        /\ ~Normalise(Currency, Usd).padded
    <3>1. Usd \in Texts
      BY UsdText
    <3> QED
      BY <1>7, <3>1, NormalisedText
  <2>2. Usd.upper \in BOOLEAN /\ ~Usd.upper
    BY UsdText, TextFields
  <2>3. Normalise(Currency, Usd).upper = Usd.upper
    BY <1>1, <2>1, <2>2
  <2> QED
    BY <2>1, <2>3, UsdText, TextEqual
<1> QED
  BY <1>1, <1>2, <1>5, <1>6, <1>7 DEF FieldSound, Fixed

LEMMA AmountValues == FieldSound(Amount) /\ FieldSound(OptionalAmount)
BY DEF FieldSound, Amount, OptionalAmount, Field

LEMMA FieldsSound ==
    /\ \A type : type # "none" =>
          /\ FieldSound(Required(type)) /\ Required(type).type = type
          /\ Required(type).default = NoDefault
          /\ FieldSound(Optional(type)) /\ Optional(type).type = type
          /\ Optional(type).default = None
    /\ \A most : FieldSound(RequiredText(most)) /\ FieldSound(OptionalText(most))
    /\ FieldSound(On) /\ FieldSound(Off)
    /\ \A is : FieldSound(Choice(is))
    /\ FieldSound(Field("text", 1, Unbounded, None))
    /\ FieldSound(Field("text", 1, 2000, None))
    /\ FieldSound(Field("number", 1, Unbounded, None))
    /\ FieldSound(Count)
    /\ FieldSound(Field("list", 1, Unbounded, NoDefault))
    /\ FieldSound(Field("items", 1, Unbounded, NoDefault))
    /\ Field("items", 1, Unbounded, NoDefault).type = "items"
    /\ Field("items", 1, Unbounded, NoDefault).default = NoDefault
    /\ FieldSound(Amount) /\ FieldSound(OptionalAmount) /\ FieldSound(Currency)
BY PlainFields, OnAndOff, ChoiceValues, CountValues, CurrencyValues,
   AmountValues
   DEF Required, Optional, RequiredText, OptionalText
(* Every model is sound.                                                   *)
LEMMA PaymentCreateRequestSound == ModelSound(PaymentCreateRequest)
BY FieldsSound DEF PaymentCreateRequest, ModelSound

LEMMA VerifyRequestSound == ModelSound(VerifyRequest)
BY FieldsSound DEF VerifyRequest, ModelSound

LEMMA CustomerPortalSessionRequestSound == ModelSound(CustomerPortalSessionRequest)
BY FieldsSound DEF CustomerPortalSessionRequest, ModelSound

LEMMA RepaymentRequestSound == ModelSound(RepaymentRequest)
BY FieldsSound DEF RepaymentRequest, ModelSound

LEMMA RefundRequestSound == ModelSound(RefundRequest)
BY FieldsSound DEF RefundRequest, ModelSound

LEMMA PaymentIntentCreateRequestSound == ModelSound(PaymentIntentCreateRequest)
BY FieldsSound DEF PaymentIntentCreateRequest, ModelSound

LEMMA PaymentIntentConfirmRequestSound == ModelSound(PaymentIntentConfirmRequest)
BY FieldsSound DEF PaymentIntentConfirmRequest, ModelSound

LEMMA PaymentIntentCaptureRequestSound == ModelSound(PaymentIntentCaptureRequest)
BY FieldsSound DEF PaymentIntentCaptureRequest, ModelSound

LEMMA PaymentIntentCancelRequestSound == ModelSound(PaymentIntentCancelRequest)
BY FieldsSound DEF PaymentIntentCancelRequest, ModelSound

LEMMA CustomerUpdateRequestSound == ModelSound(CustomerUpdateRequest)
BY FieldsSound DEF CustomerUpdateRequest, ModelSound

LEMMA SetupIntentCreateRequestSound == ModelSound(SetupIntentCreateRequest)
BY FieldsSound DEF SetupIntentCreateRequest, ModelSound

LEMMA SetupIntentConfirmRequestSound == ModelSound(SetupIntentConfirmRequest)
BY FieldsSound DEF SetupIntentConfirmRequest, ModelSound

LEMMA SubscriptionCreateRequestSound == ModelSound(SubscriptionCreateRequest)
BY FieldsSound DEF SubscriptionCreateRequest, ModelSound

LEMMA SubscriptionUpdateRequestSound == ModelSound(SubscriptionUpdateRequest)
BY FieldsSound DEF SubscriptionUpdateRequest, ModelSound

LEMMA SubscriptionCancelRequestSound == ModelSound(SubscriptionCancelRequest)
BY FieldsSound DEF SubscriptionCancelRequest, ModelSound

LEMMA ProductCreateRequestSound == ModelSound(ProductCreateRequest)
BY FieldsSound DEF ProductCreateRequest, ModelSound

LEMMA ProductUpdateRequestSound == ModelSound(ProductUpdateRequest)
BY FieldsSound DEF ProductUpdateRequest, ModelSound

LEMMA PriceCreateRequestSound == ModelSound(PriceCreateRequest)
BY FieldsSound DEF PriceCreateRequest, ModelSound

LEMMA WebhookEndpointCreateRequestSound == ModelSound(WebhookEndpointCreateRequest)
BY FieldsSound DEF WebhookEndpointCreateRequest, ModelSound

LEMMA WebhookEndpointUpdateRequestSound == ModelSound(WebhookEndpointUpdateRequest)
BY FieldsSound DEF WebhookEndpointUpdateRequest, ModelSound

LEMMA SubscriptionItemInputSound == ModelSound(SubscriptionItemInput)
BY FieldsSound DEF SubscriptionItemInput, ModelSound


(* A line of `items' is built again from what is left of it.               *)
LEMMA LineRebuilt ==
    ASSUME NEW args, \A f \in DOMAIN args : IsValue(args[f]),
           BuildItem(args) # Refused
    PROVE  BuildItem(ExcludeNone(BuildItem(args))) = BuildItem(args)
<1> DEFINE line == Fill(SubscriptionItemInput, args)
<1> DEFINE body == ExcludeNone(line)
<1>1. BuildItem(args) = line /\ line # Refused /\ IdOrPrice(line)
  BY DEF BuildItem
<1>2. line = [f \in DOMAIN SubscriptionItemInput |-> line[f]]
  BY <1>1 DEF Fill
<1>3. \A f \in DOMAIN SubscriptionItemInput :
         /\ Fixed(SubscriptionItemInput[f], line[f])
         /\ line[f] = None => SubscriptionItemInput[f].default = None
  BY <1>1, SubscriptionItemInputSound, FilledIsFixed
<1> HIDE DEF line
<1>4. \A f \in DOMAIN SubscriptionItemInput :
         /\ f \in DOMAIN body => body[f] = line[f]
         /\ f \notin DOMAIN body => line[f] = None
  <2>1. DOMAIN line = DOMAIN SubscriptionItemInput
    BY <1>2
  <2> QED
    BY <2>1, SparseBody
<1> HIDE DEF body
<1>5. Fill(SubscriptionItemInput, body) = line
  BY <1>2, <1>3, <1>4, SubscriptionItemInputSound, Refilled
<1>6. BuildItem(body) = line
  BY <1>1, <1>5 DEF BuildItem
<1> QED
  BY <1>1, <1>6 DEF body

(* What a model is built from: values, and items only if it has them.      *)
ArgsSound(fields, args) ==
    /\ DOMAIN args \subseteq DOMAIN fields
    /\ \A f \in DOMAIN args : IsValue(args[f]) /\ IsItems(args[f])

(* Without items, what is built is what is filled.                         *)
LEMMA BuiltPlain ==
    ASSUME NEW fields, NEW args, Fill(fields, args) # Refused,
           "items" \in DOMAIN args => args["items"].type # "items",
           "items" \in DOMAIN Fill(fields, args) =>
               Fill(fields, args)["items"] = None
    PROVE  Build(fields, args) = Fill(fields, args)
<1>1. ItemsOf(args) = <<>>
  BY DEF ItemsOf
<1>2. \A i \in DOMAIN ItemsOf(args) : FALSE
  BY <1>1
<1> QED
  BY <1>2 DEF Build

(* With items, each of them is built, too.                                 *)
WithItems(request, items) ==
    [f \in DOMAIN request |->
        IF f = "items" THEN List("items", items) ELSE request[f]]

Built(lines) == [i \in DOMAIN lines |-> BuildItem(lines[i])]

LEMMA ItemsPut ==
    ASSUME NEW request, request = [f \in DOMAIN request |-> request[f]],
           "items" \in DOMAIN request, NEW before,
           request["items"] = List("items", before), NEW items
    PROVE  [request EXCEPT !.items.is = items] = WithItems(request, items)
<1>1. [request["items"] EXCEPT !.is = items] = List("items", items)
  BY DEF List
<1>2. [request EXCEPT !.items.is = items] =
        [f \in DOMAIN request |->
            IF f = "items" THEN [request["items"] EXCEPT !.is = items]
            ELSE request[f]]
  OBVIOUS
<1> QED
  BY <1>1, <1>2, Zenon DEF WithItems

LEMMA BuiltItems ==
    ASSUME NEW fields, NEW args, Fill(fields, args) # Refused,
           "items" \in DOMAIN args, NEW lines,
           args["items"] = List("items", lines),
           "items" \in DOMAIN Fill(fields, args),
           Fill(fields, args)["items"] = args["items"]
    PROVE  IF \E i \in DOMAIN lines : BuildItem(lines[i]) = Refused
           THEN Build(fields, args) = Refused
           ELSE Build(fields, args) =
                   WithItems(Fill(fields, args), Built(lines))
<1> DEFINE filled == Fill(fields, args)
<1>1. ItemsOf(args) = lines
  BY DEF ItemsOf, List
<1>2. filled["items"] # None
  BY DEF List, None
<1>3. filled = [f \in DOMAIN filled |-> filled[f]]
  BY DEF Fill
<1>4. [filled EXCEPT !.items.is = Built(lines)] =
        WithItems(filled, Built(lines))
  BY <1>3, ItemsPut
<1> HIDE DEF filled
<1>5. Build(fields, args) =
         IF filled = Refused \/ \E i \in DOMAIN Built(lines) : Built(lines)[i] = Refused
         THEN Refused
         ELSE IF "items" \in DOMAIN filled /\ filled["items"] # None
              THEN [filled EXCEPT !.items.is = Built(lines)]
              ELSE filled
  BY <1>1, Zenon DEF Build, Built, filled
<1>6. /\ DOMAIN Built(lines) = DOMAIN lines
      /\ \A i \in DOMAIN lines : Built(lines)[i] = BuildItem(lines[i])
  BY DEF Built
<1>7. filled # Refused /\ "items" \in DOMAIN filled
  BY DEF filled
<1> QED
  BY <1>2, <1>4, <1>5, <1>6, <1>7, Zenon DEF filled

(* The body of a request: what is None is left out, or there are no items. *)
SentAs(fields, request, body) ==
    \/ body = DumpSparse(request)
    \/ body = DumpFull(request) /\ "items" \notin DOMAIN fields

(* A request without items is built again from its body.                   *)
LEMMA PlainRebuilt ==
    ASSUME NEW fields, ModelSound(fields), NEW filled, NEW body,
           filled = [f \in DOMAIN fields |-> filled[f]],
           \A f \in DOMAIN fields :
              /\ Fixed(fields[f], filled[f])
              /\ filled[f] = None => fields[f].default = None,
           "items" \in DOMAIN fields => filled["items"] = None,
           SentAs(fields, filled, body)
    PROVE  Build(fields, body) = filled
<1>1. DOMAIN filled = DOMAIN fields
  OBVIOUS
<1>2. /\ \A f \in DOMAIN fields :
            /\ f \in DOMAIN body => body[f] = filled[f]
            /\ f \notin DOMAIN body => filled[f] = None
      /\ "items" \notin DOMAIN body
  <2>1. CASE body = DumpSparse(filled)
    <3>1. "items" \notin Given(filled)
      BY <1>1 DEF Given
    <3>2. "items" \notin DOMAIN ExcludeNone(filled)
      BY <3>1 DEF ExcludeNone
    <3>3. body = ExcludeNone(filled)
      BY <2>1, <3>2 DEF DumpSparse
    <3> QED
      BY <1>1, <3>2, <3>3, SparseBody
  <2>2. CASE body = DumpFull(filled) /\ "items" \notin DOMAIN fields
    BY <1>1, <2>2 DEF DumpFull
  <2> QED
    BY <2>1, <2>2 DEF SentAs
<1>3. Fill(fields, body) = filled /\ filled # Refused
  BY <1>2, Refilled
<1> QED
  BY <1>1, <1>2, <1>3, BuiltPlain

(* A request with items is built again from its body, item by item.        *)
LEMMA ItemsRebuilt ==
    ASSUME NEW fields, ModelSound(fields), NEW filled, NEW lines,
           filled = [f \in DOMAIN fields |-> filled[f]],
           \A f \in DOMAIN fields :
              /\ Fixed(fields[f], filled[f])
              /\ filled[f] = None => fields[f].default = None,
           "items" \in DOMAIN fields, filled["items"] = List("items", lines),
           Len(lines) \in Nat, DOMAIN lines = 1..Len(lines),
           \A i \in DOMAIN lines :
              /\ BuildItem(lines[i]) # Refused
              /\ \A f \in DOMAIN lines[i] : IsValue(lines[i][f])
    PROVE  LET request == WithItems(filled, Built(lines))
           IN  Build(fields, DumpSparse(request)) = request
<1> DEFINE request == WithItems(filled, Built(lines))
<1> DEFINE short == [i \in DOMAIN lines |-> ExcludeNone(BuildItem(lines[i]))]
<1> DEFINE body == WithItems(ExcludeNone(request), short)
<1> DEFINE again == WithItems(filled, short)
<1>1. \A is : List("items", is) # None /\ List("items", is).type = "items"
              /\ List("items", is).is = is
  BY DEF List, None
<1>2. /\ DOMAIN request = DOMAIN fields
      /\ request["items"] = List("items", Built(lines))
      /\ \A f \in DOMAIN fields : f # "items" => request[f] = filled[f]
  BY DEF WithItems
<1>3. /\ DOMAIN again = DOMAIN fields
      /\ again["items"] = List("items", short)
      /\ \A f \in DOMAIN fields : f # "items" => again[f] = filled[f]
      /\ again = [f \in DOMAIN fields |-> again[f]]
  BY DEF WithItems
<1>4. /\ DOMAIN Built(lines) = DOMAIN lines
      /\ \A i \in DOMAIN lines : Built(lines)[i] = BuildItem(lines[i])
  BY DEF Built
<1>5. DumpSparse(request) = body
  <2> DEFINE given == ExcludeNone(request)
  <2>1. "items" \in DOMAIN given /\ given["items"] = List("items", Built(lines))
    BY <1>1, <1>2 DEF ExcludeNone, Given
  <2>2. given = [f \in DOMAIN given |-> given[f]]
    BY DEF ExcludeNone
  <2>3. [i \in DOMAIN given.items.is |-> ExcludeNone(given.items.is[i])] = short
    <3>1. given.items.is = Built(lines)
      BY <1>1, <2>1
    <3> HIDE DEF given
    <3> QED
      BY <1>4, <3>1
  <2> HIDE DEF given, short
  <2>4. [given EXCEPT !.items.is = short] = WithItems(given, short)
    BY <2>1, <2>2, ItemsPut
  <2>5. DumpSparse(request) =
          IF "items" \in DOMAIN given
          THEN [given EXCEPT !.items.is =
                   [i \in DOMAIN given.items.is |->
                       ExcludeNone(given.items.is[i])]]
          ELSE given
    BY DEF DumpSparse, given
  <2>6. DumpSparse(request) = [given EXCEPT !.items.is = short]
    BY <2>1, <2>3, <2>5
  <2> QED
    BY <2>4, <2>6 DEF given
<1>6. /\ \A f \in DOMAIN fields :
            /\ f \in DOMAIN body => body[f] = again[f]
            /\ f \notin DOMAIN body => again[f] = None
      /\ "items" \in DOMAIN body /\ body["items"] = List("items", short)
  <2>1. \A f \in DOMAIN fields :
           /\ f \in DOMAIN ExcludeNone(request) =>
                 ExcludeNone(request)[f] = request[f]
           /\ f \notin DOMAIN ExcludeNone(request) => request[f] = None
    BY <1>2, SparseBody
  <2> HIDE DEF request, again, short
  <2>2. "items" \in DOMAIN ExcludeNone(request)
    BY <1>1, <1>2, <2>1
  <2>3. /\ DOMAIN body = DOMAIN ExcludeNone(request)
        /\ body["items"] = List("items", short)
        /\ \A f \in DOMAIN body : f # "items" => body[f] = ExcludeNone(request)[f]
    BY <2>2 DEF WithItems
  <2> HIDE DEF body
  <2> QED
    BY <1>2, <1>3, <2>1, <2>2, <2>3
<1>7. Fixed(fields["items"], List("items", short))
  <2> DEFINE v == List("items", lines)
  <2> DEFINE w == List("items", short)
  <2>1. DOMAIN short = 1..Len(lines)
    OBVIOUS
  <2>2. Len(short) = Len(lines)
    BY <2>1
  <2> HIDE DEF short
  <2>3. /\ v.type = "items" /\ v.is = lines /\ v # None
        /\ w.type = "items" /\ w.is = short
    BY <1>1
  <2> HIDE DEF v, w
  <2>4. Measure(v) = Len(lines) /\ Measure(w) = Len(short)
    BY <2>3 DEF Measure
  <2>5. Validates(fields["items"], v)
    BY DEF Fixed, v
  <2>6. Validates(fields["items"], w)
    BY <2>2, <2>3, <2>4, <2>5 DEF Validates
  <2>7. Normalise(fields["items"], w) = w
    BY <2>3, NotText
  <2> QED
    BY <2>6, <2>7 DEF Fixed, w
<1>8. \A f \in DOMAIN fields :
         /\ Fixed(fields[f], again[f])
         /\ again[f] = None => fields[f].default = None
  <2> HIDE DEF again
  <2> QED
    BY <1>1, <1>3, <1>7
<1>9. Built(short) = Built(lines)
  <2>1. \A i \in DOMAIN lines : BuildItem(short[i]) = BuildItem(lines[i])
    BY LineRebuilt
  <2>2. DOMAIN short = DOMAIN lines
    OBVIOUS
  <2> HIDE DEF short
  <2> QED
    BY <2>1, <2>2 DEF Built
<1>10. \A i \in DOMAIN short : BuildItem(short[i]) # Refused
  BY LineRebuilt
<1> HIDE DEF body, short
<1>11. Fill(fields, body) = again /\ again # Refused
  <2> HIDE DEF again
  <2> QED
    BY <1>3, <1>6, <1>8, Refilled
<1>12. Build(fields, body) = WithItems(again, Built(short))
  <2> HIDE DEF again
  <2> QED
    BY <1>3, <1>6, <1>10, <1>11, BuiltItems
<1>13. WithItems(again, Built(short)) = request
  BY <1>9 DEF WithItems
<1> QED
  BY <1>5, <1>12, <1>13

(* Any request of a sound model is built again from its body.              *)
LEMMA AllRebuilt ==
    ASSUME NEW fields, ModelSound(fields), NEW args, ArgsSound(fields, args),
           Build(fields, args) # Refused,
           NEW body, SentAs(fields, Build(fields, args), body)
    PROVE  Build(fields, body) = Build(fields, args)
<1> DEFINE filled == Fill(fields, args)
<1>1. filled # Refused
  BY Zenon DEF Build
<1>2. filled = [f \in DOMAIN fields |-> filled[f]]
  BY <1>1 DEF Fill
<1>3. \A f \in DOMAIN fields :
         /\ Fixed(fields[f], filled[f])
         /\ filled[f] = None => fields[f].default = None
  BY <1>1, FilledIsFixed DEF ArgsSound
<1>4. "items" \in DOMAIN args =>
         /\ "items" \in DOMAIN fields
         /\ Validates(fields["items"], args["items"])
         /\ filled["items"] = Normalise(fields["items"], args["items"])
  BY <1>1, FillFacts DEF ArgsSound
<1>5. CASE "items" \in DOMAIN args /\ args["items"].type = "items"
  <2> DEFINE lines == args["items"].is
  <2>1. /\ args["items"] = List("items", lines)
        /\ Len(lines) \in Nat /\ DOMAIN lines = 1..Len(lines)
        /\ \A i \in DOMAIN lines :
              \A f \in DOMAIN lines[i] : IsValue(lines[i][f])
    BY <1>5 DEF ArgsSound, IsItems
  <2>2. filled["items"] = args["items"]
    BY <1>4, <1>5, NotText
  <2>3. IF \E i \in DOMAIN lines : BuildItem(lines[i]) = Refused
        THEN Build(fields, args) = Refused
        ELSE Build(fields, args) = WithItems(filled, Built(lines))
    <3>1. "items" \in DOMAIN filled
      BY <1>2, <1>4, <1>5
    <3> HIDE DEF lines
    <3> QED
      BY <1>1, <1>5, <2>1, <2>2, <3>1, BuiltItems
  <2>4. /\ \A i \in DOMAIN lines : BuildItem(lines[i]) # Refused
        /\ Build(fields, args) = WithItems(filled, Built(lines))
    BY <2>3
  <2> HIDE DEF lines, filled
  <2>5. body = DumpSparse(Build(fields, args))
    BY <1>4, <1>5 DEF SentAs
  <2> QED
    BY <1>2, <1>3, <1>4, <1>5, <2>1, <2>2, <2>4, <2>5, ItemsRebuilt
<1>6. CASE "items" \in DOMAIN args => args["items"].type # "items"
  <2>1. "items" \in DOMAIN fields => filled["items"] = None
    <3>1. ASSUME "items" \in DOMAIN fields, "items" \in DOMAIN args
          PROVE  filled["items"] = None
      <4>1. fields["items"].type = "items"
        BY <3>1 DEF ModelSound
      <4>2. args["items"] = None
        BY <1>4, <1>6, <3>1, <4>1 DEF Validates
      <4> QED
        BY <1>4, <3>1, <4>2, NoneIsNone, NotText
    <3>2. ASSUME "items" \in DOMAIN fields, "items" \notin DOMAIN args
          PROVE  filled["items"] = None
      BY <1>1, <3>2, FillFacts DEF ModelSound
    <3> QED
      BY <3>1, <3>2
  <2>2. DOMAIN filled = DOMAIN fields
    BY <1>2
  <2>3. Build(fields, args) = filled
    BY <1>1, <1>6, <2>1, <2>2, BuiltPlain
  <2> HIDE DEF filled
  <2> QED
    BY <1>2, <1>3, <2>1, <2>3, PlainRebuilt
<1> QED
  BY <1>5, <1>6

(* What is submitted is a request of a sound model.                        *)
LEMMA CustomerCreateRequestSound == ModelSound(CustomerCreateRequest)
<1>1. /\ DOMAIN CustomerCreateRequest =
            DOMAIN CustomerUpdateRequest \cup {"sandbox"}
      /\ CustomerCreateRequest["sandbox"] = On
      /\ \A f \in DOMAIN CustomerUpdateRequest :
            f # "sandbox" =>
                CustomerCreateRequest[f] = CustomerUpdateRequest[f]
  BY DEF CustomerCreateRequest, With
<1>2. "items" \notin DOMAIN CustomerUpdateRequest
  BY DEF CustomerUpdateRequest
<1> QED
  BY <1>1, <1>2, CustomerUpdateRequestSound, FieldsSound DEF ModelSound

LEMMA FullModels ==
    /\ "items" \notin DOMAIN PaymentCreateRequest
    /\ "items" \notin DOMAIN VerifyRequest
    /\ "items" \notin DOMAIN CustomerPortalSessionRequest
BY DEF PaymentCreateRequest, VerifyRequest, CustomerPortalSessionRequest

LEMMA ModelsSound ==
    ASSUME NEW model \in Models
    PROVE  /\ ModelSound(model.fields)
           /\ model.dump = "full" => "items" \notin DOMAIN model.fields
<1>1. \A m, d : Sends(m, d).fields = m /\ Sends(m, d).dump = d
  BY DEF Sends
<1>2. CASE \E m \in {PaymentCreateRequest, VerifyRequest,
                     CustomerPortalSessionRequest} : model = Sends(m, "full")
  BY <1>1, <1>2, FullModels, PaymentCreateRequestSound, VerifyRequestSound,
     CustomerPortalSessionRequestSound
<1>3. CASE \E m \in {RepaymentRequest, RefundRequest,
         PaymentIntentCreateRequest,
         PaymentIntentConfirmRequest, PaymentIntentCaptureRequest,
         PaymentIntentCancelRequest, CustomerCreateRequest,
         CustomerUpdateRequest, SetupIntentCreateRequest,
         SetupIntentConfirmRequest, SubscriptionCreateRequest,
         SubscriptionUpdateRequest, SubscriptionCancelRequest,
         ProductCreateRequest, ProductUpdateRequest, PriceCreateRequest,
         WebhookEndpointCreateRequest, WebhookEndpointUpdateRequest} :
           model = Sends(m, "sparse")
  <2>1. model.dump # "full"
    BY <1>1, <1>3
  <2>2. ModelSound(model.fields)
    BY <1>1, <1>3, RepaymentRequestSound, RefundRequestSound,
       PaymentIntentCreateRequestSound, PaymentIntentConfirmRequestSound,
       PaymentIntentCaptureRequestSound, PaymentIntentCancelRequestSound,
       CustomerCreateRequestSound, CustomerUpdateRequestSound,
       SetupIntentCreateRequestSound, SetupIntentConfirmRequestSound,
       SubscriptionCreateRequestSound, SubscriptionUpdateRequestSound,
       SubscriptionCancelRequestSound, ProductCreateRequestSound,
       ProductUpdateRequestSound, PriceCreateRequestSound,
       WebhookEndpointCreateRequestSound, WebhookEndpointUpdateRequestSound
  <2> QED
    BY <2>1, <2>2
<1> QED
  BY <1>2, <1>3, Zenon DEF Models

LEMMA NoneIsValue == IsValue(None) /\ IsItems(None)
BY NoneIsNone DEF IsValue, IsItems

LEMMA TrialSound ==
    ASSUME NEW model \in Models,
           NEW f \in DOMAIN model.fields, NEW v \in ValuesOf(model.fields[f]),
           NEW g \in DOMAIN model.fields, NEW w \in ValuesOf(model.fields[g])
    PROVE  ArgsSound(model.fields, Trial(model.fields, f, v, g, w))
<1> DEFINE fields == model.fields
<1> DEFINE two == [h \in {f, g} |-> IF h = f THEN v ELSE w]
<1> DEFINE args == Merge(Sound(fields), two)
<1>1. \A h \in DOMAIN fields : \A x \in ValuesOf(fields[h]) :
         IsValue(x) /\ IsItems(x)
  BY SamplesAssumption, NoneIsValue DEF ValuesOf
<1>2. \A h \in DOMAIN Sound(fields) :
         h \in DOMAIN fields /\ Sound(fields)[h] \in ValuesOf(fields[h])
  BY SamplesAssumption DEF Sound, ValuesOf
<1>3. /\ DOMAIN two = {f, g}
      /\ \A h \in {f, g} : two[h] \in ValuesOf(fields[h])
  OBVIOUS
<1> HIDE DEF two
<1>4. \A h \in DOMAIN args :
         h \in DOMAIN fields /\ args[h] \in ValuesOf(fields[h])
  BY <1>2, <1>3, MergeFacts
<1>5. ArgsSound(fields, args)
  BY <1>1, <1>4 DEF ArgsSound
<1> QED
  BY <1>5 DEF Trial, two

(* A body on its way is that of a request that was built.                  *)
SubmittedFrom ==
    last.call = "submit" =>
        /\ last.model \in Models
        /\ \E args :
              /\ ArgsSound(last.model.fields, args)
              /\ Build(last.model.fields, args) # Refused
              /\ last.body = Body(last.model, Build(last.model.fields, args))

LEMMA SubmitSends == ASSUME Submit PROVE SubmittedFrom'
<1> DEFINE Sent(model, args) ==
        /\ Build(model.fields, args) # Refused
        /\ last' = [call |-> "submit", model |-> model,
                    body |-> Body(model, Build(model.fields, args))]
<1>1. ASSUME NEW model \in Models, NEW args, ArgsSound(model.fields, args),
             Sent(model, args)
      PROVE  SubmittedFrom'
  <2>1. /\ last'.model = model
        /\ last'.body = Body(model, Build(model.fields, args))
    BY <1>1
  <2> QED
    BY <1>1, <2>1 DEF SubmittedFrom
<1>2. \E model \in Models : \E f, g \in DOMAIN model.fields :
         \E v \in ValuesOf(model.fields[f]), w \in ValuesOf(model.fields[g]) :
            Sent(model, Trial(model.fields, f, v, g, w))
  BY Zenon DEF Submit
<1> HIDE DEF Sent
<1> QED
  BY <1>1, <1>2, TrialSound

LEMMA SubmittedKeeps ==
    ASSUME SubmittedFrom, [Next]_vars
    PROVE  SubmittedFrom'
<1>1. CASE Submit
  BY <1>1, SubmitSends
<1>2. CASE UNCHANGED last
  BY <1>2, Zenon DEF SubmittedFrom
<1>3. ASSUME last'.call # "submit" PROVE SubmittedFrom'
  BY <1>3 DEF SubmittedFrom
<1>4. CASE Return
  <2>1. last' = NoCall
    BY <1>4, Zenon DEF Return
  <2>2. NoCall.call # "submit"
    BY DEF NoCall
  <2> QED
    BY <1>3, <2>1, <2>2
<1>5. ASSUME NEW args, Verify(args) PROVE SubmittedFrom'
  <2>1. last'.call = "verify"
    BY <1>5 DEF Verify
  <2> QED
    BY <1>3, <2>1
<1>6. ASSUME NEW args, Create(args) \/ Recreate(args) PROVE UNCHANGED last
  BY <1>6, Zenon DEF Create, Recreate
<1>7. ASSUME NEW key, Pay(key) PROVE UNCHANGED last
  BY <1>7, Zenon DEF Pay
<1>8. ASSUME NEW key, NEW args, Refund(key, args) PROVE UNCHANGED last
  BY <1>8, Zenon DEF Refund
<1>9. ConfigureFromEnv \/ ConfigureFromSettings \/ Connect \/ UNCHANGED vars
        => UNCHANGED last
  BY Zenon DEF ConfigureFromEnv, ConfigureFromSettings, Connect, vars
<1> QED
  BY <1>1, <1>2, <1>4, <1>5, <1>6, <1>7, <1>8, <1>9, Zenon DEF Next

LEMMA SubmittedRebuilt == ASSUME SubmittedFrom PROVE SameWhenRebuilt
<1> SUFFICES ASSUME last.call = "submit"
             PROVE  LET again == Build(last.model.fields, last.body)
                    IN  /\ again # Refused
                        /\ Body(last.model, again) = last.body
  BY DEF SameWhenRebuilt
<1> DEFINE fields == last.model.fields
<1>1. PICK args :
        /\ ArgsSound(fields, args)
        /\ Build(fields, args) # Refused
        /\ last.body = Body(last.model, Build(fields, args))
  BY DEF SubmittedFrom
<1>2. /\ ModelSound(fields)
      /\ last.model.dump = "full" => "items" \notin DOMAIN fields
  BY ModelsSound DEF SubmittedFrom
<1>3. SentAs(fields, Build(fields, args), last.body)
  BY <1>1, <1>2, Zenon DEF SentAs, Body
<1>4. Build(fields, last.body) = Build(fields, args)
  BY <1>1, <1>2, <1>3, AllRebuilt
<1> QED
  BY <1>1, <1>4

(* Every body that is sent is a request of its own, whatever values the    *)
(* fields of whichever model were given.                                   *)
THEOREM RebuiltAlways == Spec => []SameWhenRebuilt
<1>1. Init => SubmittedFrom
  <2>1. NoCall.call # "submit"
    BY DEF NoCall
  <2> QED
    BY <2>1 DEF Init, SubmittedFrom
<1>2. SubmittedFrom /\ [Next]_vars => SubmittedFrom'
  BY SubmittedKeeps
<1> QED
  BY <1>1, <1>2, SubmittedRebuilt, PTL DEF Spec
=============================================================================

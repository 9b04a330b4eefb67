------------------------------ MODULE Resources ------------------------------
(***************************************************************************)
(* The resource classes (resources/): each method validates its arguments, *)
(* makes one request() and validates the data that comes back.             *)
(*                                                                         *)
(* request() is RemoteOperation, which Transport implements: the effect of *)
(* a call may come at any time after it was made, also after it failed.    *)
(* No resource method passes an idempotency_key on, so that every call is  *)
(* an operation of its own.  Several calls work on ONE object of the       *)
(* gateway, of which only its optional fields matter: what `None' and the  *)
(* empty string among the arguments lead to is what the methods differ in. *)
(***************************************************************************)
EXTENDS Integers

CONSTANTS
    Calls,     \* the calls of resource methods
    Method,    \* the method each of them calls
    Flags,     \* the optional boolean arguments, and fields of the object
    Defaulted, \* those of them that are False if not given, where a method
               \* has such a default
    Texts,     \* the optional string ones
    Names      \* the strings, besides the empty one

(* A method: its HTTP method, what it works on, which optional arguments   *)
(* it sends, and whether it builds a pydantic model of them first and of   *)
(* the answer.                                                             *)
(*   "sparse"  all but None, as model_dump(exclude_none=True) leaves them; *)
(*   "default" the same, of a model with defaults other than None;         *)
(*   "full"    None as well, as null;                                      *)
(*   "truthy"  a query with booleans that are not None and non-empty       *)
(*             strings.                                                    *)
Row(http, on, sends, validates, parses) ==
    [http |-> http, on |-> on, sends |-> sends,
     validates |-> validates, parses |-> parses]

Create(sends) == Row("POST", "new", sends, TRUE, TRUE)
Update == Row("POST", "object", "sparse", TRUE, TRUE)
Cancel == Row("POST", "object", "default", TRUE, TRUE)
Act(on) == Row("POST", on, "nothing", FALSE, TRUE)
Retrieve == Row("GET", "object", "nothing", FALSE, TRUE)
List == Row("GET", "all", "truthy", FALSE, TRUE)
Upcoming == Row("GET", "all", "sparse", FALSE, TRUE)
Delete == Row("DELETE", "object", "nothing", FALSE, FALSE)

Payments ==
    [create |-> Create("full"), recreate |-> Create("sparse"),
     verify_session |-> Act("object"), refund |-> Create("sparse")]

Verify == [call |-> Row("POST", "object", "nothing", TRUE, TRUE)]

Transactions ==
    [list |-> Row("GET", "all", "sparse", TRUE, TRUE), get |-> Retrieve]

Customers ==
    [create |-> Create("sparse"), retrieve |-> Retrieve, update |-> Update,
     delete |-> Delete, list |-> List, list_payment_methods |-> Retrieve,
     create_portal_session |-> Create("full")]

PaymentIntents ==
    [create |-> Create("sparse"), retrieve |-> Retrieve, confirm |-> Update,
     capture |-> Update, cancel |-> Update, list |-> List]

SetupIntents ==
    [create |-> Create("sparse"), retrieve |-> Retrieve, confirm |-> Update,
     cancel |-> Act("object"), list |-> List]

PaymentMethods == [detach |-> Act("object")]

Subscriptions ==
    [create |-> Create("sparse"), retrieve |-> Retrieve, update |-> Update,
     cancel |-> Cancel, resume |-> Act("object"), list |-> List]

Invoices ==
    [retrieve |-> Retrieve, list |-> List, upcoming |-> Upcoming,
     pay |-> Act("object"), void |-> Act("object")]

Products ==
    [create |-> Create("sparse"), retrieve |-> Retrieve, update |-> Update,
     list |-> List]

Prices ==
    [create |-> Create("sparse"), retrieve |-> Retrieve,
     deactivate |-> Delete, list |-> List]

WebhookEndpoints ==
    [create |-> Create("sparse"), retrieve |-> Retrieve, update |-> Update,
     delete |-> Delete, rotate_secret |-> Act("object"), list |-> List]

MethodsOf(resource) == {resource[m] : m \in DOMAIN resource}

Methods ==
    MethodsOf(Payments) \cup MethodsOf(Verify) \cup MethodsOf(Transactions)
    \cup MethodsOf(Customers) \cup MethodsOf(PaymentIntents)
    \cup MethodsOf(SetupIntents) \cup MethodsOf(PaymentMethods)
    \cup MethodsOf(Subscriptions) \cup MethodsOf(Invoices)
    \cup MethodsOf(Products) \cup MethodsOf(Prices)
    \cup MethodsOf(WebhookEndpoints)

Fields == Flags \cup Texts

FlagValues == {"true", "false"}
TextValues == Names \cup {""}

ASSUME ResourcesAssumption ==
    /\ Method \in [Calls -> Methods]
    /\ Flags \cap Texts = {} /\ Defaulted \subseteq Flags
    /\ {"", "None", "null", "True", "False"} \cap Names = {}

Writes == {c \in Calls : Method[c].http # "GET"}

VARIABLES
    result,    \* of request(), as in RemoteOperation
    effects,   \* of each call, as in RemoteOperation
    args,      \* the optional arguments of each call
    object,    \* the gateway's object
    served,    \* a GET was served, and may be again
    seen,      \* what was found then
    answer     \* what the resource method returned or raised

vars == <<result, effects, args, object, served, seen, answer>>

Remote == INSTANCE RemoteOperation
    WITH Operations <- Calls, OperationOf <- [c \in Calls |-> c]

Arguments ==
    {a \in [Fields -> {"None", "True", "False"} \cup TextValues] :
        \A f \in Fields : a[f] \in {"None"} \cup
            (IF f \in Flags THEN {"True", "False"} ELSE TextValues)}

NoArguments == [f \in Fields |-> "None"]

Objects == [Fields -> FlagValues \cup TextValues \cup {"null"}]

Answers == {"none", "value", "ValidationError", "request error", "mismatch"}

TypeOK ==
    /\ result \in [Calls -> {"none", "pending", "data", "error"}]
    /\ effects \in [Calls -> 0..1]
    /\ args \in [Calls -> Arguments]
    /\ object \in Objects
    /\ served \in [Calls -> BOOLEAN]
    /\ seen \in [Calls -> SUBSET Objects]
    /\ answer \in [Calls -> Answers]

Init ==
    /\ Remote!Init
    /\ args = [c \in Calls |-> NoArguments]
    /\ object = [f \in Fields |-> IF f \in Flags THEN "false" ELSE ""]
    /\ served = [c \in Calls |-> FALSE]
    /\ seen = [c \in Calls |-> {}]
    /\ answer = [c \in Calls |-> "none"]
-----------------------------------------------------------------------------
(* What a call sends.                                                      *)

Given(c) == {f \in Fields : args[c][f] # "None"}

Truthy(c) == {f \in Given(c) : f \in Flags \/ args[c][f] # ""}

(* What a call sets a field to: a flag with a default has one in any case. *)
Value(c, f) ==
    IF f \notin Given(c) /\ f \in Defaulted /\ Method[c].sends = "default"
    THEN "False" ELSE args[c][f]

(* Mutated forms: model_dump() as it is, whatever the method; a flag left  *)
(* out when it is False.                                                   *)
SentAlwaysFull(c) ==
    CASE Method[c].sends = "truthy" -> Truthy(c)
      [] Method[c].sends = "nothing" -> {}
      [] Method[c].sends = "default" -> Given(c) \cup Defaulted
      [] OTHER -> Fields

SentIfTrue(c) ==
    CASE Method[c].sends = "sparse" -> Given(c)
      [] Method[c].sends = "default" -> Given(c) \cup Defaulted
      [] Method[c].sends = "full" -> Fields
      [] Method[c].sends = "truthy" -> {f \in Truthy(c) : args[c][f] # "False"}
      [] OTHER -> {}

Sent(c) ==
    CASE Method[c].sends = "sparse" -> Given(c)
      [] Method[c].sends = "default" -> Given(c) \cup Defaulted
      [] Method[c].sends = "full" -> Fields
      [] Method[c].sends = "truthy" -> Truthy(c)
      [] OTHER -> {}

(* A Python argument in JSON or in a query.  Mutated form: str() of a flag, *)
(* as it is without the lower().                                           *)
WireStr(v) == IF v = "None" THEN "null" ELSE v

Wire(v) ==
    CASE v = "True" -> "true"
      [] v = "False" -> "false"
      [] v = "None" -> "null"
      [] OTHER -> v

(* Mutated form: the request is validated when it is already out.          *)
InvokeAndValidate(c) ==
    /\ result[c] = "none" /\ answer[c] = "none"
    /\ \E a \in Arguments : args' = [args EXCEPT ![c] = a]
    /\ Remote!Call(c)
    /\ \/ UNCHANGED answer
       \/ /\ Method[c].validates
          /\ answer' = [answer EXCEPT ![c] = "ValidationError"]
    /\ UNCHANGED <<object, served, seen>>

(* A method is called: arguments its request model refuses raise pydantic's *)
(* ValidationError, any others go to request().                            *)
Invoke(c) ==
    /\ result[c] = "none" /\ answer[c] = "none"
    /\ \E a \in Arguments : args' = [args EXCEPT ![c] = a]
    /\ \/ Remote!Call(c) /\ UNCHANGED answer
       \/ /\ Method[c].validates
          /\ answer' = [answer EXCEPT ![c] = "ValidationError"]
          /\ UNCHANGED <<result, effects>>
    /\ UNCHANGED <<object, served, seen>>
-----------------------------------------------------------------------------
(* request() and the gateway behind it.                                    *)

(* A write is carried out: the fields it sent are set, others are kept.    *)
Effect(c) ==
    /\ Remote!TakeEffect(c)
    /\ object' = IF Method[c].on # "object" THEN object
                 ELSE [f \in Fields |-> IF f \in Sent(c) THEN Wire(Value(c, f))
                                                         ELSE object[f]]
    /\ UNCHANGED <<args, served, seen, answer>>

Matches(c) ==
    Method[c].on = "all" => \A f \in Sent(c) : object[f] = Wire(args[c][f])

(* A read is served, perhaps more than once.                               *)
Lookup(c) ==
    /\ c \notin Writes /\ result[c] = "pending"
    /\ served' = [served EXCEPT ![c] = TRUE]
    /\ seen' = [seen EXCEPT ![c] = IF Matches(c) THEN {object} ELSE {}]
    /\ UNCHANGED <<result, effects, args, object, answer>>

Request(c) ==
    /\ \/ Remote!Return(c) /\ (c \in Writes \/ served[c])
       \/ Remote!Raise(c)
    /\ UNCHANGED <<args, object, served, seen, answer>>

(* _parse_response, where there is a model to parse into: data of another  *)
(* shape is a PSIPProtocolError, after the fact.  Mutated form: whatever   *)
(* goes wrong is one.                                                      *)
OutcomesIfAllWrapped(c) ==
    IF result[c] = "error" THEN {"mismatch"}
    ELSE {"value"} \cup (IF Method[c].parses THEN {"mismatch"} ELSE {})

Outcomes(c) ==
    IF result[c] = "error" THEN {"request error"}
    ELSE {"value"} \cup (IF Method[c].parses THEN {"mismatch"} ELSE {})

Answer(c) ==
    /\ result[c] \in {"data", "error"} /\ answer[c] = "none"
    /\ \E o \in Outcomes(c) : answer' = [answer EXCEPT ![c] = o]
    /\ UNCHANGED <<result, effects, args, object, served, seen>>

Next ==
    \E c \in Calls :
        Invoke(c) \/ Effect(c) \/ Lookup(c) \/ Request(c) \/ Answer(c)

Spec == Init /\ [][Next]_vars
-----------------------------------------------------------------------------
(* Properties.                                                             *)

(* The fields a call is about: those it was given, and those that calling  *)
(* subscriptions.cancel decides without being given them.                  *)
Asked(c) ==
    Given(c) \cup (IF Method[c] = Subscriptions.cancel THEN Defaulted ELSE {})

(* An update leaves alone what it was not asked to change, so that calls   *)
(* about different fields of one object do not undo each other, in         *)
(* whatever order and however late they are carried out.  The one method   *)
(* that changes what it was not given is subscriptions.cancel: it sends    *)
(* its two flags always, and takes back an earlier True.                   *)
NoLostUpdate ==
    \A c \in Writes : \A f \in Asked(c) :
        /\ effects[c] = 1 /\ Method[c].on = "object" /\ f \in Sent(c)
        /\ \A d \in Writes \ {c} : effects[d] = 1 => f \notin Asked(d)
        => object[f] = Wire(Value(c, f))

(* A ValidationError comes before anything is sent, now or later: the      *)
(* caller may correct the arguments and call again.                        *)
RefusedUnsent ==
    \A c \in Calls : answer[c] = "ValidationError" =>
        result[c] = "none" /\ effects[c] = 0

(* A write that returns, and one whose answer does not fit its model, has  *)
(* been carried out: to call again is to do it again.                      *)
ProtocolErrorMeansDone ==
    \A c \in Writes : answer[c] \in {"value", "mismatch"} => effects[c] = 1

(* What a listing finds agrees with every filter asked for -- False is one *)
(* of them -- but for empty strings, which do not filter.                  *)
ListedMatch ==
    \A c \in Calls : Method[c].on = "all" =>
        \A found \in seen[c], f \in Given(c) :
            args[c][f] # "" => found[f] = Wire(args[c][f])
=============================================================================

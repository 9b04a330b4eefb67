--------------------------- MODULE ResourcesProofs ---------------------------
(***************************************************************************)
(* What holds of Resources for any calls of any of the methods.            *)
(***************************************************************************)
EXTENDS Resources, TLAPS

(* The one fact about the tables the proofs need: what works on an object  *)
(* sends no null, and no default unless it is subscriptions.cancel; what   *)
(* lists sends every flag and non-empty string.                            *)
Careful(m) ==
    /\ m.on = "object" => m.sends \in {"sparse", "nothing", "default"}
    /\ m.sends = "default" => m = Subscriptions.cancel
    /\ m.on = "all" => m.sends \in {"sparse", "truthy"}

(* Arithmetic, kept apart from the steps about sets and functions.         *)
LEMMA OneEffect == 1 \in 0..1
OBVIOUS

LEMMA ZeroEffects == 0 # 1 /\ [c \in Calls |-> 0] \in [Calls -> 0..1]
OBVIOUS

LEMMA MethodsAreCareful == \A m \in Methods : Careful(m)
<1> USE DEF MethodsOf, Row, Create, Update, Act, Retrieve, List, Delete, Careful
<1>0. Subscriptions.cancel = Cancel
  BY DEF Subscriptions
<1>1. \A m \in MethodsOf(Payments) \cup MethodsOf(Verify) : Careful(m)
  BY DEF Payments, Verify
<1>2. \A m \in MethodsOf(Transactions) \cup MethodsOf(Customers) : Careful(m)
  BY DEF Transactions, Customers
<1>3. \A m \in MethodsOf(PaymentIntents) \cup MethodsOf(SetupIntents)
               \cup MethodsOf(PaymentMethods) : Careful(m)
  BY DEF PaymentIntents, SetupIntents, PaymentMethods
<1>4. \A m \in MethodsOf(Subscriptions) \cup MethodsOf(Invoices) : Careful(m)
  BY <1>0 DEF Subscriptions, Invoices, Cancel, Upcoming
<1>5. \A m \in MethodsOf(Products) \cup MethodsOf(Prices)
               \cup MethodsOf(WebhookEndpoints) : Careful(m)
  BY DEF Products, Prices, WebhookEndpoints
<1> HIDE DEF Careful, MethodsOf
<1> QED
  BY <1>1, <1>2, <1>3, <1>4, <1>5 DEF Methods

(* What a call sends comes from its arguments, unless it sends null too.   *)
LEMMA SentTypes ==
    ASSUME TypeOK, NEW c \in Calls
    PROVE  /\ Given(c) \subseteq Fields /\ Sent(c) \subseteq Fields
           /\ Asked(c) \subseteq Fields
           /\ Method[c].on = "object" => Sent(c) \subseteq Asked(c)
           /\ Method[c].on = "all" => Truthy(c) \subseteq Sent(c)
<1>1. Careful(Method[c])
  BY MethodsAreCareful, ResourcesAssumption
<1> QED
  BY <1>1, ResourcesAssumption DEF Careful, Given, Truthy, Sent, Asked, Fields

LEMMA WireTypes ==
    ASSUME NEW a \in Arguments, NEW f \in Fields
    PROVE  Wire(a[f]) \in FlagValues \cup TextValues \cup {"null"}
BY DEF Arguments, Wire, FlagValues, TextValues

LEMMA ValueTypes ==
    ASSUME TypeOK, NEW c \in Calls, NEW f \in Fields
    PROVE  Wire(Value(c, f)) \in FlagValues \cup TextValues \cup {"null"}
<1>1. args[c] \in Arguments
  BY DEF TypeOK
<1>2. Wire("False") \in FlagValues
  BY DEF Wire, FlagValues
<1> QED
  BY <1>1, <1>2, WireTypes DEF Value

(* How the progress of a call, its effect and its answer hang together.    *)
ControlInv ==
    \A c \in Calls :
        /\ result[c] = "none" => effects[c] = 0 /\ seen[c] = {}
        /\ answer[c] = "ValidationError" => result[c] = "none"
        /\ answer[c] \in {"value", "mismatch"} => result[c] = "data"
        /\ c \in Writes /\ result[c] = "data" => effects[c] = 1

ResInv == TypeOK /\ ControlInv /\ NoLostUpdate /\ ListedMatch

LEMMA TypeStep == ASSUME TypeOK, [Next]_vars PROVE TypeOK'
<1> USE DEF TypeOK, Answers
<1>1. ASSUME NEW c \in Calls, Invoke(c) PROVE TypeOK'
  <2>1. PICK a \in Arguments : args' = [args EXCEPT ![c] = a]
    BY <1>1 DEF Invoke
  <2>2. args' \in [Calls -> Arguments]
    BY <2>1
  <2> QED
    BY <1>1, <2>2 DEF Invoke, Remote!Call
<1>2. ASSUME NEW c \in Calls, Effect(c) PROVE TypeOK'
  <2>1. \A f \in Fields : /\ Wire(Value(c, f)) \in FlagValues \cup TextValues \cup {"null"}
                          /\ object[f] \in FlagValues \cup TextValues \cup {"null"}
    BY ValueTypes DEF Objects
  <2>2. object' \in Objects
    BY <1>2, <2>1 DEF Effect, Objects
  <2>3. effects' \in [Calls -> 0..1]
    <3>1. effects' = [effects EXCEPT ![c] = 1]
      BY <1>2 DEF Effect, Remote!TakeEffect
    <3> QED
      BY <3>1, OneEffect
  <2> QED
    BY <1>2, <2>2, <2>3 DEF Effect, Remote!TakeEffect
<1>3. ASSUME NEW c \in Calls, Lookup(c) PROVE TypeOK'
  BY <1>3 DEF Lookup
<1>4. ASSUME NEW c \in Calls, Request(c) PROVE TypeOK'
  BY <1>4 DEF Request, Remote!Return, Remote!Raise
<1>5. ASSUME NEW c \in Calls, Answer(c) PROVE TypeOK'
  BY <1>5 DEF Answer, Outcomes
<1>6. CASE UNCHANGED vars
  BY <1>6 DEF vars
<1> QED
  BY <1>1, <1>2, <1>3, <1>4, <1>5, <1>6 DEF Next

LEMMA ControlStep ==
    ASSUME TypeOK, ControlInv, [Next]_vars PROVE ControlInv'
<1> USE DEF TypeOK, ControlInv
<1>1. ASSUME NEW c \in Calls, Invoke(c) PROVE ControlInv'
  BY <1>1 DEF Invoke, Remote!Call, Writes
<1>2. ASSUME NEW c \in Calls, Effect(c) PROVE ControlInv'
  BY <1>2 DEF Effect, Remote!TakeEffect
<1>3. ASSUME NEW c \in Calls, Lookup(c) PROVE ControlInv'
  BY <1>3 DEF Lookup
<1>4. ASSUME NEW c \in Calls, Request(c) PROVE ControlInv'
  BY <1>4 DEF Request, Remote!Return, Remote!Raise
<1>5. ASSUME NEW c \in Calls, Answer(c) PROVE ControlInv'
  BY <1>5 DEF Answer, Outcomes
<1>6. CASE UNCHANGED vars
  BY <1>6 DEF vars, Writes
<1> QED
  BY <1>1, <1>2, <1>3, <1>4, <1>5, <1>6 DEF Next

(* What a call sends depends on its own arguments only.                    *)
LEMMA SentFrame ==
    ASSUME NEW c, args'[c] = args[c]
    PROVE  /\ Given(c)' = Given(c) /\ Asked(c)' = Asked(c)
           /\ Sent(c)' = Sent(c)
           /\ \A f : Value(c, f)' = Value(c, f)
<1>1. Given(c)' = Given(c) /\ Truthy(c)' = Truthy(c)
  BY DEF Given, Truthy
<1> QED
  BY <1>1 DEF Asked, Sent, Value

(* A call that has no effect yet may still be given its arguments; one     *)
(* that takes effect later leaves alone what it was not asked.             *)
LEMMA UpdateStep ==
    ASSUME TypeOK, ControlInv, NoLostUpdate, [Next]_vars PROVE NoLostUpdate'
<1> SUFFICES ASSUME NEW c \in Writes, NEW f \in Asked(c)',
                    effects'[c] = 1, Method[c].on = "object", f \in Sent(c)',
                    \A d \in Writes \ {c} : effects'[d] = 1 => f \notin Asked(d)'
             PROVE  object'[f] = Wire(Value(c, f)')
  BY DEF NoLostUpdate, Writes
<1>1. ASSUME NEW e \in Calls, Invoke(e) PROVE object'[f] = Wire(Value(c, f)')
  <2>1. effects' = effects /\ object' = object /\ effects[e] = 0
    BY <1>1 DEF Invoke, Remote!Call, ControlInv
  <2>2. \A d \in Calls : effects[d] = 1 => args'[d] = args[d]
    BY <1>1, <2>1 DEF Invoke, TypeOK
  <2>3. \A d \in Calls : effects[d] = 1 =>
            /\ Asked(d)' = Asked(d) /\ Sent(d)' = Sent(d)
            /\ Value(d, f)' = Value(d, f)
    BY <2>2, SentFrame
  <2>4. c \in Calls /\ Writes \subseteq Calls
    BY DEF Writes
  <2>5. object[f] = Wire(Value(c, f))
    BY <2>1, <2>3, <2>4 DEF NoLostUpdate
  <2> QED
    BY <2>1, <2>3, <2>4, <2>5
<1>2. ASSUME NEW e \in Calls, Effect(e) PROVE object'[f] = Wire(Value(c, f)')
  <2>1. /\ args' = args /\ e \in Writes
        /\ effects' = [effects EXCEPT ![e] = 1]
    BY <1>2 DEF Effect, Remote!TakeEffect
  <2>2. \A d : /\ Asked(d)' = Asked(d) /\ Sent(d)' = Sent(d)
              /\ Value(d, f)' = Value(d, f)
    BY <2>1, SentFrame
  <2>3. c \in Calls /\ f \in Fields
    BY <2>2, SentTypes DEF Writes
  <2>4. CASE c = e
    BY <1>2, <2>1, <2>2, <2>3, <2>4 DEF Effect
  <2>5. CASE c # e
    <3>1. effects'[e] = 1 /\ effects'[c] = effects[c]
      BY <2>1, <2>3, <2>5 DEF TypeOK
    <3>2. f \notin Asked(e)
      BY <2>1, <2>2, <2>5, <3>1
    <3>3. object'[f] = object[f]
      BY <1>2, <2>3, <3>2, SentTypes DEF Effect
    <3>4. \A d \in Writes \ {c} : effects[d] = 1 => f \notin Asked(d)
      BY <2>1, <2>2 DEF TypeOK, Writes
    <3> QED
      BY <2>1, <2>2, <3>1, <3>3, <3>4 DEF NoLostUpdate
  <2> QED
    BY <2>4, <2>5
<1>3. CASE UNCHANGED <<effects, args, object>>
  <2>1. \A d : /\ Asked(d)' = Asked(d) /\ Sent(d)' = Sent(d)
              /\ Value(d, f)' = Value(d, f)
    BY <1>3, SentFrame
  <2> QED
    BY <1>3, <2>1 DEF NoLostUpdate
<1>4. ASSUME NEW e \in Calls, Lookup(e) \/ Request(e) \/ Answer(e)
      PROVE  UNCHANGED <<effects, args, object>>
  BY <1>4 DEF Lookup, Request, Remote!Return, Remote!Raise, Answer
<1> QED
  BY <1>1, <1>2, <1>3, <1>4 DEF Next, vars

(* A listing sends every filter that is not the empty string.              *)
LEMMA ListStep ==
    ASSUME TypeOK, ControlInv, ListedMatch, [Next]_vars PROVE ListedMatch'
<1> SUFFICES ASSUME NEW c \in Calls, Method[c].on = "all",
                    NEW found \in seen'[c], NEW f \in Given(c)',
                    args'[c][f] # ""
             PROVE  found[f] = Wire(args'[c][f])
  BY DEF ListedMatch
<1>1. ASSUME NEW e \in Calls, Invoke(e) PROVE found[f] = Wire(args'[c][f])
  <2>1. seen' = seen /\ seen[e] = {} /\ c # e
    BY <1>1 DEF Invoke, ControlInv
  <2>2. args'[c] = args[c]
    BY <1>1, <2>1 DEF Invoke, TypeOK
  <2> QED
    BY <2>1, <2>2, SentFrame DEF ListedMatch
<1>2. ASSUME NEW e \in Calls, Lookup(e) PROVE found[f] = Wire(args'[c][f])
  <2>1. args' = args /\ Given(c)' = Given(c)
    BY <1>2, SentFrame DEF Lookup
  <2>2. CASE c = e
    <3>1. found = object /\ Matches(c)
      BY <1>2, <2>2 DEF Lookup, TypeOK
    <3>2. f \in Sent(c)
      BY <2>1, SentTypes DEF Truthy, Given
    <3>3. object[f] = Wire(args[c][f])
      BY <3>1, <3>2 DEF Matches
    <3> QED
      BY <2>1, <3>1, <3>3
  <2>3. CASE c # e
    <3>1. seen'[c] = seen[c]
      BY <1>2, <2>3 DEF Lookup, TypeOK
    <3> QED
      BY <2>1, <3>1 DEF ListedMatch
  <2> QED
    BY <2>2, <2>3
<1>3. CASE UNCHANGED <<args, seen>>
  BY <1>3, SentFrame DEF ListedMatch
<1>4. ASSUME NEW e \in Calls, Effect(e) \/ Request(e) \/ Answer(e)
      PROVE  UNCHANGED <<args, seen>>
  BY <1>4 DEF Effect, Request, Answer
<1> QED
  BY <1>1, <1>2, <1>3, <1>4 DEF Next, vars

LEMMA ResInit == Init => ResInv
<1> SUFFICES ASSUME Init PROVE ResInv
  OBVIOUS
<1> USE DEF Init, Remote!Init
<1>1. NoArguments \in Arguments
  BY DEF NoArguments, Arguments
<1>2. object \in Objects
  BY DEF Objects, FlagValues, TextValues, Fields
<1>3. effects \in [Calls -> 0..1] /\ \A c \in Calls : effects[c] = 0 /\ 0 # 1
  <2>1. effects = [c \in Calls |-> 0]
    OBVIOUS
  <2> QED
    BY <2>1, ZeroEffects
<1>4. TypeOK
  BY <1>1, <1>2, <1>3 DEF TypeOK, Answers
<1>5. ControlInv /\ ListedMatch
  BY <1>3 DEF ControlInv, ListedMatch
<1>6. NoLostUpdate
  BY <1>3 DEF NoLostUpdate, Writes
<1> QED
  BY <1>4, <1>5, <1>6 DEF ResInv

LEMMA ResStep == ResInv /\ [Next]_vars => ResInv'
BY TypeStep, ControlStep, UpdateStep, ListStep DEF ResInv

LEMMA Resource == Spec => []ResInv
BY ResInit, ResStep, PTL DEF Spec

(* The state keeps its types; no Python value reaches the gateway as it is. *)
THEOREM TypeCorrect == Spec => []TypeOK
<1>1. ResInv => TypeOK
  BY DEF ResInv
<1> QED
  BY <1>1, Resource, PTL

(* Calls about different fields do not undo each other, however many there *)
(* are and whatever the order they reach the object in; a cancellation is  *)
(* about its flags whether it was given them or not.                       *)
THEOREM NothingLost == Spec => []NoLostUpdate
<1>1. ResInv => NoLostUpdate
  BY DEF ResInv
<1> QED
  BY <1>1, Resource, PTL

(* A call refused with a ValidationError is never carried out.             *)
THEOREM Unsent == Spec => []RefusedUnsent
<1>1. ResInv => RefusedUnsent
  BY DEF ResInv, ControlInv, RefusedUnsent
<1> QED
  BY <1>1, Resource, PTL

(* A write whose answer could not be parsed has been carried out.          *)
THEOREM MismatchMeansDone == Spec => []ProtocolErrorMeansDone
<1>1. ResInv => ProtocolErrorMeansDone
  BY DEF ResInv, ControlInv, ProtocolErrorMeansDone, Writes
<1> QED
  BY <1>1, Resource, PTL

(* A listing agrees with all its filters that are not the empty string.    *)
THEOREM Listed == Spec => []ListedMatch
<1>1. ResInv => ListedMatch
  BY DEF ResInv
<1> QED
  BY <1>1, Resource, PTL
=============================================================================

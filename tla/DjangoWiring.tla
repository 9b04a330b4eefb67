---------------------------- MODULE DjangoWiring ----------------------------
(***************************************************************************)
(* The default wiring under Django (django/): `get_default_client' and     *)
(* `get_default_dispatcher', built on first access and kept by             *)
(* `functools.cache'; the views that use them unless `as_view' was given a *)
(* client or a dispatcher; the handlers registered on the default          *)
(* dispatcher, in ready() or later; and the validation of settings.PSIP in *)
(* PSIPAppConfig.ready().                                                  *)
(*                                                                         *)
(* functools.cache (external) holds no lock while the function runs: two   *)
(* threads that find the cache empty both build, each returns what it      *)
(* built, and the one to store last is what later callers find.  An        *)
(* exception is not cached.  Django (external) runs the ready() hooks one  *)
(* after the other, does not start if one raises, and then serves requests *)
(* in threads.                                                             *)
(*                                                                         *)
(* A client or a dispatcher built here is named after the thread that      *)
(* built it: a thread builds at most one of each.  A request is taken to   *)
(* its dispatch(), which Dispatcher models, as one step.                   *)
(***************************************************************************)

CONSTANTS
    Registrars,   \* the threads that register a handler (of that name)
    Requests,     \* the threads that serve a webhook request
    Validator,    \* PSIPAppConfig.ready()
    Tenant,       \* the client, and the dispatcher, given to as_view
    None

Threads == Registrars \cup Requests

ASSUME WiringAssumption ==
    /\ Registrars \cap Requests = {}
    /\ Validator \notin Threads
    /\ Tenant \notin Threads
    /\ None \notin Threads \cup {Tenant, Validator}

VARIABLES
    deployment,        \* what the project is configured to be
    cachedClient,      \* of get_default_client, None before it returned
    cachedDispatcher,  \* of get_default_dispatcher
    pc,                \* where each thread is
    client,            \* what get_client() returned
    dispatcher,        \* what get_dispatcher() returned
    verifier,          \* the client each dispatcher was built to verify with
    handlers,          \* the handlers registered on each dispatcher
    outcome,           \* how each thread ended, "none" before it did
    promised,          \* history: registered when the request came in
    ran                \* history: the handlers each request was routed to

caches == <<cachedClient, cachedDispatcher>>
locals == <<client, dispatcher, promised, ran>>
vars == <<deployment, caches, pc, locals, verifier, handlers, outcome>>

Objects == Threads \cup {Tenant}
Processes == Threads \cup {Validator}

(* What as_view was given, if anything.                                    *)
Wirings == {"default", "client", "dispatcher", "both"}

Deployments ==
    [settings : {"valid", "invalid", "absent"},   \* settings.PSIP
     installed : BOOLEAN,                         \* in INSTALLED_APPS
     inReady : SUBSET Registrars,                 \* register in ready()
     wiring : [Requests -> Wirings]]              \* of each request's view

Labels == {"idle", "client", "build client", "dispatcher",
           "dispatcher's client", "build dispatcher's client",
           "build dispatcher", "use", "done"}

TypeOK ==
    /\ deployment \in Deployments
    /\ cachedClient \in Threads \cup {None}
    /\ cachedDispatcher \in Threads \cup {None}
    /\ pc \in [Processes -> Labels]
    /\ client \in [Requests -> Objects \cup {None}]
    /\ dispatcher \in [Threads -> Objects \cup {None}]
    /\ verifier \in [Objects -> Objects \cup {None}]
    /\ handlers \in [Objects -> SUBSET Registrars]
    /\ outcome \in [Processes -> {"none", "validated", "registered", "served",
                                  "ImproperlyConfigured"}]
    /\ promised \in [Requests -> SUBSET Registrars]
    /\ ran \in [Requests -> SUBSET Registrars]

(* The consumer's own dispatcher verifies with the consumer's own client.  *)
Init ==
    /\ deployment \in Deployments
    /\ cachedClient = None /\ cachedDispatcher = None
    /\ pc = [p \in Processes |-> "idle"]
    /\ client = [q \in Requests |-> None]
    /\ dispatcher = [t \in Threads |-> None]
    /\ verifier = [o \in Objects |-> IF o = Tenant THEN Tenant ELSE None]
    /\ handlers = [o \in Objects |-> {}]
    /\ outcome = [p \in Processes |-> "none"]
    /\ promised = [q \in Requests |-> {}]
    /\ ran = [q \in Requests |-> {}]

Goto(p, label) == pc' = [pc EXCEPT ![p] = label] /\ UNCHANGED outcome

End(p, result) ==
    /\ pc' = [pc EXCEPT ![p] = "done"]
    /\ outcome' = [outcome EXCEPT ![p] = result]
-----------------------------------------------------------------------------
(* Start of the process.                                                   *)

Hooks == deployment.inReady \cup (IF deployment.installed THEN {Validator} ELSE {})

Ready(h) == pc[h] = "done" /\ outcome[h] # "ImproperlyConfigured"

(* The ready() hooks come one by one, and everything else after them.      *)
MayStart(p) ==
    /\ pc[p] = "idle"
    /\ IF p \in Hooks THEN \A h \in Hooks : pc[h] = "idle" \/ Ready(h)
       ELSE \A h \in Hooks : Ready(h)

(* Mutated form: the error is logged, and the process starts.              *)
ValidateAndLog ==
    /\ deployment.installed /\ MayStart(Validator)
    /\ End(Validator, "validated")
    /\ UNCHANGED <<deployment, caches, locals, verifier, handlers>>

Validate ==
    /\ deployment.installed /\ MayStart(Validator)
    /\ End(Validator, IF deployment.settings = "invalid"
                      THEN "ImproperlyConfigured" ELSE "validated")
    /\ UNCHANGED <<deployment, caches, locals, verifier, handlers>>
-----------------------------------------------------------------------------
(* get_default_client().                                                   *)

(* post() is called: get_client() comes first.                             *)
Post(q) ==
    /\ MayStart(q)
    /\ promised' = [promised EXCEPT ![q] =
          {r \in Registrars : outcome[r] = "registered"}]
    /\ Goto(q, "client")
    /\ UNCHANGED <<deployment, caches, client, dispatcher, ran, verifier,
                   handlers>>

GetClient(q) ==
    /\ pc[q] = "client"
    /\ LET given == deployment.wiring[q] \in {"client", "both"}
           found == IF given THEN Tenant ELSE cachedClient IN
       /\ client' = [client EXCEPT ![q] = found]
       /\ Goto(q, IF found = None THEN "build client" ELSE "dispatcher")
    /\ UNCHANGED <<deployment, caches, dispatcher, promised, ran, verifier,
                   handlers>>

(* Mutated form: a failure is cached like a client.                        *)
BuildAndCacheFailure(t, label) ==
    IF deployment.settings = "valid"
    THEN cachedClient' = t /\ Goto(t, label)
    ELSE /\ End(t, "ImproperlyConfigured")
         /\ cachedClient' = "ImproperlyConfigured"

(* PaymentServiceClient(psip_config_from_django_settings()) is built, and  *)
(* kept by the cache.                                                      *)
Build(t, label) ==
    IF deployment.settings = "valid"
    THEN cachedClient' = t /\ Goto(t, label)
    ELSE End(t, "ImproperlyConfigured") /\ UNCHANGED cachedClient

BuildClient(q) ==
    /\ pc[q] = "build client"
    /\ Build(q, "dispatcher")
    /\ client' = [client EXCEPT ![q] = cachedClient']
    /\ UNCHANGED <<deployment, cachedDispatcher, dispatcher, promised, ran,
                   verifier, handlers>>
-----------------------------------------------------------------------------
(* get_default_dispatcher().                                               *)

(* A registration begins with it; a request's second look is get_dispatcher. *)
AtDispatcher(t) ==
    \/ t \in Requests /\ pc[t] = "dispatcher"
    \/ t \in Registrars /\ MayStart(t)

DispatcherGiven(t) ==
    t \in Requests /\ deployment.wiring[t] \in {"dispatcher", "both"}

(* Mutated form: get_default_dispatcher without its @cache.                *)
GetDispatcherUncached(t) ==
    /\ AtDispatcher(t)
    /\ LET found == IF DispatcherGiven(t) THEN Tenant ELSE None IN
       /\ dispatcher' = [dispatcher EXCEPT ![t] = found]
       /\ Goto(t, IF found = None THEN "dispatcher's client" ELSE "use")
    /\ UNCHANGED <<deployment, caches, client, promised, ran, verifier, handlers>>

GetDispatcher(t) ==
    /\ AtDispatcher(t)
    /\ LET found == IF DispatcherGiven(t) THEN Tenant ELSE cachedDispatcher IN
       /\ dispatcher' = [dispatcher EXCEPT ![t] = found]
       /\ Goto(t, IF found = None THEN "dispatcher's client" ELSE "use")
    /\ UNCHANGED <<deployment, caches, client, promised, ran, verifier, handlers>>

DispatcherClient(t) ==
    /\ pc[t] = "dispatcher's client"
    /\ verifier' = [verifier EXCEPT ![t] = cachedClient]
    /\ Goto(t, IF cachedClient = None THEN "build dispatcher's client"
                                      ELSE "build dispatcher")
    /\ UNCHANGED <<deployment, caches, locals, handlers>>

(* Mutated form: PaymentServiceClient(...), not get_default_client().      *)
BuildClientOfItsOwn(t) ==
    /\ pc[t] = "build dispatcher's client"
    /\ IF deployment.settings = "valid" THEN Goto(t, "build dispatcher")
       ELSE End(t, "ImproperlyConfigured")
    /\ verifier' = [verifier EXCEPT ![t] = t]
    /\ UNCHANGED <<deployment, caches, locals, handlers>>

BuildDispatcherClient(t) ==
    /\ pc[t] = "build dispatcher's client"
    /\ Build(t, "build dispatcher")
    /\ verifier' = [verifier EXCEPT ![t] = cachedClient']
    /\ UNCHANGED <<deployment, cachedDispatcher, locals, handlers>>

BuildDispatcher(t) ==
    /\ pc[t] = "build dispatcher"
    /\ cachedDispatcher' = t
    /\ dispatcher' = [dispatcher EXCEPT ![t] = t]
    /\ Goto(t, "use")
    /\ UNCHANGED <<deployment, cachedClient, client, promised, ran, verifier,
                   handlers>>
-----------------------------------------------------------------------------
(* What the dispatcher was wanted for.                                     *)

Register(r) ==
    /\ pc[r] = "use"
    /\ handlers' = [handlers EXCEPT ![dispatcher[r]] = @ \cup {r}]
    /\ End(r, "registered")
    /\ UNCHANGED <<deployment, caches, locals, verifier>>

Serve(q) ==
    /\ pc[q] = "use"
    /\ ran' = [ran EXCEPT ![q] = handlers[dispatcher[q]]]
    /\ End(q, "served")
    /\ UNCHANGED <<deployment, caches, client, dispatcher, promised, verifier,
                   handlers>>

Next ==
    \/ Validate
    \/ \E q \in Requests :
          Post(q) \/ GetClient(q) \/ BuildClient(q) \/ Serve(q)
    \/ \E r \in Registrars : Register(r)
    \/ \E t \in Threads :
          \/ GetDispatcher(t) \/ DispatcherClient(t)
          \/ BuildDispatcherClient(t) \/ BuildDispatcher(t)

Spec == Init /\ [][Next]_vars
-----------------------------------------------------------------------------
(* Properties.  Those of the first group hold where at least one handler   *)
(* is registered in ready(), as docs/django.md has it.                     *)

Documented == deployment.inReady # {}

UsesDefault(q) == deployment.wiring[q] \in {"default", "client"}

(* A request runs every handler whose registration was complete when it    *)
(* came in, however the threads that look the dispatcher up interleave.    *)
RegisteredHandlersRun ==
    Documented => \A q \in Requests :
        outcome[q] = "served" /\ UsesDefault(q) => promised[q] \subseteq ran[q]

(* The client that parsed a webhook is the one its dispatcher verifies     *)
(* with, where as_view was given both or neither.                          *)
ParsedAndVerifiedAlike ==
    Documented => \A q \in Requests :
        outcome[q] = "served" /\ deployment.wiring[q] \in {"default", "both"}
        => verifier[dispatcher[q]] = client[q]

(* Once built, the singletons are never replaced.                          *)
CachedForLifetime ==
    [][Documented =>
          /\ cachedClient # None => UNCHANGED cachedClient
          /\ cachedDispatcher # None => UNCHANGED cachedDispatcher]_vars

(* With the app installed, settings.PSIP that is there but wrong is found  *)
(* when the process starts: no request fails for it.                       *)
WrongSettingsFailFast ==
    deployment.installed /\ deployment.settings = "invalid" =>
        \A t \in Threads : t \notin Hooks => pc[t] = "idle"

(* django/client.py:37: "Process-wide WebhookDispatcher", for any two that *)
(* ask for it, whenever they do.                                           *)
ProcessWideDispatcher ==
    \A s, t \in Threads : dispatcher[s] \in Threads /\ dispatcher[t] \in Threads
        => dispatcher[s] = dispatcher[t]
=============================================================================

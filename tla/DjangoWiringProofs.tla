------------------------- MODULE DjangoWiringProofs -------------------------
(***************************************************************************)
(* What holds of DjangoWiring for any number of registrations and of       *)
(* requests.  The argument: ready() hooks run alone, so the first          *)
(* registration in one builds both singletons with nobody in between, and  *)
(* every other thread finds them.                                          *)
(***************************************************************************)
EXTENDS DjangoWiring, TLAPS

(* Who gets to use a dispatcher has one.                                   *)
TypeInv ==
    /\ TypeOK
    /\ \A t \in Threads : pc[t] = "use" => dispatcher[t] # None

Outcomes == {"none", "validated", "registered", "served",
             "ImproperlyConfigured"}

LEMMA BuildTypes ==
    ASSUME TypeInv, NEW t \in Threads, NEW label \in Labels \ {"use"},
           Build(t, label)
    PROVE  /\ cachedClient' \in Threads \cup {None}
           /\ pc' \in [Processes -> Labels]
           /\ outcome' \in [Processes -> Outcomes]
           /\ \A s \in Threads : pc'[s] = "use" => pc[s] = "use"
  BY DEF TypeInv, TypeOK, Build, Goto, End, Processes, Labels, Outcomes

LEMMA BuildClientTypes ==
    ASSUME TypeInv, NEW q \in Requests, BuildClient(q) PROVE TypeInv'
<1>1. Build(q, "dispatcher") /\ client' = [client EXCEPT ![q] = cachedClient']
  BY DEF BuildClient
<1>2. q \in Threads /\ "dispatcher" \in Labels \ {"use"}
  BY DEF Threads, Labels
<1>3. /\ cachedClient' \in Threads \cup {None}
      /\ pc' \in [Processes -> Labels]
      /\ outcome' \in [Processes -> Outcomes]
      /\ \A s \in Threads : pc'[s] = "use" => pc[s] = "use"
  BY <1>1, <1>2, BuildTypes
<1>4. UNCHANGED <<deployment, cachedDispatcher, dispatcher, promised, ran,
                  verifier, handlers>>
  BY DEF BuildClient
<1> QED
  BY <1>1, <1>3, <1>4 DEF TypeInv, TypeOK, Objects, Outcomes

LEMMA BuildDispatcherClientTypes ==
    ASSUME TypeInv, NEW t \in Threads, BuildDispatcherClient(t) PROVE TypeInv'
<1>1. /\ Build(t, "build dispatcher")
      /\ verifier' = [verifier EXCEPT ![t] = cachedClient']
  BY DEF BuildDispatcherClient
<1>2. "build dispatcher" \in Labels \ {"use"}
  BY DEF Labels
<1>3. /\ cachedClient' \in Threads \cup {None}
      /\ pc' \in [Processes -> Labels]
      /\ outcome' \in [Processes -> Outcomes]
      /\ \A s \in Threads : pc'[s] = "use" => pc[s] = "use"
  BY <1>1, <1>2, BuildTypes
<1>4. UNCHANGED <<deployment, cachedDispatcher, locals, handlers>>
  BY DEF BuildDispatcherClient
<1> QED
  BY <1>1, <1>3, <1>4 DEF TypeInv, TypeOK, Objects, Outcomes, locals

LEMMA TypeInductive == ASSUME TypeInv, [Next]_vars PROVE TypeInv'
<1> USE WiringAssumption DEF TypeInv, TypeOK, Labels, Processes, Threads, Objects,
                             Goto, End, caches, locals
<1>1. CASE Validate
  BY <1>1 DEF Validate
<1>2. ASSUME NEW q \in Requests, Post(q) PROVE TypeInv'
  BY <1>2 DEF Post
<1>3. ASSUME NEW q \in Requests, GetClient(q) PROVE TypeInv'
  BY <1>3 DEF GetClient
<1>4. ASSUME NEW q \in Requests, BuildClient(q) PROVE TypeInv'
  BY <1>4, BuildClientTypes
<1>5. ASSUME NEW q \in Requests, Serve(q) PROVE TypeInv'
  <2>1. /\ UNCHANGED <<deployment, caches, client, dispatcher, promised,
                       verifier, handlers>>
        /\ End(q, "served")
        /\ ran' = [ran EXCEPT ![q] = handlers[dispatcher[q]]]
    BY <1>5 DEF Serve
  <2>2. dispatcher[q] \in Objects
    BY <1>5 DEF Serve
  <2>3. handlers[dispatcher[q]] \in SUBSET Registrars
    BY <2>2
  <2>4. ran' \in [Requests -> SUBSET Registrars]
    BY <2>1, <2>3
  <2> QED
    BY <2>1, <2>4
<1>6. ASSUME NEW r \in Registrars, Register(r) PROVE TypeInv'
  <2>1. dispatcher[r] \in Objects
    BY <1>6 DEF Register
  <2>2. handlers' \in [Objects -> SUBSET Registrars]
    <3>1. handlers' = [handlers EXCEPT ![dispatcher[r]] =
                           handlers[dispatcher[r]] \cup {r}]
      BY <1>6 DEF Register
    <3>2. handlers[dispatcher[r]] \cup {r} \in SUBSET Registrars
      BY <2>1
    <3> QED
      BY <3>1, <3>2
  <2>3. UNCHANGED <<deployment, caches, locals, verifier>>
    BY <1>6 DEF Register
  <2>4. End(r, "registered")
    BY <1>6 DEF Register
  <2> QED
    BY <2>2, <2>3, <2>4
<1>7. ASSUME NEW t \in Threads, GetDispatcher(t) PROVE TypeInv'
  BY <1>7 DEF GetDispatcher
<1>8. ASSUME NEW t \in Threads, DispatcherClient(t) PROVE TypeInv'
  BY <1>8 DEF DispatcherClient
<1>9. ASSUME NEW t \in Threads, BuildDispatcherClient(t) PROVE TypeInv'
  BY <1>9, BuildDispatcherClientTypes
<1>10. ASSUME NEW t \in Threads, BuildDispatcher(t) PROVE TypeInv'
  BY <1>10 DEF BuildDispatcher
<1>11. CASE UNCHANGED vars
  BY <1>11 DEF vars
<1> QED
  BY <1>1, <1>2, <1>3, <1>4, <1>5, <1>6, <1>7, <1>8, <1>9, <1>10, <1>11
  DEF Next

LEMMA AlwaysTypeInv == Spec => []TypeInv
<1>1. Init => TypeInv
  <2> SUFFICES ASSUME Init PROVE TypeInv
    OBVIOUS
  <2>1. verifier \in [Objects -> Objects \cup {None}]
    BY DEF Init, Objects
  <2>2. handlers \in [Objects -> SUBSET Registrars]
    BY DEF Init
  <2>3. pc \in [Processes -> Labels]
    BY DEF Init, Labels
  <2>4. \A t \in Threads : pc[t] # "use"
    BY DEF Init, Processes
  <2> QED
    BY <2>1, <2>2, <2>3, <2>4 DEF Init, TypeInv, TypeOK
<1> QED
  BY <1>1, TypeInductive, PTL DEF Spec

(* The state keeps its types, for any number of threads.                   *)
THEOREM TypeCorrect == Spec => []TypeOK
<1>1. TypeInv => TypeOK
  BY DEF TypeInv
<1> QED
  BY <1>1, AlwaysTypeInv, PTL
-----------------------------------------------------------------------------
(* The start of the process: one hook at a time, then everything else.     *)

(* What every step is, as far as the start is concerned: one thread moves. *)
Moves(p) ==
    /\ UNCHANGED deployment
    /\ pc[p] = "idle" => MayStart(p)
    /\ pc[p] # "done" /\ pc'[p] # "idle"
    /\ pc' = [pc EXCEPT ![p] = pc'[p]]
    /\ outcome' = [outcome EXCEPT ![p] = outcome'[p]]
    /\ outcome'[p] = outcome[p] \/ pc'[p] = "done"
    /\ pc'[p] = "done" =>
          outcome'[p] \in IF p \in Registrars
                          THEN {"registered", "ImproperlyConfigured"}
                          ELSE Outcomes \ {"none", "registered"}
    /\ p = Validator /\ deployment.settings = "invalid" =>
          outcome'[p] = "ImproperlyConfigured"

LEMMA GotoMoves ==
    ASSUME TypeInv, NEW t \in Threads, NEW label, label \notin {"idle", "done"},
           Goto(t, label), UNCHANGED deployment,
           pc[t] # "done", pc[t] = "idle" => MayStart(t)
    PROVE  Moves(t)
<1>1. pc'[t] = label /\ pc' = [pc EXCEPT ![t] = label]
  BY DEF Goto, TypeInv, TypeOK, Processes
<1>2. outcome' = outcome /\ outcome = [outcome EXCEPT ![t] = outcome[t]]
  BY DEF Goto, TypeInv, TypeOK
<1>3. t # Validator
  BY WiringAssumption
<1> QED
  BY <1>1, <1>2, <1>3 DEF Moves

LEMMA EndMoves ==
    ASSUME TypeInv, NEW t \in Threads, NEW result, End(t, result),
           result \in IF t \in Registrars
                      THEN {"registered", "ImproperlyConfigured"}
                      ELSE {"served", "ImproperlyConfigured"},
           UNCHANGED deployment, pc[t] \notin {"idle", "done"}
    PROVE  Moves(t)
<1>1. pc'[t] = "done" /\ pc' = [pc EXCEPT ![t] = "done"]
  BY DEF End, TypeInv, TypeOK, Processes
<1>2. outcome'[t] = result /\ outcome' = [outcome EXCEPT ![t] = result]
  BY DEF End, TypeInv, TypeOK, Processes
<1>3. t # Validator
  BY WiringAssumption
<1> QED
  BY <1>1, <1>2, <1>3 DEF Moves, Outcomes

LEMMA BuildMoves ==
    ASSUME TypeInv, NEW t \in Threads, NEW label, label \notin {"idle", "done"},
           Build(t, label), UNCHANGED deployment, pc[t] \notin {"idle", "done"}
    PROVE  Moves(t)
<1>1. CASE deployment.settings = "valid"
  BY <1>1, GotoMoves DEF Build
<1>2. CASE deployment.settings # "valid"
  BY <1>2, EndMoves DEF Build
<1> QED
  BY <1>1, <1>2

LEMMA OneMoves ==
    ASSUME TypeInv, [Next]_vars
    PROVE  \/ UNCHANGED <<deployment, pc, outcome>>
           \/ \E p \in Processes : Moves(p)
<1> USE DEF Threads
<1>1. ASSUME Validate PROVE Moves(Validator)
  <2>1. Validator \in Processes /\ Validator \notin Registrars
    BY WiringAssumption DEF Processes
  <2>2. PICK result \in {"ImproperlyConfigured", "validated"} :
           /\ End(Validator, result)
           /\ deployment.settings = "invalid" => result = "ImproperlyConfigured"
    BY <1>1 DEF Validate
  <2>3. pc'[Validator] = "done" /\ outcome'[Validator] = result
    BY <2>1, <2>2 DEF End, TypeInv, TypeOK
  <2>4. UNCHANGED deployment /\ MayStart(Validator)
    BY <1>1 DEF Validate
  <2>5. /\ pc' = [pc EXCEPT ![Validator] = pc'[Validator]]
        /\ outcome' = [outcome EXCEPT ![Validator] = outcome'[Validator]]
    BY <2>2, <2>3 DEF End
  <2>6. pc[Validator] = "idle"
    BY <2>4 DEF MayStart
  <2>7. result \in Outcomes \ {"none", "registered"}
    BY DEF Outcomes
  <2> QED
    BY <2>1, <2>2, <2>3, <2>4, <2>5, <2>6, <2>7 DEF Moves
<1>2. ASSUME NEW q \in Requests, Post(q) PROVE Moves(q)
  BY <1>2, GotoMoves DEF Post, MayStart
<1>3. ASSUME NEW q \in Requests, GetClient(q) PROVE Moves(q)
  <2>1. PICK label \in {"build client", "dispatcher"} : Goto(q, label)
    BY <1>3 DEF GetClient
  <2> QED
    BY <1>3, <2>1, GotoMoves DEF GetClient
<1>4. ASSUME NEW q \in Requests, BuildClient(q) PROVE Moves(q)
  BY <1>4, BuildMoves DEF BuildClient
<1>5. ASSUME NEW q \in Requests, Serve(q) PROVE Moves(q)
  BY <1>5, EndMoves, WiringAssumption DEF Serve
<1>6. ASSUME NEW r \in Registrars, Register(r) PROVE Moves(r)
  BY <1>6, EndMoves DEF Register
<1>7. ASSUME NEW t \in Threads, GetDispatcher(t) PROVE Moves(t)
  <2>1. PICK label \in {"dispatcher's client", "use"} : Goto(t, label)
    BY <1>7 DEF GetDispatcher
  <2>2. pc[t] # "done" /\ (pc[t] = "idle" => MayStart(t))
    BY <1>7 DEF GetDispatcher, AtDispatcher, MayStart
  <2> QED
    BY <1>7, <2>1, <2>2, GotoMoves DEF GetDispatcher
<1>8. ASSUME NEW t \in Threads, DispatcherClient(t) PROVE Moves(t)
  <2>1. PICK label \in {"build dispatcher's client", "build dispatcher"} :
           Goto(t, label)
    BY <1>8 DEF DispatcherClient
  <2> QED
    BY <1>8, <2>1, GotoMoves DEF DispatcherClient
<1>9. ASSUME NEW t \in Threads, BuildDispatcherClient(t) PROVE Moves(t)
  BY <1>9, BuildMoves DEF BuildDispatcherClient
<1>10. ASSUME NEW t \in Threads, BuildDispatcher(t) PROVE Moves(t)
  BY <1>10, GotoMoves DEF BuildDispatcher
<1>11. CASE UNCHANGED vars
  BY <1>11 DEF vars
<1> QED
  BY <1>1, <1>2, <1>3, <1>4, <1>5, <1>6, <1>7, <1>8, <1>9, <1>10, <1>11
  DEF Next, Processes

HookInv ==
    /\ \A p \in Processes : pc[p] # "done" <=> outcome[p] = "none"
    /\ \A r \in Registrars : outcome[r] \in {"none", "registered",
                                             "ImproperlyConfigured"}
    /\ \A q \in Requests : outcome[q] # "registered"
    /\ deployment.settings = "invalid" =>
          outcome[Validator] \in {"none", "ImproperlyConfigured"}
    /\ \A p \in Processes \ Hooks :
          pc[p] # "idle" => \A h \in Hooks : Ready(h)
    /\ \A g, h \in Hooks :
          g # h => pc[g] = "idle" \/ pc[h] = "idle" \/ Ready(g) \/ Ready(h)

LEMMA HookStep == ASSUME TypeInv, HookInv, [Next]_vars PROVE HookInv'
<1>1. Hooks \subseteq Processes
  BY DEF Hooks, Processes, Threads, TypeInv, TypeOK, Deployments
<1>2. CASE UNCHANGED <<deployment, pc, outcome>>
  BY <1>2 DEF HookInv, Hooks, Ready
<1>3. ASSUME NEW p \in Processes, Moves(p) PROVE HookInv'
  <2>1. /\ pc \in [Processes -> Labels]
        /\ outcome \in [Processes -> Outcomes]
    BY DEF TypeInv, TypeOK, Outcomes
  <2>2. /\ \A s \in Processes \ {p} : pc'[s] = pc[s] /\ outcome'[s] = outcome[s]
        /\ \A s \in Processes \ {p} : Ready(s)' <=> Ready(s)
    BY <1>3, <2>1 DEF Moves, Ready
  <2>3. Hooks' = Hooks /\ deployment' = deployment
    BY <1>3 DEF Moves, Hooks
  <2>4. ~Ready(p) /\ pc'[p] # "idle"
    BY <1>3 DEF Moves, Ready
  <2>5. \A h \in Hooks \ {p} : pc[h] = "idle" \/ Ready(h)
    BY <1>1, <1>3, <2>4 DEF Moves, MayStart, HookInv
  <2>6. p \notin Hooks => \A h \in Hooks : Ready(h)
    BY <1>1, <1>3, <2>4 DEF Moves, MayStart, HookInv
  <2>7. \A s \in Processes \ Hooks' :
           pc'[s] # "idle" => \A h \in Hooks' : Ready(h)'
    BY <1>1, <2>2, <2>3, <2>4, <2>6 DEF HookInv
  <2>8. \A g, h \in Hooks' : g # h =>
           pc'[g] = "idle" \/ pc'[h] = "idle" \/ Ready(g)' \/ Ready(h)'
    BY <1>1, <2>2, <2>3, <2>5
  <2>9. \A s \in Processes : pc'[s] # "done" <=> outcome'[s] = "none"
    BY <1>3, <2>1, <2>2 DEF HookInv, Moves, Outcomes
  <2>10. /\ \A r \in Registrars : outcome'[r] \in {"none", "registered",
                                                  "ImproperlyConfigured"}
         /\ \A q \in Requests : outcome'[q] # "registered"
         /\ deployment'.settings = "invalid" =>
               outcome'[Validator] \in {"none", "ImproperlyConfigured"}
    BY <1>3, <2>1, <2>2, <2>3, WiringAssumption
    DEF HookInv, Moves, Outcomes, Processes, Threads
  <2> QED
    BY <2>7, <2>8, <2>9, <2>10 DEF HookInv
<1> QED
  BY <1>2, <1>3, OneMoves

LEMMA AlwaysHookInv == Spec => [](TypeInv /\ HookInv)
<1>1. Init => HookInv
  <2> SUFFICES ASSUME Init PROVE HookInv
    OBVIOUS
  <2>1. \A p \in Processes : pc[p] = "idle" /\ outcome[p] = "none"
    BY DEF Init
  <2>2. Hooks \subseteq Processes /\ Threads \subseteq Processes
    BY DEF Init, Hooks, Deployments, Processes, Threads
  <2> QED
    BY <2>1, <2>2 DEF HookInv, Processes, Threads
<1> QED
  BY <1>1, AlwaysTypeInv, HookStep, PTL DEF Spec

(* Wrong settings are found before the first request, whatever the number  *)
(* of hooks and their order.                                               *)
THEOREM FailsFast == Spec => []WrongSettingsFailFast
<1>1. TypeInv /\ HookInv => WrongSettingsFailFast
  BY DEF HookInv, WrongSettingsFailFast, Hooks, Ready, Processes
<1> QED
  BY <1>1, AlwaysHookInv, PTL
-----------------------------------------------------------------------------
(* The singletons, once a handler is registered in ready().                *)

SingletonInv ==
    /\ verifier[Tenant] = Tenant
    /\ cachedDispatcher # None =>
          cachedClient # None /\ verifier[cachedDispatcher] = cachedClient
    /\ \A r \in Registrars : outcome[r] = "registered" =>
          cachedDispatcher # None /\ r \in handlers[cachedDispatcher]

(* What get_client() and get_dispatcher() give in the end.                 *)
ClientOf(q) ==
    IF deployment.wiring[q] \in {"client", "both"} THEN Tenant ELSE cachedClient

DispatcherOf(t) == IF DispatcherGiven(t) THEN Tenant ELSE cachedDispatcher

(* Only a hook builds a dispatcher, and nobody does anything meanwhile.    *)
ThreadInv(t) ==
    /\ pc[t] \in {"dispatcher's client", "build dispatcher's client",
                  "build dispatcher"} =>
          t \in Hooks /\ cachedDispatcher = None
    /\ pc[t] = "build dispatcher's client" => cachedClient = None
    /\ pc[t] = "build dispatcher" =>
          cachedClient # None /\ verifier[t] = cachedClient
    /\ pc[t] = "use" \/ outcome[t] \in {"registered", "served"} =>
          dispatcher[t] = DispatcherOf(t) /\ dispatcher[t] # None
    /\ dispatcher[t] \in Threads => dispatcher[t] = cachedDispatcher

RequestInv(q) ==
    /\ pc[q] # "build client"
    /\ pc[q] \in {"dispatcher", "use"} \/ outcome[q] = "served" =>
          client[q] = ClientOf(q)
    /\ \A r \in promised[q] : outcome[r] = "registered"
    /\ outcome[q] = "served" /\ UsesDefault(q) => promised[q] \subseteq ran[q]

WiringInv ==
    /\ SingletonInv
    /\ \A t \in Threads : ThreadInv(t)
    /\ \A q \in Requests : RequestInv(q)

StartInv == TypeInv /\ HookInv

(* When the hooks are through, one of them has registered its handler.     *)
LEMMA HooksDone ==
    ASSUME StartInv, Documented, SingletonInv, \A h \in Hooks : Ready(h)
    PROVE  cachedDispatcher # None /\ cachedClient # None
<1>1. PICK r \in deployment.inReady : TRUE
  BY DEF Documented
<1>2. r \in Registrars /\ r \in Hooks /\ r \in Processes
  BY DEF StartInv, TypeInv, TypeOK, Deployments, Hooks, Processes, Threads
<1>3. outcome[r] = "registered"
  BY <1>2 DEF Ready, StartInv, HookInv
<1> QED
  BY <1>2, <1>3 DEF SingletonInv

(* While a hook is at work no other thread is.                             *)
LEMMA HookAlone ==
    ASSUME StartInv, NEW t \in Threads \cap Hooks, pc[t] \notin {"idle", "done"}
    PROVE  \A s \in Threads \ {t} :
              pc[s] = "idle" \/ (pc[s] = "done" /\ s \in Hooks)
<1>1. ~Ready(t) /\ Threads \subseteq Processes
  BY DEF Ready, Processes
<1>2. ASSUME NEW s \in Threads \ {t}, s \notin Hooks PROVE pc[s] = "idle"
  <2>1. s \in Processes \ Hooks /\ t \in Hooks
    BY <1>1, <1>2
  <2> QED
    BY <1>1, <2>1 DEF StartInv, HookInv
<1>3. ASSUME NEW s \in Threads \ {t}, s \in Hooks, ~Ready(s)
      PROVE  pc[s] = "idle"
  <2>1. t \in Hooks /\ t # s
    OBVIOUS
  <2>2. pc[t] = "idle" \/ pc[s] = "idle" \/ Ready(t) \/ Ready(s)
    BY <1>3, <2>1 DEF StartInv, HookInv
  <2> QED
    BY <1>1, <1>3, <2>2
<1>4. \A s \in Threads \ {t} : s \in Hooks => pc[s] = "idle" \/ pc[s] = "done"
  BY <1>3 DEF Ready
<1> QED
  BY <1>2, <1>4

(* A thread that looks for the dispatcher after the hooks finds it.        *)
LEMMA LaterFinds ==
    ASSUME StartInv, Documented, SingletonInv, NEW p \in Threads \ Hooks,
           pc[p] # "idle" \/ MayStart(p)
    PROVE  cachedDispatcher # None /\ cachedClient # None
<1>1. \A h \in Hooks : Ready(h)
  BY DEF StartInv, HookInv, MayStart, Processes
<1> QED
  BY <1>1, HooksDone

LEMMA GotoFrame ==
    ASSUME TypeInv, NEW t \in Threads, NEW label, Goto(t, label)
    PROVE  /\ pc'[t] = label /\ outcome' = outcome
           /\ \A s \in Processes \ {t} : pc'[s] = pc[s]
           /\ \A s \in Threads \ {t} : pc'[s] = pc[s]
  BY DEF Goto, TypeInv, TypeOK, Processes

LEMMA EndFrame ==
    ASSUME TypeInv, NEW p \in Processes, NEW result, End(p, result)
    PROVE  /\ pc'[p] = "done" /\ outcome'[p] = result
           /\ \A s \in Processes \ {p} : pc'[s] = pc[s] /\ outcome'[s] = outcome[s]
           /\ \A s \in Threads \ {p} : pc'[s] = pc[s] /\ outcome'[s] = outcome[s]
  BY DEF End, TypeInv, TypeOK, Processes

LEMMA ValidateKeeps ==
    ASSUME StartInv, WiringInv, Validate PROVE WiringInv'
<1>1. PICK result \in {"ImproperlyConfigured", "validated"} : End(Validator, result)
  BY DEF Validate
<1>2. \A t \in Threads : pc'[t] = pc[t] /\ outcome'[t] = outcome[t]
  BY <1>1, EndFrame, WiringAssumption DEF StartInv, Processes
<1>3. UNCHANGED <<deployment, caches, locals, verifier, handlers>>
  BY DEF Validate
<1>4. Registrars \subseteq Threads /\ Requests \subseteq Threads
  BY DEF Threads
<1>5. SingletonInv'
  BY <1>2, <1>3, <1>4 DEF WiringInv, SingletonInv, caches
<1>6. \A t \in Threads : ThreadInv(t)'
  BY <1>2, <1>3 DEF WiringInv, ThreadInv, DispatcherOf, DispatcherGiven, Hooks,
                    caches, locals
<1>7. \A q \in Requests : promised[q] \subseteq Registrars
  BY DEF StartInv, TypeInv, TypeOK
<1>8. \A q \in Requests : RequestInv(q)'
  BY <1>2, <1>3, <1>4, <1>7 DEF WiringInv, RequestInv, ClientOf, UsesDefault,
                                caches, locals
<1> QED
  BY <1>5, <1>6, <1>8 DEF WiringInv

LEMMA PostKeeps ==
    ASSUME StartInv, WiringInv, NEW q \in Requests, Post(q) PROVE WiringInv'
<1>1. /\ Goto(q, "client")
      /\ UNCHANGED <<deployment, caches, client, dispatcher, ran, verifier,
                     handlers>>
      /\ promised' = [promised EXCEPT ![q] =
                         {r \in Registrars : outcome[r] = "registered"}]
  BY DEF Post
<1>2. Registrars \subseteq Threads /\ Requests \subseteq Threads
  BY DEF Threads
<1>3. /\ pc'[q] = "client" /\ outcome' = outcome
      /\ \A s \in Threads \ {q} : pc'[s] = pc[s]
  BY <1>1, <1>2, GotoFrame DEF StartInv
<1>4. SingletonInv'
  BY <1>1, <1>3 DEF WiringInv, SingletonInv, caches
<1>5. \A t \in Threads : ThreadInv(t)'
  BY <1>1, <1>3 DEF WiringInv, ThreadInv, DispatcherOf, DispatcherGiven, Hooks,
                    caches
<1>6. outcome[q] = "none"
  BY DEF Post, MayStart, StartInv, HookInv, Processes, Threads
<1>7. promised \in [Requests -> SUBSET Registrars]
  BY DEF StartInv, TypeInv, TypeOK
<1>8. ASSUME NEW p \in Requests PROVE RequestInv(p)'
  <2>1. CASE p = q
    BY <1>1, <1>3, <1>6, <1>7, <2>1 DEF RequestInv
  <2>2. CASE p # q
    BY <1>1, <1>2, <1>3, <1>7, <2>2 DEF WiringInv, RequestInv, ClientOf,
                                        UsesDefault, caches
  <2> QED
    BY <2>1, <2>2
<1> QED
  BY <1>4, <1>5, <1>8 DEF WiringInv

LEMMA GetClientKeeps ==
    ASSUME StartInv, Documented, WiringInv, NEW q \in Requests, GetClient(q)
    PROVE  WiringInv'
<1>1. Registrars \subseteq Threads /\ Requests \subseteq Threads
  BY DEF Threads
<1>2. q \in Threads \ Hooks /\ pc[q] = "client"
  BY WiringAssumption, <1>1
  DEF GetClient, Hooks, StartInv, TypeInv, TypeOK, Deployments
<1>3. cachedClient # None
  BY <1>2, LaterFinds DEF WiringInv
<1>4. ClientOf(q) # None
  BY <1>3, WiringAssumption DEF ClientOf
<1>5. /\ client' = [client EXCEPT ![q] = ClientOf(q)]
      /\ Goto(q, "dispatcher")
      /\ UNCHANGED <<deployment, caches, dispatcher, promised, ran, verifier,
                     handlers>>
  BY <1>4 DEF GetClient, ClientOf
<1>6. /\ pc'[q] = "dispatcher" /\ outcome' = outcome
      /\ \A s \in Threads \ {q} : pc'[s] = pc[s]
  BY <1>2, <1>5, GotoFrame DEF StartInv
<1>7. SingletonInv'
  BY <1>5, <1>6 DEF WiringInv, SingletonInv, caches
<1>8. \A t \in Threads : ThreadInv(t)'
  BY <1>5, <1>6 DEF WiringInv, ThreadInv, DispatcherOf, DispatcherGiven, Hooks,
                    caches
<1>9. client \in [Requests -> Objects \cup {None}] /\ ClientOf(q)' = ClientOf(q)
  BY <1>5 DEF StartInv, TypeInv, TypeOK, ClientOf, caches
<1>10. ASSUME NEW p \in Requests PROVE RequestInv(p)'
  <2>1. CASE p = q
    BY <1>5, <1>6, <1>9, <2>1 DEF WiringInv, RequestInv, UsesDefault
  <2>2. CASE p # q
    BY <1>1, <1>5, <1>6, <1>9, <2>2 DEF WiringInv, RequestInv, ClientOf,
                                        UsesDefault, caches
  <2> QED
    BY <2>1, <2>2
<1> QED
  BY <1>7, <1>8, <1>10 DEF WiringInv

LEMMA ServeKeeps ==
    ASSUME StartInv, WiringInv, NEW q \in Requests, Serve(q) PROVE WiringInv'
<1>1. /\ End(q, "served") /\ pc[q] = "use"
      /\ UNCHANGED <<deployment, caches, client, dispatcher, promised, verifier,
                     handlers>>
      /\ ran' = [ran EXCEPT ![q] = handlers[dispatcher[q]]]
  BY DEF Serve
<1>2. Registrars \subseteq Threads /\ Requests \subseteq Threads
  BY DEF Threads
<1>3. /\ pc'[q] = "done" /\ outcome'[q] = "served"
      /\ \A s \in Threads \ {q} : pc'[s] = pc[s] /\ outcome'[s] = outcome[s]
  BY <1>1, <1>2, EndFrame DEF StartInv, Processes
<1>4. q \notin Registrars
  BY WiringAssumption
<1>5. SingletonInv'
  BY <1>1, <1>2, <1>3, <1>4 DEF WiringInv, SingletonInv, caches
<1>6. \A t \in Threads : ThreadInv(t)'
  BY <1>1, <1>3 DEF WiringInv, ThreadInv, DispatcherOf, DispatcherGiven, Hooks,
                    caches
<1>7. /\ ran \in [Requests -> SUBSET Registrars]
      /\ promised \in [Requests -> SUBSET Registrars]
  BY DEF StartInv, TypeInv, TypeOK
<1>8. UsesDefault(q) => promised[q] \subseteq handlers[dispatcher[q]]
  <2>1. UsesDefault(q) => dispatcher[q] = cachedDispatcher
    BY <1>1, <1>2 DEF WiringInv, ThreadInv, DispatcherOf, DispatcherGiven,
                      UsesDefault
  <2>2. \A r \in promised[q] : r \in handlers[cachedDispatcher]
    BY <1>7 DEF WiringInv, RequestInv, SingletonInv
  <2> QED
    BY <2>1, <2>2
<1>9. ASSUME NEW p \in Requests PROVE RequestInv(p)'
  <2>1. \A r \in Registrars : outcome'[r] = outcome[r]
    BY <1>2, <1>3, <1>4
  <2>2. CASE p = q
    <3>1. ran'[q] = handlers[dispatcher[q]] /\ promised'[q] = promised[q]
      BY <1>1, <1>7
    <3>2. client'[q] = ClientOf(q)'
      BY <1>1, <1>2 DEF WiringInv, RequestInv, ClientOf, caches
    <3>3. \A r \in promised'[q] : outcome'[r] = "registered"
      BY <1>7, <2>1, <3>1 DEF WiringInv, RequestInv
    <3>4. UsesDefault(q)' => promised'[q] \subseteq ran'[q]
      BY <1>1, <1>8, <3>1 DEF UsesDefault
    <3> QED
      BY <1>3, <2>2, <3>2, <3>3, <3>4 DEF RequestInv
  <2>3. CASE p # q
    BY <1>1, <1>2, <1>3, <1>7, <2>1, <2>3 DEF WiringInv, RequestInv, ClientOf,
                                              UsesDefault, caches
  <2> QED
    BY <2>2, <2>3
<1> QED
  BY <1>5, <1>6, <1>9 DEF WiringInv

LEMMA RegisterKeeps ==
    ASSUME StartInv, WiringInv, NEW r \in Registrars, Register(r)
    PROVE  WiringInv'
<1>1. /\ End(r, "registered") /\ pc[r] = "use"
      /\ UNCHANGED <<deployment, caches, locals, verifier>>
      /\ handlers' = [handlers EXCEPT ![dispatcher[r]] = @ \cup {r}]
  BY DEF Register
<1>2. Registrars \subseteq Threads /\ Requests \subseteq Threads
  BY DEF Threads
<1>3. /\ pc'[r] = "done" /\ outcome'[r] = "registered"
      /\ \A s \in Threads \ {r} : pc'[s] = pc[s] /\ outcome'[s] = outcome[s]
  BY <1>1, <1>2, EndFrame DEF StartInv, Processes
<1>4. dispatcher[r] = cachedDispatcher /\ dispatcher[r] # None
  BY <1>1, <1>2, WiringAssumption
  DEF WiringInv, ThreadInv, DispatcherOf, DispatcherGiven
<1>5. cachedDispatcher \in Objects /\ handlers \in [Objects -> SUBSET Registrars]
  BY <1>4 DEF StartInv, TypeInv, TypeOK, Objects
<1>6. handlers'[cachedDispatcher] = handlers[cachedDispatcher] \cup {r}
  BY <1>1, <1>4, <1>5
<1>7. SingletonInv'
  BY <1>1, <1>2, <1>3, <1>4, <1>6 DEF WiringInv, SingletonInv, caches
<1>8. \A t \in Threads : ThreadInv(t)'
  BY <1>1, <1>3 DEF WiringInv, ThreadInv, DispatcherOf, DispatcherGiven, Hooks,
                    caches, locals
<1>9. ASSUME NEW p \in Requests PROVE RequestInv(p)'
  <2>1. p \in Threads \ {r} /\ promised[p] \subseteq Registrars
    BY <1>2, WiringAssumption DEF StartInv, TypeInv, TypeOK
  <2> QED
    BY <1>1, <1>2, <1>3, <2>1 DEF WiringInv, RequestInv, ClientOf, UsesDefault,
                                  caches, locals
<1> QED
  BY <1>7, <1>8, <1>9 DEF WiringInv

LEMMA GetDispatcherKeeps ==
    ASSUME StartInv, Documented, WiringInv, NEW t \in Threads, GetDispatcher(t)
    PROVE  WiringInv'
<1> DEFINE found == DispatcherOf(t)
<1>1. /\ dispatcher' = [dispatcher EXCEPT ![t] = found]
      /\ Goto(t, IF found = None THEN "dispatcher's client" ELSE "use")
      /\ UNCHANGED <<deployment, caches, client, promised, ran, verifier, handlers>>
      /\ AtDispatcher(t)
  BY DEF GetDispatcher, DispatcherOf
<1>2. Registrars \subseteq Threads /\ Requests \subseteq Threads
  BY DEF Threads
<1>3. /\ pc'[t] = IF found = None THEN "dispatcher's client" ELSE "use"
      /\ outcome' = outcome
      /\ \A s \in Threads \ {t} : pc'[s] = pc[s]
  BY <1>1, GotoFrame DEF StartInv
<1>4. found = None => t \in Hooks /\ cachedDispatcher = None
  <2>1. pc[t] # "idle" \/ MayStart(t)
    BY <1>1 DEF AtDispatcher
  <2>2. t \notin Hooks => cachedDispatcher # None
    BY <2>1, LaterFinds DEF WiringInv
  <2> QED
    BY <2>2, WiringAssumption DEF DispatcherOf
<1>5. found \in Threads => found = cachedDispatcher
  BY WiringAssumption DEF DispatcherOf
<1>6. SingletonInv'
  BY <1>1, <1>3 DEF WiringInv, SingletonInv, caches
<1>7. outcome[t] = "none" /\ dispatcher'[t] = found
  BY <1>1 DEF AtDispatcher, MayStart, StartInv, HookInv, TypeInv, TypeOK,
              Processes
<1>8. Hooks' = Hooks /\ DispatcherOf(t)' = found
  BY <1>1 DEF Hooks, DispatcherOf, DispatcherGiven, caches
<1>9. ASSUME NEW s \in Threads PROVE ThreadInv(s)'
  <2>1. CASE s = t
    BY <1>1, <1>3, <1>4, <1>5, <1>7, <1>8, <2>1 DEF ThreadInv, caches
  <2>2. CASE s # t
    <3>1. dispatcher'[s] = dispatcher[s]
      BY <1>1, <2>2 DEF StartInv, TypeInv, TypeOK
    <3>2. DispatcherOf(s)' = DispatcherOf(s)
      BY <1>1 DEF DispatcherOf, DispatcherGiven, caches
    <3> QED
      BY <1>1, <1>3, <1>8, <2>2, <3>1, <3>2 DEF WiringInv, ThreadInv, caches
  <2> QED
    BY <2>1, <2>2
<1>10. ASSUME NEW q \in Requests PROVE RequestInv(q)'
  <2>1. pc'[q] = "use" /\ q = t => pc[q] = "dispatcher"
    BY <1>1, WiringAssumption DEF AtDispatcher
  <2> QED
    BY <1>1, <1>2, <1>3, <2>1 DEF WiringInv, RequestInv, ClientOf, UsesDefault,
                                  caches
<1> QED
  BY <1>6, <1>9, <1>10 DEF WiringInv

LEMMA DispatcherClientKeeps ==
    ASSUME StartInv, WiringInv, NEW t \in Threads, DispatcherClient(t)
    PROVE  WiringInv'
<1>1. /\ pc[t] = "dispatcher's client"
      /\ verifier' = [verifier EXCEPT ![t] = cachedClient]
      /\ Goto(t, IF cachedClient = None THEN "build dispatcher's client"
                                        ELSE "build dispatcher")
      /\ UNCHANGED <<deployment, caches, locals, handlers>>
  BY DEF DispatcherClient
<1>2. Registrars \subseteq Threads /\ Requests \subseteq Threads
  BY DEF Threads
<1>3. /\ pc'[t] = IF cachedClient = None THEN "build dispatcher's client"
                                         ELSE "build dispatcher"
      /\ outcome' = outcome
      /\ \A s \in Threads \ {t} : pc'[s] = pc[s]
  BY <1>1, GotoFrame DEF StartInv
<1>4. t \in Hooks /\ cachedDispatcher = None /\ outcome[t] = "none"
  BY <1>1 DEF WiringInv, ThreadInv, StartInv, HookInv, Processes
<1>5. verifier \in [Objects -> Objects \cup {None}] /\ t \in Objects
  BY DEF StartInv, TypeInv, TypeOK, Objects
<1>6. SingletonInv'
  BY <1>1, <1>3, <1>4, <1>5, WiringAssumption
  DEF WiringInv, SingletonInv, caches, Objects
<1>7. \A s \in Threads \ {t} : pc[s] = "idle" \/ pc[s] = "done"
  BY <1>1, <1>4, HookAlone
<1>8. ASSUME NEW s \in Threads PROVE ThreadInv(s)'
  <2>1. Hooks' = Hooks /\ DispatcherOf(s)' = DispatcherOf(s)
    BY <1>1 DEF Hooks, DispatcherOf, DispatcherGiven, caches
  <2>2. CASE s = t
    BY <1>1, <1>3, <1>4, <1>5, <2>1, <2>2 DEF WiringInv, ThreadInv, caches, locals
  <2>3. CASE s # t
    BY <1>1, <1>3, <1>7, <2>1, <2>3 DEF WiringInv, ThreadInv, caches, locals
  <2> QED
    BY <2>2, <2>3
<1>9. \A q \in Requests : RequestInv(q)'
  BY <1>1, <1>2, <1>3 DEF WiringInv, RequestInv, ClientOf, UsesDefault, caches,
                          locals
<1> QED
  BY <1>6, <1>8, <1>9 DEF WiringInv

(* The one step that builds a client, and nobody looks.                    *)
LEMMA BuildDispatcherClientKeeps ==
    ASSUME StartInv, WiringInv, NEW t \in Threads, BuildDispatcherClient(t)
    PROVE  WiringInv'
<1>1. /\ pc[t] = "build dispatcher's client"
      /\ verifier' = [verifier EXCEPT ![t] = cachedClient']
      /\ UNCHANGED <<deployment, cachedDispatcher, locals, handlers>>
  BY DEF BuildDispatcherClient
<1>2. Registrars \subseteq Threads /\ Requests \subseteq Threads
  BY DEF Threads
<1>3. t \in Hooks /\ cachedDispatcher = None /\ t \in Registrars
  BY <1>1, WiringAssumption
  DEF WiringInv, ThreadInv, Hooks, StartInv, TypeInv, TypeOK, Deployments
<1>4. verifier \in [Objects -> Objects \cup {None}] /\ t \in Objects
  BY DEF StartInv, TypeInv, TypeOK, Objects
<1>5. \A s \in Threads \ {t} :
         pc[s] = "idle" \/ (pc[s] = "done" /\ s \in Hooks)
  BY <1>1, <1>3, HookAlone
<1>6. \A r \in Registrars : outcome[r] # "registered"
  BY <1>3 DEF WiringInv, SingletonInv
<1>7. /\ \A s \in Threads \ {t} : pc'[s] = pc[s] /\ outcome'[s] = outcome[s]
      /\ \/ pc'[t] = "build dispatcher" /\ cachedClient' = t /\ outcome' = outcome
         \/ pc'[t] = "done" /\ outcome'[t] = "ImproperlyConfigured"
  <2>1. Build(t, "build dispatcher")
    BY DEF BuildDispatcherClient
  <2>2. CASE deployment.settings = "valid"
    BY <2>1, <2>2, GotoFrame DEF Build, StartInv
  <2>3. CASE deployment.settings # "valid"
    BY <2>1, <2>3, EndFrame DEF Build, StartInv, Processes
  <2> QED
    BY <2>2, <2>3
<1>8. /\ outcome[t] = "none"
      /\ \A s \in Threads \ {t} : outcome[s] \notin {"registered", "served"}
  <2>1. \A q \in Requests : q \notin Hooks
    BY WiringAssumption, <1>2
    DEF Hooks, StartInv, TypeInv, TypeOK, Deployments
  <2>2. \A q \in Requests : pc[q] = "idle"
    BY <1>2, <1>3, <1>5, <2>1, WiringAssumption
  <2>3. \A q \in Requests : outcome[q] = "none"
    BY <2>2, <1>2 DEF StartInv, HookInv, Processes
  <2>4. \A r \in Registrars : outcome[r] \notin {"registered", "served"}
    BY <1>6 DEF StartInv, HookInv
  <2>5. outcome[t] = "none"
    BY <1>1 DEF StartInv, HookInv, Processes
  <2> QED
    BY <2>3, <2>4, <2>5 DEF Threads
<1>9. \A r \in Registrars : outcome'[r] # "registered"
  BY <1>2, <1>6, <1>7, <1>8
<1>10. SingletonInv'
  <2>1. verifier'[Tenant] = verifier[Tenant]
    BY <1>1, <1>4, WiringAssumption DEF Objects
  <2> QED
    BY <1>1, <1>3, <1>9, <2>1 DEF WiringInv, SingletonInv
<1>11. ASSUME NEW s \in Threads PROVE ThreadInv(s)'
  <2>1. dispatcher'[s] = dispatcher[s] /\ cachedDispatcher' = None /\ Hooks' = Hooks
    BY <1>1, <1>3 DEF locals, Hooks
  <2>2. dispatcher'[s] \notin Threads
    BY <1>3, <2>1, WiringAssumption DEF WiringInv, ThreadInv
  <2>3. CASE s = t
    BY <1>3, <1>4, <1>1, <1>7, <1>8, <2>1, <2>2, <2>3, WiringAssumption
    DEF ThreadInv
  <2>4. CASE s # t
    BY <1>5, <1>7, <1>8, <2>1, <2>2, <2>4 DEF ThreadInv
  <2> QED
    BY <2>3, <2>4
<1>12. ASSUME NEW q \in Requests PROVE RequestInv(q)'
  <2>1. q \in Threads \ {t}
    BY <1>2, <1>3, WiringAssumption
  <2>2. pc'[q] \in {"idle", "done"} /\ outcome'[q] # "served"
    BY <1>5, <1>7, <1>8, <2>1
  <2>3. promised'[q] = {}
    <3>1. promised[q] \subseteq Registrars
      BY DEF StartInv, TypeInv, TypeOK
    <3> QED
      BY <1>1, <1>6, <3>1 DEF WiringInv, RequestInv, locals
  <2> QED
    BY <2>2, <2>3 DEF RequestInv
<1> QED
  BY <1>10, <1>11, <1>12 DEF WiringInv

LEMMA BuildDispatcherKeeps ==
    ASSUME StartInv, WiringInv, NEW t \in Threads, BuildDispatcher(t)
    PROVE  WiringInv'
<1>1. /\ pc[t] = "build dispatcher" /\ cachedDispatcher' = t
      /\ dispatcher' = [dispatcher EXCEPT ![t] = t]
      /\ Goto(t, "use")
      /\ UNCHANGED <<deployment, cachedClient, client, promised, ran, verifier,
                     handlers>>
  BY DEF BuildDispatcher
<1>2. Registrars \subseteq Threads /\ Requests \subseteq Threads
  BY DEF Threads
<1>3. /\ pc'[t] = "use" /\ outcome' = outcome
      /\ \A s \in Threads \ {t} : pc'[s] = pc[s]
  BY <1>1, GotoFrame DEF StartInv
<1>4. t \in Hooks /\ t \in Registrars
  BY <1>1, WiringAssumption
  DEF WiringInv, ThreadInv, Hooks, StartInv, TypeInv, TypeOK, Deployments
<1>5. cachedDispatcher = None /\ cachedClient # None /\ verifier[t] = cachedClient
  BY <1>1 DEF WiringInv, ThreadInv
<1>6. \A s \in Threads \ {t} :
         pc[s] = "idle" \/ (pc[s] = "done" /\ s \in Hooks)
  BY <1>1, <1>4, HookAlone
<1>7. \A r \in Registrars : outcome[r] # "registered"
  BY <1>5 DEF WiringInv, SingletonInv
<1>8. \A q \in Requests : pc[q] = "idle" /\ outcome[q] = "none"
  <2>1. \A q \in Requests : q \notin Hooks /\ q # t
    BY <1>2, <1>4, WiringAssumption
    DEF Hooks, StartInv, TypeInv, TypeOK, Deployments
  <2>2. \A q \in Requests : pc[q] = "idle"
    BY <1>2, <1>6, <2>1
  <2> QED
    BY <2>2, <1>2 DEF StartInv, HookInv, Processes
<1>9. \A s \in Threads : outcome[s] \notin {"registered", "served"}
  BY <1>7, <1>8 DEF StartInv, HookInv, Threads
<1>10. SingletonInv'
  BY <1>1, <1>3, <1>5, <1>7 DEF WiringInv, SingletonInv
<1>11. ASSUME NEW s \in Threads PROVE ThreadInv(s)'
  <2>1. dispatcher \in [Threads -> Objects \cup {None}]
    BY DEF StartInv, TypeInv, TypeOK
  <2>2. CASE s = t
    <3>1. dispatcher'[t] = t /\ DispatcherOf(t)' = t /\ t # None
      BY <1>1, <1>4, <2>1, WiringAssumption DEF DispatcherOf, DispatcherGiven
    <3> QED
      BY <1>1, <1>3, <2>2, <3>1 DEF ThreadInv
  <2>3. CASE s # t
    <3>1. dispatcher'[s] = dispatcher[s] /\ dispatcher[s] \notin Threads
      BY <1>1, <1>5, <2>1, <2>3, WiringAssumption DEF WiringInv, ThreadInv
    <3> QED
      BY <1>3, <1>6, <1>9, <2>3, <3>1 DEF ThreadInv
  <2> QED
    BY <2>2, <2>3
<1>12. ASSUME NEW q \in Requests PROVE RequestInv(q)'
  <2>1. pc'[q] = "idle" /\ outcome'[q] = "none"
    BY <1>2, <1>3, <1>4, <1>8, WiringAssumption
  <2>2. promised'[q] = {}
    <3>1. promised[q] \subseteq Registrars
      BY DEF StartInv, TypeInv, TypeOK
    <3> QED
      BY <1>1, <1>7, <3>1 DEF WiringInv, RequestInv
  <2> QED
    BY <2>1, <2>2 DEF RequestInv
<1> QED
  BY <1>10, <1>11, <1>12 DEF WiringInv
-----------------------------------------------------------------------------
DocumentedInv == StartInv /\ (Documented => WiringInv)

LEMMA WiringStep ==
    ASSUME StartInv, Documented, WiringInv, [Next]_vars PROVE WiringInv'
<1>1. ASSUME NEW q \in Requests, BuildClient(q) PROVE FALSE
  BY <1>1 DEF BuildClient, WiringInv, RequestInv
<1>2. CASE UNCHANGED vars
  BY <1>2 DEF vars, caches, locals, WiringInv, SingletonInv, ThreadInv, RequestInv,
              ClientOf, DispatcherOf, DispatcherGiven, UsesDefault, Hooks
<1> QED
  BY <1>1, <1>2, ValidateKeeps, PostKeeps, GetClientKeeps, ServeKeeps,
     RegisterKeeps, GetDispatcherKeeps, DispatcherClientKeeps,
     BuildDispatcherClientKeeps, BuildDispatcherKeeps
  DEF Next

LEMMA AlwaysDocumentedInv == Spec => []DocumentedInv
<1>1. Init => (Documented => WiringInv)
  <2> SUFFICES ASSUME Init PROVE WiringInv
    OBVIOUS
  <2>1. \A t \in Threads : pc[t] = "idle" /\ outcome[t] = "none"
    BY DEF Init, Processes
  <2>2. verifier[Tenant] = Tenant
    BY DEF Init, Objects
  <2>3. Registrars \subseteq Threads /\ Requests \subseteq Threads
    BY DEF Threads
  <2>4. \A t \in Threads : dispatcher[t] \notin Threads
    BY WiringAssumption DEF Init
  <2>5. \A q \in Requests : promised[q] = {}
    BY DEF Init
  <2> QED
    BY <2>1, <2>2, <2>3, <2>4, <2>5
    DEF Init, WiringInv, SingletonInv, ThreadInv, RequestInv
<1>2. StartInv /\ (Documented => WiringInv) /\ [Next]_vars =>
         (Documented => WiringInv)'
  <2> SUFFICES ASSUME StartInv, Documented => WiringInv, [Next]_vars, Documented'
               PROVE  WiringInv'
    OBVIOUS
  <2>1. deployment' = deployment
    BY OneMoves DEF StartInv, Moves
  <2>2. Documented
    BY <2>1 DEF Documented
  <2> QED
    BY <2>2, WiringStep
<1>3. Spec => []StartInv
  BY AlwaysHookInv DEF StartInv
<1> QED
  BY <1>1, <1>2, <1>3, PTL DEF Spec, DocumentedInv

(* With a registration in ready(), every request reaches every handler     *)
(* whose registration was over when it came in.                            *)
THEOREM HandlersReached == Spec => []RegisteredHandlersRun
<1>1. DocumentedInv => RegisteredHandlersRun
  BY DEF DocumentedInv, RegisteredHandlersRun, WiringInv, RequestInv
<1> QED
  BY <1>1, AlwaysDocumentedInv, PTL

(* The parser's client is the verifier's.                                  *)
THEOREM SameClient == Spec => []ParsedAndVerifiedAlike
<1>1. ASSUME DocumentedInv, Documented, NEW q \in Requests, outcome[q] = "served",
             deployment.wiring[q] \in {"default", "both"}
      PROVE  verifier[dispatcher[q]] = client[q]
  <2>1. q \in Threads
    BY DEF Threads
  <2>2. /\ client[q] = ClientOf(q)
        /\ dispatcher[q] = DispatcherOf(q) /\ dispatcher[q] # None
    BY <1>1, <2>1 DEF DocumentedInv, WiringInv, RequestInv, ThreadInv
  <2> QED
    BY <1>1, <2>2 DEF DocumentedInv, WiringInv, SingletonInv, ClientOf,
                      DispatcherOf, DispatcherGiven
<1>2. DocumentedInv => ParsedAndVerifiedAlike
  BY <1>1 DEF ParsedAndVerifiedAlike
<1> QED
  BY <1>2, AlwaysDocumentedInv, PTL

(* What the caches hold they hold for the lifetime of the process.         *)
THEOREM NeverReplaced == Spec => CachedForLifetime
<1>1. ASSUME DocumentedInv, Documented, [Next]_vars
      PROVE  /\ cachedClient # None => UNCHANGED cachedClient
             /\ cachedDispatcher # None => UNCHANGED cachedDispatcher
  <2>1. \A q \in Requests : ~BuildClient(q)
    BY <1>1 DEF DocumentedInv, BuildClient, WiringInv, RequestInv
  <2>2. \A t \in Threads : BuildDispatcherClient(t) =>
           cachedClient = None /\ UNCHANGED cachedDispatcher
    BY <1>1 DEF DocumentedInv, BuildDispatcherClient, WiringInv, ThreadInv
  <2>3. \A t \in Threads : BuildDispatcher(t) =>
           cachedDispatcher = None /\ UNCHANGED cachedClient
    BY <1>1 DEF DocumentedInv, BuildDispatcher, WiringInv, ThreadInv
  <2>4. CASE UNCHANGED caches
    BY <2>4 DEF caches
  <2> QED
    BY <1>1, <2>1, <2>2, <2>3, <2>4
    DEF Next, Validate, Post, GetClient, GetDispatcher, DispatcherClient,
        Register, Serve, vars, caches
<1>2. DocumentedInv /\ [Next]_vars =>
         [Documented =>
            /\ cachedClient # None => UNCHANGED cachedClient
            /\ cachedDispatcher # None => UNCHANGED cachedDispatcher]_vars
  BY <1>1
<1> QED
  BY <1>2, AlwaysDocumentedInv, PTL DEF Spec, CachedForLifetime

(* So far the dispatcher is what django/client.py calls it: process-wide.  *)
THEOREM DocumentedIsProcessWide == Spec => [](Documented => ProcessWideDispatcher)
<1>1. DocumentedInv => (Documented => ProcessWideDispatcher)
  BY DEF DocumentedInv, WiringInv, ThreadInv, ProcessWideDispatcher
<1> QED
  BY <1>1, AlwaysDocumentedInv, PTL
=============================================================================

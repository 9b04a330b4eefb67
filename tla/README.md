# Verification of hatchup-psip

`hatchup-psip` is the Python SDK of the Hatchup payment service: a synchronous
and an asynchronous HTTP client with retries and idempotency keys, resource
classes on top of it, a webhook dispatcher, and a Django view that receives
webhooks. It moves money over an unreliable network and acts on messages that
anyone may send, so its correctness is about what happens when requests are
lost, late or repeated, when calls, deliveries and registrations interleave, and
when one step of several fails.

This directory holds TLA+ models of that behaviour, the TLC runs that check them
on small instances, and TLAPS proofs of the main properties for all values of
the constants. `PROJECT.json` maps every definition to the lines it models and
lists runs, mutants, findings, hazards and theorems. Source paths below are
relative to `src/src/hatchup_psip/`.

    tlc -config MCTransportKeys.cfg MCTransport      # a run
    tlapm TransportProofs.tla                        # the proofs of a module

## The system

| component | state | operations | depends on |
|---|---|---|---|
| HTTP transport (`transport.py`) | per call: attempt, headers, last response; shared: the httpx client, open or closed | `request`, `close` / `aclose` | httpx, the gateway |
| Resources (`resources/*.py`) | none of their own | 51 methods: validate, `request()`, parse | transport |
| Listing (`resources/transactions.py`, `models/transaction.py`) | a generator's page number and page in hand | `iter_all`, `list`, `get` | transport |
| Dispatcher (`webhooks/dispatcher.py`) | handlers per event type, a verifier | `on`, `dispatch` | consumer's verifier and handlers |
| Verifier (`webhooks/verifier.py`) | none | `verify_event`, `verify_signature` | `transactions.get` |
| Parser (`webhooks/parser.py`, `models/webhook.py`) | none | one parser per event | |
| Django view (`django/views.py`) | none; one request is one thread | `post` | parser, dispatcher, singletons |
| Singletons and settings (`django/client.py`, `django/settings.py`, `django/apps.py`) | one cached client and dispatcher per process | `get_default_client`, `get_default_dispatcher` | configuration |
| Configuration (`config.py`) | `PSIPConfig`, `RetryPolicy`, frozen | construction, `from_env` | environment |
| Client facades (`client.py`) | the resources on one transport | construction, `close` | transport, resources |
| Models (`models/*.py`), exceptions (`exceptions.py`) | immutable values | construction | |

How they interact. A resource method calls `Transport.request` synchronously;
the transport exchanges messages with the gateway over httpx. All resources of a
client share one transport, and threads or tasks share a client, so calls
interleave with each other and with `close()`. A webhook arrives in a thread of
the web server; the view parses it, calls `dispatch`, which calls back the
consumer's verifier (for the default dispatcher `client.webhooks.verify_event`,
which makes a GET through the transport) and then the consumer's handlers, one
by one. Handlers are registered with `@dispatcher.on(...)`, normally at import
time, but nothing prevents it later. The gateway's records change meanwhile.

### What is hard, and what makes each component correct

* **Transport.** A timeout does not say whether the gateway executed the
  request, a 503 of a proxy does not either, and a request given up on may still
  be executed later. Correct means: retries of one call, and repetitions by a
  caller that pins a key, take effect at most once; data is only returned for an
  effect of this very operation; the retry budget and the backoff are those of the
  policy; an answer that is not to be retried is final; every call ends.
* **Resources.** Concurrent and late updates of one object must not undo each
  other where they are about different fields; a listing must honour its filters,
  `False` among them; the class of the error must say whether the call was sent.
* **Listing.** Rows come and go between two pages. Correct means: as long as
  pages do not shift, every row once and in order; as long as no row leaves, no
  row is missed; no endless or early stop at full or capped pages.
* **Dispatcher.** Deliveries share the handler lists while `on` appends to them.
  Correct means: every handler registered at lookup is invoked, in order, whatever
  others raise; no failure is swallowed; nothing unverified is handled.
* **Webhook receiver** (view, parser, verifier, dispatcher). The status answered
  decides whether the service delivers again. Correct means: handlers act only on
  payments on record; 200 only when everything was handled; 400 or 403 only when
  nothing was; nothing genuine is refused because the server is down.
* **Singletons.** Two first requests at once must not split the application
  between two dispatchers; a view must verify with the client it parses with;
  wrong settings must keep the process from starting.
* **Signature.** Between a clock that differs, a time that is rounded and a header
  that may be cut or joined, what is prompt must pass and what is stale must not; a
  rotation whose answer is lost must not leave the consumer with a dead secret.
* **Event models.** Every event that has a model must be taken by the parser of that
  model and by no other that goes by the event's name, whatever fields the service adds
  to it; what says less than a completed payment does must not be taken for one.
* **Configuration, request models.** What the caller set last counts; a body says what
  the caller said, however it was spelled, in each of the calls about one order.

`PROJECT.json` lists every hazard at its line, with the property that covers it
or the reason why none does.

## Modules

| module | models | main definitions |
|---|---|---|
| `HttpResponse` | `_handle_response`, `_decode_envelope`, `_classify_error` | `HandleResponse(r)`: a response, as status code and class of body, to `"Data"` or an exception class |
| `Transport` | both `request()` loops, `close()`, cancellation; the gateway and network as external actions | per call `pc` in idle / send / wait / sleep / done; `Start` draws the key, `Send`, `Receive`, `RequestError`, `Wake`, `Cancel`, `Close`; `Execute`, `Serve`, `Reject` |
| `RemoteOperation` | abstract: what `request()` promises; `Transport` and the rotations of `SignedWebhooks` implement it | `Call`, `TakeEffect`, `Return`, `Raise` |
| `Resources` | every resource class as a table of methods, composed with `RemoteOperation` | `Invoke`, `Effect`, `Lookup`, `Request`, `Answer` |
| `Pagination` | `iter_all`, sync and async | `Begin`, `Fetch`, `FetchFails`, `Yield`, `Turn`; the server's `InsertRow`, `AppendRow`, `RemoveRow` |
| `Dispatcher` | both dispatchers | `On`, `Dispatch`, `Verifier`, `Lookup`, `Invoke`, `HandlerReturns`, `HandlerRaises`, `Interrupt`, `Finish` |
| `WebhookDelivery` | abstract: what the receiver promises the service and the handlers; `WebhookReceiver` implements it | `Post`, `TakeUp`, `Handle`, `Fail`, `Answer` |
| `WebhookReceiver` | view, parser and verifier, composed with `Dispatcher` by EXTENDS | `Post`, `Verify`, `RunHandlers`, `Answer`, `Register`, `Settle` |
| `DjangoWiring` | the cached singletons, the `ready()` hooks, the views' `get_client` and `get_dispatcher` | `Deployments`; per thread the steps that `functools.cache` leaves open to others |
| `WebhookEvents` | the models of all events and their parsers | `Parsers`, `ParsedBy(event)` |
| `SignedWebhooks` | `verify_signature` and `rotate_secret` against a gateway that signs | `RotateSecret`, `Retry`, `Return`, `Raise`, `Serve`, `Lose`, `Sign`, `Tick`; `VerifySignature` |
| `RequestModels` | every request model | `Build(model, args)`, `DumpFull`, `DumpSparse` |
| `Configuration` | `PSIPConfig`, `from_env`, the Django settings | `PSIPConfig(kwargs)`, `FromEnv`, `FromSettings` |
| `Checkout` | a consumer that configures a client, creates, recreates, verifies and refunds; over `RequestModels` and `Configuration` | `ConfigureFromEnv`, `ConfigureFromSettings`, `Connect`, `Create`, `Recreate`, `Pay`, `Verify`, `Refund`, `Submit` |
| `MC*` | instances for TLC | constants of the configurations |
| `*Proofs` | TLAPS proofs about the module of that name | |

How state and code correspond:

* `Transport`: `attempt` is the loop variable, `headers` the value of the
  Idempotency-Key header built before the loop, `response` the last response;
  `requests`, `replies` and `ledger` are messages in flight and what the gateway has
  carried out. `delays` and `sends` are history variables for the properties.
  A message that is never delivered is lost. A request stays deliverable after the
  client gave up on it; an answer on a connection that was left goes nowhere.
  The synchronous and the asynchronous loop are the same but for cancellation:
  `AsyncCalls` can be cancelled at either `await`. `Send` on a closed client is
  httpx's `RuntimeError`, which is no `httpx.RequestError`.
* `Resources`: one call of a method is `Invoke` (build the request model, call
  `request()`), then `Request` (its result), then `Answer` (`_parse_response`).
  `Sent(c)` is what `model_dump(exclude_none=True)`, a full `model_dump()` or a query
  with `if value:` leaves of the optional arguments; `Wire` what a Python value becomes.
  `Value(c, f)` is what a field is set to: `SubscriptionCancelRequest` alone, of the models
  of methods on an object, has defaults that are not None (`Defaulted`), so that
  `subscriptions.cancel` sends them always. `Asked(c)` counts them as decided by the call.
  The steps of `request()` are those of `RemoteOperation`, by INSTANCE, which
  `Transport` is proved to implement. No resource method takes an idempotency key, so
  every call is an operation of its own.
* `Pagination`: rows are numbered by creation; `results` is the page in hand;
  `ServedSize` is the size the server echoes, which may be smaller than the size asked for.
* `Dispatcher`: the `for` loop iterates the dispatcher's own list (`live`), so
  that a handler registered meanwhile is reached, unless the list did not exist at
  lookup, when `.get(type, [])` gives a list nothing is appended to. `Interrupt` is
  anything that is no `Exception`: cancellation, KeyboardInterrupt, SystemExit.
* `WebhookReceiver`: a step of a dispatch is a step of `Dispatcher`, with the
  free verdict of its `Verifier` tied to what `verify_event` makes of the server's
  record; `Answer` maps how the dispatch ended to the HTTP status.
* `DjangoWiring`: a call of a cached function is: look in the cache, run the function
  if it was empty, store. Other threads may come between any two of these. The
  default dispatcher's function calls `get_default_client` within. What a thread
  built bears the thread's name. `deployment` is chosen at the start: the
  settings, whether the app is installed, which handlers are registered in
  `ready()` and what each view was given by `as_view`. A request up to its
  `dispatch()` is one thread, and the dispatch one step (`Dispatcher` has the others).
* `SignedWebhooks`: time counts in ticks, of which `TICKS` make a second; the header
  has whole seconds. `VerifySignature` is a function of the stored secret, header,
  body and time, so that the properties quantify over all `Arrivals` of what was signed:
  the header cut short anywhere, joined with another delivery's, with a part of another
  kind appended, the body altered or garbled, at any time since. A digest is its secret, its time and its
  body (HMAC is taken to be ideal), or is not ASCII, which `compare_digest` refuses.
* `WebhookEvents`: a payload is its `event`, its `status` and the names of its fields; a
  model accepts it when it finds its required fields and its literals, and ignores others.
* `RequestModels`: a field is its type, range, step, default and whether it is
  lowered; a text is what it says, its length without blanks, whether it has any and
  whether it is in capitals. `Fill` is what pydantic makes of keywords,
  `Build` adds the check of `SubscriptionItemInput`.
* `Checkout`: `orders` is the gateway's, under the id as it was sent; `asked` is a
  history variable in the consumer's terms. `last` holds an answer for one step.
  Every call is carried out at once: lost answers and retries are matters of
  `Transport` and `Resources`.

Order of construction: the money path first (`HttpResponse`, `Transport`,
`RemoteOperation`), then `Dispatcher`, `Pagination`, `WebhookReceiver` over
`Dispatcher`, `Resources` over `RemoteOperation`, then `DjangoWiring`,
`SignedWebhooks` over `WebhookEvents`, and `Checkout` over `RequestModels` and
`Configuration`.

## Runs

State counts are distinct states.

| run | instance | what it shows |
|---|---|---|
| `transport_retry` (128 thousand) | an async POST and a GET, 2 retries, eight classes of response, close | `BudgetIsSpent`, `BackoffBetweenSends`, `FinalAnswerIsFinal`, `CallsRunOut`, `CallsEnd` |
| `transport_keys` (553 thousand) | three writes, two with the same pinned key, 1 retry, three classes of response | `AtMostOneEffect`, `DataIsBacked`, `ImplementsRemoteOperation` |
| `resources` (1.07 million) | an update, a cancellation and a listing of one subscription, one boolean and one string field | `TypeOK`, `NoLostUpdate`, `RefusedUnsent`, `ProtocolErrorMeansDone`, `ListedMatch` |
| `pagination` (1.78 million) | asked for 3 rows a page, served 2, from page 2, up to 7 rows | `NoneMissed`, `ExactWhileUnshifted`, `NoRequestPastTheEnd` |
| `dispatcher` (50 thousand, symmetric) | 2 deliveries, 3 handlers, 2 event types | `EveryHandlerRan`, `NoFailureSwallowed`, `VerifiedBeforeHandled`, `DispatchesRunOut` |
| `receiver` (183 thousand) | 2 requests, 2 handlers, 1 transaction, 7 bodies | `ReceiverTypeOK`, `HandledOnlyIfBacked`, `AckMeansHandled`, `GenuineNotRefused`, `EveryPostAnswered`, `DeliversAsPromised` |
| `django_wiring` (778 thousand, symmetric) | 2 registering threads, 2 requests, every deployment | `TypeOK`, `RegisteredHandlersRun`, `ParsedAndVerifiedAlike`, `WrongSettingsFailFast` |
| `signature` (498 thousand, symmetric) | 2 rotations of 2 attempts, 2 deliveries, 2 ticks a second, tolerance 1 s, clocks 1 tick apart, 4 ticks; 1092 payloads for the parsers | `AcceptedIsRecent`, `PromptIsAccepted`, `CurrentAfterRotation`, `UnderstoodAsAnnounced` |
| `checkout` (28 thousand) | 2 orders, one also spelled with blanks, 3 currencies, 4 amounts, every mix of sources of the configuration, every request model with every pair of its fields | `TypeOK`, `ConfiguredAsAsked`, `VerifiedAsAsked`, `ModeAsAsked`, `RefundedAsAsked`, `SameWhenRebuilt` |

Two properties bound how far a component can go on by itself. `StepsLeft` of `Transport`
and of `Dispatcher` is the number of steps a call or a dispatch can still make;
`CallsRunOut` and `DispatchesRunOut` say that each of its own steps takes from that number, which
stays natural, that nothing else gives a call more, and that only a registration gives a
dispatch more, two steps at most.

The type invariants of `Transport`, `Dispatcher`, `Pagination` and `SignedWebhooks`
are proved and not run again, nor is `RefusedUntouched`, which `DeliversAsPromised`
contains. Every property is shown to fail under a mutant of the code: a plausible
slip, written beside the definition it replaces and listed in `PROJECT.json`.

Why the bounds are enough. Two retries give a first, a middle and a last
attempt; the eight responses of `RichResponses` are one per path through
`HandleResponse` and the retry condition. What concerns keys needs two calls that
share one and a third that does not, and one retry, so that a request can overtake
its predecessor. Two deliveries show any pairwise interleaving, as deliveries
share nothing but the handler lists; three handlers give one before, one that
fails and one after. With seven rows and two a page the generator sees full, partial
and empty pages and rows move across both of its page boundaries. Two registering threads and
two requests make every race for a cache of two, and a third that looks later. Ticks
of half a second are enough for a time that is rounded down, a tolerance of one second for
both sides of the window; two rotations let one be disturbed by the other. The 1092 payloads are the 13 events with
every subset of the fields that some model requires and of `event_id`, and two statuses, as
far as they may be announced; which of them a delivery is of changes nothing but its digest,
so that the interleavings are those of two. Amounts
are zero, in cents, and not in cents; the parts of a refund reach and pass
the price. What a body is depends on one field at a time but for the check of
`items`, so that pairs of fields suffice. What no bound covers is in the theorems.

Deadlock is not checked: every one of these systems stops when all its calls are over.

### Violated statements

Three runs state a sentence of the source and show that the code does otherwise:

| run | statement | what the code does |
|---|---|---|
| `transport_network_error` | `transport.py:109`: PSIPNetworkError means the request never reached the server | a read timeout raises it too, after the gateway may have executed the request; repeating the call without a pinned key repeats the operation |
| `receiver_broken_body` | `views.py:30`: 400 for invalid JSON | bytes that are no UTF-8 raise UnicodeDecodeError: 500, and a redelivery |
| `wiring_process_wide` | `django/client.py:37`: a process-wide dispatcher | two threads that come first each build one; handlers registered on the one that loses are not called by requests |

The first concerns users most: the safe reaction to PSIPNetworkError is to ask, or
to repeat with the same key. The last cannot happen when the handlers are registered in
`ready()`, which `RegisteredHandlersRun` shows.

### Known divergences without a run

Met while modelling; the model follows the code.

* `transport.py:107` says all errors are PSIPErrors: a request on a client that another
  thread closed raises httpx's RuntimeError (`Send`).
* `transport.py:111` promises PSIPProtocolError for what is no envelope: a 2xx object
  with a `data` object and no `status` is accepted (`HasUsableData`).
* `dispatcher.py:88` says every registered handler is invoked: a handler left by a
  BaseException ends the dispatch and loses the errors collected so far (`Interrupt`).
* `transactions.py:55` says `iter_all` yields every matching transaction: a row that
  leaves the filter between two pages makes another be skipped. A loop over
  `verified=False` that verifies what it gets should collect the pages first.
* `views.py:83`: a view given a client but no dispatcher parses with the one and
  verifies with the default client. `ParsedAndVerifiedAlike` excepts that wiring.
* `django/settings.py:32` promises ImproperlyConfigured: an API key of None becomes
  `SecretStr(None)` and ends in an AttributeError. `ConfiguredAsAsked` excepts it.
* `config.py:91` says keywords override the environment: a malformed PSIP_TIMEOUT
  raises ValueError (`config.py:99`) even if a keyword replaces it.
* `config.py:56`: no resource reads `default_sandbox`; the models' own default is
  the sandbox.
* `models/verify.py` and `resources/verify.py` call `/verify` the dispatcher's guard
  against forgeries: `verify_event` asks `transactions.get`.
* `payments.py:106` announces the event payment.refunded: no model is its own.
  `UnderstoodAsAnnounced` says so.
* `models/webhook.py:18` says all payloads carry an `event` that tells them apart:
  `PaymentCompletedEvent` (`models/webhook.py:37`) does not look at it, so that any event
  with the five fields of a payment and the status "completed" is taken for
  payment.completed, one that another parser takes as well among them. `Announced` allows such
  events. What reaches the handlers is then up to the roundtrip verifier
  (`HandledOnlyIfBacked`); with `verify=False` nothing else tells them apart.
* `resources/subscriptions.py:66` sends `at_period_end` and `invoice_now` also when they
  were not given, as False (`models/subscription.py:115`), although the body is dumped with
  `exclude_none` like that of an update: a second `cancel()` that is not given
  `at_period_end` takes back the True of the first. `NoLostUpdate` counts every
  cancellation as one about both flags.
* `verify_signature` documents errors of the SDK only: a digest that is not ASCII leaves it
  with the TypeError of `hmac.compare_digest` (`verifier.py:95`), a body that is no UTF-8 with
  UnicodeDecodeError (`verifier.py:91`). Neither is let pass.
* `docs/webhooks.md` says webhooks are not signed: `verify_signature` exists, and no
  part of the SDK calls it.

## Fairness

Two runs check a liveness property.

`transport_retry` checks `CallsEnd`. `FairSpec`
assumes weak fairness of `Send`, `Wake` and of `Receive \/ RequestError`. A thread or task
that can run is run by the scheduler; a sleep ends; `config.timeout` is always
set (`transport.py:60`; an injected httpx client is taken to have a timeout as well), so that a wait for the network ends with an answer or a
timeout. Nothing is assumed of the gateway, the network, `Start`, `Close` or
`Cancel`: a gateway that never answers, and messages that are all lost, are behaviours
of `FairSpec`. httpx's timeout is per read; a server that sends one byte now and then
for ever is outside the model.

`receiver` checks `EveryPostAnswered`: whatever was posted is answered with some
status. `FairReceiverSpec` assumes weak fairness of `GoesOn(d)`, for each request: its
thread verifies, runs handlers and answers when it can. The verifier's GET ends by
`CallsEnd`, and a handler is taken to end, by returning or raising. Nothing
forces an interruption, so that progress is not owed to one, and nothing is assumed of
`Post`, `Register` and `Settle`: a payment that never settles is a behaviour.

## Proofs

All modules named `*Proofs` are checked by TLAPS without gaps. They hold for
any number of calls, keys, handlers, deliveries, rows and any policy.

* **Transport.** `TypeCorrect`. For `AtMostOneEffect` and `DataIsBacked` the
  inductive invariant is `TypeInv` with `KeyInv`: a call that has started and writes
  carries a key; a minted key is at most `minted` and belongs to one call; every request
  in flight and every ledger entry of a call bears the call's key; no two ledger
  entries share a key; and a 2xx answer to a write is preceded by an entry in the ledger.
  The properties alone are not inductive: they do not say which key a request in flight
  carries. `KeyIsOperation` then turns equal keys into equal operations and back.
  `BudgetRespected` and `FinalAnswersRespected` use `RetryInv`, which ties `sends` to
  `attempt` at each `pc`; `BackoffRespected` uses `BackoffInv`, in which `delays` is
  as long as the retries begun and each delay is the one `Backoff` gives for its place.
  `Refinement` shows that `Init` and every step map to `RemoteOperation`: `Execute` is
  `TakeEffect`, the ends of the loop are `Return` and `Raise`, the rest stutters.
  `CallsCannotGoOn` proves `CallsRunOut` step by step: a step of the call itself
  lowers `StepsLeft`, all others leave its `pc` and `attempt` alone.
* **Resources.** `ResInv`: types, `ControlInv` (what progress, effect and answer
  say about each other), and the two data properties, which are inductive given
  facts about the whole table of methods (`MethodsAreCareful`): what works on an object
  sends no null, and nothing it was not given unless it is `subscriptions.cancel`; what a
  listing is given it sends, but for empty strings.
* **Dispatcher.** `DispatchInv`: the part of the list already run is the prefix
  of the list the loop iterates, errors and failures agree, and each `pc` bears
  what the verdict was. `On` may come between any two steps; `OnKeepsInv` shows appending
  keeps prefixes. `DispatchesCannotGoOn` proves `DispatchesRunOut`; that what is not
  reached of a list is never negative (`UnreachedIsNat`) rests on the prefix of `DispatchInv`.
* **Pagination.** `Aligned`: while unshifted, what was yielded is a prefix of the
  rows from the first page on, up to page and position. It gives `Exact` and
  `StopsAtTheEnd`. For `NoRowMissed`, `Covered`: as long as no row left, a stable row not yet
  yielded is in the rest of the page in hand or, in the list, behind all pages fetched.
  Insertions in front only move rows back, which keeps it.
* **WebhookReceiver.** `DispatchesBehindView`: its steps are steps of `Dispatcher`
  or stutter, which carries `DispatchInv` over; `PathInv` follows one
  request through view, verifier, handlers and answer; `BackedStays` says that a
  recorded success is final. `ReceiverDelivers`: the receiver implements
  `WebhookDelivery`. `Lookup` is `TakeUp`, `Invoke` is `Handle`, `HandlerRaises`
  is `Fail`, `Settle` is `Record`, which may back any number of events at once; what the
  verifier and the loop do besides stutters. The mapping
  needs `EndInv`, which is inductive with `PathInv`: a request that was answered is at rest,
  one that is done has an outcome, and what the verifier stopped was to be verified and
  has given nothing to a handler; without it a late step of an answered request, or a
  403 after a handler ran, could not be excluded.
* **DjangoWiring.** `HookInv` says that of the `ready()` hooks one is at work at a
  time and that no other thread starts before all are done; it gives
  `WrongSettingsFailFast`. `WiringInv`, where at least one handler is registered in
  `ready()` as documented: only a hook builds a dispatcher, nobody else does anything
  meanwhile, and from the first registration on the cached dispatcher verifies with the
  cached client and has every handler registered. It gives `RegisteredHandlersRun` and
  `ParsedAndVerifiedAlike`, and the theorem `NeverReplaced`, which no run checks:
  neither singleton, once cached, is replaced.
* **SignedWebhooks.** `AloneInv`: a rotation that began undisturbed is the only one
  with requests under way; what was issued for its key, which all its attempts bear, is
  the gateway's newest secret. Together with `CallInv` (nothing is issued for a call
  that did not begin, nothing answered before it is issued) it is inductive and gives
  `RotationKeepsInStep`. `OnlyRecentPasses` and `PromptPasses` are arithmetic over the
  header's seconds, for all tolerances and resolutions, from what the parser makes of
  joined and cut headers. `TakenAsAnnounced` goes through the models: the literals of
  their events are disjoint, and payment_completed, the one without, takes just what
  `SaysCompleted`, so that nothing announced is `Misread`.
  `RotationRefines`: calls of rotate_secret implement `RemoteOperation`, with the secrets
  issued for a call's keys as its effects. That these are never two is `FirstKeysOnly`:
  what was issued was issued for the key of the first attempt.
* **Checkout.** `OrderInv`: what the gateway keeps of an order agrees with what was
  asked for, field by field; the currency kept is what `Normalise` makes of one that
  was given; an order has one key, so that a change under a key is one of that order only
  (`OneKey`), and no order asked for is without one. The properties alone are not
  inductive: `VerifiedAsAsked` needs that two spellings of a currency are sent alike just when
  they are the same currency (`SameCurrency`), `RefundedAsAsked` that an amount that
  is accepted is in whole cents. `ConfiguredFrom` gives `ConfiguredAsAsked`. `RebuiltAlways` is about all models at once:
  a field that was given a value keeps it when the body is taken for keywords again
  (`Normalise` and the dump are idempotent on what they return), one that was left out is
  left out or has its default, and so the check of `items` finds what it found.

Assumptions, each an ASSUME of its module or built into it:

* keys uuid4 mints are fresh and differ from keys that callers pin; a caller pins
  a key that is not empty (`if idempotency_key` is false for `""`);
* the gateway executes requests with one key once and answers a repetition
  without repeating it; this is what the SDK's retries rely on and not part of
  this repository;
* the server's page `p` is a slice of its rows at the time of the request, and a
  page past the end is empty;
* a transaction recorded as succeeded stays so, and the verifier's GET reads the
  record at one moment, together with its verdict;
* an update of an object sets the fields it sends and keeps the others;
* `functools.cache` stores what its function returned, and nothing if it raised; Django
  runs the `ready()` hooks in one thread before it serves requests;
* a digest fits only the secret, time and body it was made of; clocks differ by at
  most `SKEW`; the gateway rotates a secret once per key;
* the gateway announces payments with what `SaysCompleted` asks, refunds in any form, and
  the events of the models with at least the fields they require (`BodyAssumption`); any of
  them may have any other field, status and value;
* the values tried on a field are values of its type, and a field without a default has a
  value it takes (`SamplesAssumption`);
* texts that say the same have the same length, and order ids that differ in capitals
  are different orders; mappings have no fields the configuration does not know.

Only model-checked: `CallsEnd` and `EveryPostAnswered`, and the violated statements. For
the two liveness properties the part that is about single steps is proved,
`CallsRunOut` and `DispatchesRunOut`: nothing goes round for ever. What is left is that
a step that is enabled is taken, which needs fairness and ENABLED, and these are out of
the prover's reach. Every other property the passing runs check is stated by a theorem.

## Not modelled

* Messages, raw bodies, request ids, URLs, headers other than the idempotency
  key: no control flow depends on them.
* Redirects are a class of response (302, not followed: PSIPAPIError), without a
  property of their own.
* The fields of the response models: they keep no state and have no checks of their
  own; that data fits or not is a choice (`Resources`). Exceptions' messages and
  payloads: nothing in the SDK reads them.
* `max_digits` of amounts, and the syntax of urls, e-mail addresses and enumerations: a
  value is one pydantic takes or does not.
* A misspelt keyword of a model is ignored by pydantic's default, and an empty string as
  filter is dropped: the first is outside every call the SDK types, the second is by
  design and named in `ListedMatch`.
* Life cycles of the gateway's objects: they are the gateway's.
* Which of two concurrent updates of one field wins: requests carry no version,
  and the SDK promises nothing.
* A dispatch answered 500 runs again the handlers that had succeeded, and so does a
  signed delivery that is repeated within the tolerance: the SDK keeps no record of
  handled events, so that handlers must be idempotent.
* Who closes an injected transport: `close()` of a facade closes it in any case, one
  assignment with nothing to go wrong but for the calls still running, which
  `Transport` has.

----------------------------- MODULE Transport -----------------------------
(***************************************************************************)
(* `Transport.request' and `AsyncTransport.request' (transport.py): the    *)
(* retry loop, its idempotency key, its backoff, and everything that can   *)
(* happen to it between two of its steps -- another thread closing the     *)
(* client, a cancelled task, an answer that is late, lost or an error page *)
(* of an intermediary, a request that is executed after the client gave    *)
(* up on it.                                                               *)
(*                                                                         *)
(* Several calls run concurrently on ONE transport.  The gateway is not    *)
(* part of the repository: it is modelled from how the SDK relies on it    *)
(* (two requests with one Idempotency-Key are one call).  A message that   *)
(* is lost is a message that is never delivered.                           *)
(***************************************************************************)
EXTENDS HttpResponse, Sequences, FiniteSets

CONSTANTS
    Calls,           \* the calls of request() made on this transport
    Method,          \* the HTTP method of each call
    CallerKeys,      \* the idempotency keys callers may pin
    IdempotencyKey,  \* the key each call pins, or None
    AsyncCalls,      \* the calls made on AsyncTransport: they can be cancelled
    MaxRetries,      \* RetryPolicy.max_retries
    RetryOnStatus,   \* RetryPolicy.retry_on_status
    Responses,       \* the responses the gateway and the proxies can give
    None

MutatingMethods == {"POST", "PUT", "PATCH", "DELETE"}

(* RetryPolicy bounds max_retries to 0..10; nothing below needs the 10.    *)
ASSUME PolicyAssumption ==
    /\ MaxRetries \in Nat
    /\ RetryOnStatus \subseteq Nat

ASSUME CallsAssumption ==
    /\ AsyncCalls \subseteq Calls
    /\ Method \in [Calls -> MutatingMethods \cup {"GET"}]
    /\ IdempotencyKey \in [Calls -> CallerKeys \cup {None}]
    /\ Responses \subseteq AllResponses

(* Keys callers pin are not keys uuid4 mints, and operations named by a    *)
(* pinned key are not operations named by a call.                          *)
ASSUME KeysAssumption ==
    /\ CallerKeys \cap Nat = {}
    /\ CallerKeys \cap Calls = {}
    /\ None \notin CallerKeys \cup Nat \cup Outcomes \cup Responses

VARIABLES
    pc,         \* where each call is in request()
    attempt,    \* the loop variable
    headers,    \* the Idempotency-Key header, None when there is none
    response,   \* the last response received, None before any
    outcome,    \* what request() returned or raised, None before it did
    delays,     \* history: n for each sleep of backoff_factor * 2^n
    sends,      \* history: how many requests the call put on the wire
    minted,     \* how many UUIDs were drawn; the n-th one is the number n
    closed,     \* the httpx client was closed
    requests,   \* requests on their way to the gateway
    replies,    \* answers on their way back, on connections still open
    ledger      \* the requests the gateway carried out

localVars == <<pc, attempt, headers, response, outcome, delays, sends, minted>>
vars == <<localVars, closed, requests, replies, ledger>>

Mutating(c) == Method[c] \in MutatingMethods

(* The business operation a call stands for: calls that pin one key retry  *)
(* one operation, any other call is an operation of its own.               *)
Operation(c) == IF IdempotencyKey[c] = None THEN c ELSE IdempotencyKey[c]

Keys == Nat \cup CallerKeys \cup {None}

Requests == [call : Calls, attempt : Nat, key : Keys]

Replies == [call : Calls, attempt : Nat, response : Responses]

TypeOK ==
    /\ pc \in [Calls -> {"idle", "send", "wait", "sleep", "done"}]
    /\ attempt \in [Calls -> 0..MaxRetries]
    /\ headers \in [Calls -> Keys]
    /\ response \in [Calls -> Responses \cup {None}]
    /\ outcome \in [Calls -> Outcomes \cup {None}]
    /\ delays \in [Calls -> Seq(Nat)]
    /\ sends \in [Calls -> Nat]
    /\ minted \in Nat
    /\ closed \in BOOLEAN
    /\ requests \subseteq Requests
    /\ replies \subseteq Replies
    /\ ledger \subseteq Requests

Init ==
    /\ pc = [c \in Calls |-> "idle"]
    /\ attempt = [c \in Calls |-> 0]
    /\ headers = [c \in Calls |-> None]
    /\ response = [c \in Calls |-> None]
    /\ outcome = [c \in Calls |-> None]
    /\ delays = [c \in Calls |-> << >>]
    /\ sends = [c \in Calls |-> 0]
    /\ minted = 0
    /\ closed = FALSE
    /\ requests = {}
    /\ replies = {}
    /\ ledger = {}
-----------------------------------------------------------------------------
(* The SDK.                                                                *)

(* Mutated form: the key the caller pins is ignored.                       *)
MintsAlways(c) == Mutating(c)

MintsKey(c) == Mutating(c) /\ IdempotencyKey[c] = None

IdempotencyHeaders(c) ==
    IF MintsKey(c) THEN minted + 1
    ELSE IF Mutating(c) THEN IdempotencyKey[c] ELSE None

(* request() is called: the headers are built once, before the loop.       *)
Start(c) ==
    /\ pc[c] = "idle"
    /\ headers' = [headers EXCEPT ![c] = IdempotencyHeaders(c)]
    /\ minted' = IF MintsKey(c) THEN minted + 1 ELSE minted
    /\ pc' = [pc EXCEPT ![c] = "send"]
    /\ UNCHANGED <<attempt, response, outcome, delays, sends,
                   closed, requests, replies, ledger>>

(* Mutated form: the header is built inside the loop, a new key each time. *)
RequestWithNewKey(c) ==
    [call |-> c, attempt |-> attempt[c],
     key |-> IF MintsKey(c) THEN 100 * headers[c] + attempt[c] ELSE headers[c]]

RequestOf(c) == [call |-> c, attempt |-> attempt[c], key |-> headers[c]]

Finish(c, result) ==
    /\ pc' = [pc EXCEPT ![c] = "done"]
    /\ outcome' = [outcome EXCEPT ![c] = result]

(* Mutated form: the last failure is waited for as well.                   *)
BackoffTwice(c) ==
    /\ pc' = [pc EXCEPT ![c] = "sleep"]
    /\ delays' = [delays EXCEPT ![c] = @ \o <<attempt[c], attempt[c]>>]

(* time.sleep / asyncio.sleep of backoff_factor * 2^attempt.               *)
Backoff(c) ==
    /\ pc' = [pc EXCEPT ![c] = "sleep"]
    /\ delays' = [delays EXCEPT ![c] = Append(@, attempt[c])]

(* self._client.request(...): httpx refuses to send on a closed client     *)
(* with a RuntimeError, which `except httpx.RequestError' lets through.    *)
Send(c) ==
    /\ pc[c] = "send"
    /\ IF closed
       THEN /\ Finish(c, "RuntimeError")
            /\ UNCHANGED <<requests, sends>>
       ELSE /\ requests' = requests \cup {RequestOf(c)}
            /\ sends' = [sends EXCEPT ![c] = @ + 1]
            /\ pc' = [pc EXCEPT ![c] = "wait"]
            /\ UNCHANGED outcome
    /\ UNCHANGED <<attempt, headers, response, delays, minted,
                   closed, replies, ledger>>

(* Mutated forms: one attempt fewer, one more than the policy allows.      *)
RetryOneFewer(c) == attempt[c] + 1 < MaxRetries

RetryOneMore(c) == attempt[c] <= MaxRetries

RetriesLeft(c) == attempt[c] < MaxRetries

(* Mutated form: any answer but a 2xx is retried.                          *)
RetryAllErrors(r) == ~IsSuccess(r)

RetryStatus(r) == r.status \in RetryOnStatus

HangUp(c) == replies' = {m \in replies : m.call # c}

(* The gateway's answer arrives on the connection the call waits on.       *)
Receive(c) ==
    /\ pc[c] = "wait"
    /\ \E m \in replies :
          /\ m.call = c
          /\ response' = [response EXCEPT ![c] = m.response]
          /\ IF RetryStatus(m.response) /\ RetriesLeft(c)
             THEN Backoff(c) /\ UNCHANGED outcome
             ELSE Finish(c, HandleResponse(m.response)) /\ UNCHANGED delays
    /\ HangUp(c)
    /\ UNCHANGED <<attempt, headers, sends, minted, closed, requests, ledger>>

(* Mutated form: httpx has no timeout, only a broken connection ends a     *)
(* wait.                                                                   *)
FailsWhenBroken(c) == pc[c] = "wait" /\ closed

MayFail(c) == pc[c] = "wait"

(* httpx.RequestError: no connection, a read timeout, a reset, ...  The    *)
(* request may or may not have reached the gateway, and may still do so.   *)
RequestError(c) ==
    /\ MayFail(c)
    /\ IF RetriesLeft(c)
       THEN Backoff(c) /\ UNCHANGED outcome
       ELSE Finish(c, "PSIPNetworkError") /\ UNCHANGED delays
    /\ HangUp(c)
    /\ UNCHANGED <<attempt, headers, response, sends, minted,
                   closed, requests, ledger>>

(* The sleep ends and the loop goes round.                                 *)
Wake(c) ==
    /\ pc[c] = "sleep"
    /\ attempt' = [attempt EXCEPT ![c] = @ + 1]
    /\ pc' = [pc EXCEPT ![c] = "send"]
    /\ UNCHANGED <<headers, response, outcome, delays, sends, minted,
                   closed, requests, replies, ledger>>

(* The task that awaits a call of AsyncTransport is cancelled.  It can be  *)
(* at either await of the loop; CancelledError is no httpx.RequestError.   *)
Cancel(c) ==
    /\ c \in AsyncCalls
    /\ pc[c] \in {"wait", "sleep"}
    /\ Finish(c, "CancelledError")
    /\ HangUp(c)
    /\ UNCHANGED <<attempt, headers, response, delays, sends, minted,
                   closed, requests, ledger>>

(* close() / aclose(), by any thread or task, at any time.  Connections    *)
(* in use break: the calls waiting on them go on with RequestError.        *)
Close ==
    /\ ~closed
    /\ closed' = TRUE
    /\ replies' = {}
    /\ UNCHANGED <<localVars, requests, ledger>>
-----------------------------------------------------------------------------
(* The gateway and the network (external).                                 *)

Waiting(m) == pc[m.call] = "wait" /\ attempt[m.call] = m.attempt

(* An answer to a connection the client has left goes nowhere.             *)
Answer(m, r) ==
    /\ requests' = requests \ {m}
    /\ replies' = IF Waiting(m) /\ ~closed
                  THEN replies \cup {[call |-> m.call, attempt |-> m.attempt,
                                      response |-> r]}
                  ELSE replies

Known(m) == m.key # None /\ \E e \in ledger : e.key = m.key

(* What a client may see of a request that was carried out: the answer,    *)
(* however malformed, or a 5xx of the gateway or of a proxy.               *)
ServedResponses == {r \in Responses : IsSuccess(r) \/ r.status \in 500..599}

Execute(m) ==
    /\ Mutating(m.call) /\ ~Known(m)
    /\ ledger' = ledger \cup {m}
    /\ \E r \in ServedResponses : Answer(m, r)
    /\ UNCHANGED <<localVars, closed>>

(* A read, or a request whose key was executed before: the effect is not   *)
(* repeated.                                                               *)
Serve(m) ==
    /\ ~Mutating(m.call) \/ Known(m)
    /\ \E r \in ServedResponses : Answer(m, r)
    /\ UNCHANGED <<localVars, closed, ledger>>

(* An error or a redirect, from the gateway or a proxy, without effect.    *)
Reject(m) ==
    /\ \E r \in Responses : ~IsSuccess(r) /\ Answer(m, r)
    /\ UNCHANGED <<localVars, closed, ledger>>
-----------------------------------------------------------------------------
SDKStep(c) ==
    \/ Start(c) \/ Send(c) \/ Receive(c) \/ RequestError(c)
    \/ Wake(c) \/ Cancel(c)

Gateway == \E m \in requests : Execute(m) \/ Serve(m) \/ Reject(m)

Next == (\E c \in Calls : SDKStep(c)) \/ Close \/ Gateway

Spec == Init /\ [][Next]_vars

(* A thread or task that can run does, and config.timeout ends every wait  *)
(* for the network.  Nothing makes the gateway answer.                     *)
Fairness ==
    \A c \in Calls : /\ WF_vars(Send(c))
                     /\ WF_vars(Receive(c) \/ RequestError(c))
                     /\ WF_vars(Wake(c))

FairSpec == Spec /\ Fairness
-----------------------------------------------------------------------------
(* Properties.                                                             *)

(* However requests and answers are lost, delayed or overtaken by retries, *)
(* and whichever calls the SDK or the caller retries, an operation takes   *)
(* effect at most once: the retry loop sends one key, and two operations   *)
(* never share one.                                                        *)
AtMostOneEffect ==
    \A e1, e2 \in ledger :
        Operation(e1.call) = Operation(e2.call) => e1 = e2

(* request() returns data for a mutating call only if the gateway carried  *)
(* out THIS operation: no error page is taken for an answer, and no key    *)
(* makes the gateway answer with another operation's result.               *)
DataIsBacked ==
    \A c \in Calls : Mutating(c) /\ outcome[c] = "Data" =>
        \E e \in ledger : Operation(e.call) = Operation(c)

(* A failure that a retry could mend -- a network error, a status of       *)
(* retry_on_status -- reaches the caller only when max_retries + 1         *)
(* requests were sent, and no call ever sends more.                        *)
BudgetIsSpent ==
    \A c \in Calls :
        /\ sends[c] <= MaxRetries + 1
        /\ \/ outcome[c] = "PSIPNetworkError"
           \/ pc[c] = "done" /\ outcome[c] \in APIErrors
                             /\ response[c].status \in RetryOnStatus
           => sends[c] = MaxRetries + 1

(* Between two requests of a call lies exactly one sleep, twice as long as *)
(* the one before; a call that is over has not slept after its last try    *)
(* unless it was interrupted in that sleep.                                *)
BackoffBetweenSends ==
    \A c \in Calls :
        /\ delays[c] = [i \in 1..Len(delays[c]) |-> i - 1]
        /\ pc[c] = "wait" => sends[c] = Len(delays[c]) + 1
        /\ pc[c] = "done" /\ outcome[c] \notin {"RuntimeError", "CancelledError"}
           => sends[c] = Len(delays[c]) + 1

(* Once a call has received an answer that is not to be retried, it sends  *)
(* nothing any more: a 4xx or a 2xx, however unusable, is the last word.   *)
FinalAnswerIsFinal ==
    [][\A c \in Calls :
          response[c] # None /\ response[c].status \notin RetryOnStatus
          => sends'[c] = sends[c]]_vars

(* Every call that is made ends: no wait of the loop is without an end.    *)
CallsEnd == \A c \in Calls : pc[c] = "send" ~> pc[c] = "done"

(* How many steps a call can still make: three for each attempt left, and  *)
(* one to begin.                                                           *)
StepsLeft(c) ==
    IF pc[c] = "done" THEN 0
    ELSE IF pc[c] = "idle" THEN 3 * MaxRetries + 4
    ELSE 3 * (MaxRetries - attempt[c])
         + (IF pc[c] = "send" THEN 3 ELSE IF pc[c] = "wait" THEN 2 ELSE 1)

(* No call is without an end: each of its steps uses one of those up, and  *)
(* nothing that closes the client, answers or is done for another call     *)
(* gives it more.                                                          *)
CallsRunOut ==
    [][\A c \in Calls :
          /\ StepsLeft(c)' <= StepsLeft(c)
          /\ SDKStep(c) => StepsLeft(c)' \in 0..StepsLeft(c) - 1]_vars

(* transport.py:109: request() raises PSIPNetworkError "if the request     *)
(* never reached the server (after retries)".                              *)
NetworkErrorMeansUnreached ==
    \A c \in Calls : outcome[c] = "PSIPNetworkError" =>
        \A e \in ledger : e.call # c
-----------------------------------------------------------------------------
(* The refinement of RemoteOperation.                                      *)

Operations == Calls \cup CallerKeys

Writes == {c \in Calls : Mutating(c)}

OperationOf == [c \in Calls |-> Operation(c)]

Result(c) ==
    IF pc[c] = "idle" THEN "none"
    ELSE IF pc[c] # "done" THEN "pending"
    ELSE IF outcome[c] = "Data" THEN "data" ELSE "error"

ResultOf == [c \in Calls |-> Result(c)]

EffectsOf ==
    [o \in Operations |-> Cardinality({e \in ledger : Operation(e.call) = o})]

Abstract == INSTANCE RemoteOperation
    WITH result <- ResultOf, effects <- EffectsOf

(* transport.py implements RemoteOperation: seen from outside, a call with *)
(* all its retries is one step that asks, at most one effect at a time of  *)
(* its own, and one step that answers.                                     *)
ImplementsRemoteOperation == Abstract!Spec
=============================================================================

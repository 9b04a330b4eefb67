-------------------------- MODULE TransportProofs --------------------------
(***************************************************************************)
(* What holds of Transport for every set of calls, every retry policy and  *)
(* every set of responses.                                                 *)
(***************************************************************************)
EXTENDS Transport, FiniteSetTheorems, SequenceTheorems, TLAPS

(* TypeOK is inductive with one more fact: a call sleeps only while it has *)
(* a retry left, so that waking keeps `attempt' in its range.              *)
TypeInv ==
    /\ TypeOK
    /\ \A c \in Calls : pc[c] = "sleep" => RetriesLeft(c)

(* Whatever the response, _handle_response returns data or raises an error *)
(* of the SDK.                                                             *)
LEMMA HandleResponseType ==
    ASSUME NEW r
    PROVE  HandleResponse(r) \in Outcomes
<1>1. ClassifyError(r.status) \in APIErrors
  BY DEF ClassifyError, APIErrors
<1> QED
  BY <1>1 DEF HandleResponse, Outcomes, Errors

(* _handle_response never takes an answer that is no 2xx for data.         *)
LEMMA DataOnlyFromSuccess ==
    ASSUME NEW r, HandleResponse(r) = "Data"
    PROVE  IsSuccess(r)
<1>1. ClassifyError(r.status) # "Data"
  BY DEF ClassifyError
<1> QED
  BY <1>1 DEF HandleResponse

(* An answer, whatever it says, is never reported as a network error.      *)
LEMMA AnswerIsNoNetworkError ==
    ASSUME NEW r
    PROVE  HandleResponse(r) # "PSIPNetworkError"
<1>1. ClassifyError(r.status) # "PSIPNetworkError"
  BY DEF ClassifyError
<1> QED
  BY <1>1 DEF HandleResponse

LEMMA KeyTypes ==
    ASSUME TypeOK, NEW c \in Calls
    PROVE  IdempotencyHeaders(c) \in Keys
  BY CallsAssumption DEF TypeOK, IdempotencyHeaders, MintsKey, Keys

LEMMA BackoffType ==
    ASSUME TypeOK, NEW c \in Calls, Backoff(c)
    PROVE  /\ delays' \in [Calls -> Seq(Nat)]
           /\ pc' = [pc EXCEPT ![c] = "sleep"]
<1>1. delays[c] \in Seq(Nat) /\ attempt[c] \in Nat
  BY PolicyAssumption DEF TypeOK
<1>2. Append(delays[c], attempt[c]) \in Seq(Nat)
  BY <1>1
<1> QED
  BY <1>2 DEF TypeOK, Backoff

LEMMA FinishType ==
    ASSUME TypeOK, NEW c \in Calls, NEW o \in Outcomes, Finish(c, o)
    PROVE  /\ outcome' \in [Calls -> Outcomes \cup {None}]
           /\ pc' = [pc EXCEPT ![c] = "done"]
  BY DEF TypeOK, Finish

LEMMA TypeInvInductive ==
    ASSUME TypeInv, [Next]_vars
    PROVE  TypeInv'
<1> USE PolicyAssumption, CallsAssumption DEF TypeInv, TypeOK, RetriesLeft
<1>1. ASSUME NEW c \in Calls, Start(c) PROVE TypeInv'
  BY <1>1, KeyTypes DEF Start
<1>2. ASSUME NEW c \in Calls, Send(c) PROVE TypeInv'
  <2>1. RequestOf(c) \in Requests
    BY DEF RequestOf, Requests
  <2>2. "RuntimeError" \in Outcomes
    BY DEF Outcomes, Errors
  <2>3. UNCHANGED <<attempt, headers, response, delays, minted,
                    closed, replies, ledger>>
    BY <1>2 DEF Send
  <2>4. CASE closed
    <3>1. Finish(c, "RuntimeError") /\ UNCHANGED <<requests, sends>>
      BY <1>2, <2>4 DEF Send
    <3> QED
      BY <3>1, <2>2, <2>3, FinishType
  <2>5. CASE ~closed
    <3>1. /\ requests' = requests \cup {RequestOf(c)}
          /\ sends' = [sends EXCEPT ![c] = @ + 1]
          /\ pc' = [pc EXCEPT ![c] = "wait"]
          /\ UNCHANGED outcome
      BY <1>2, <2>5 DEF Send
    <3>2. sends' \in [Calls -> Nat]
      BY <3>1
    <3>3. requests' \subseteq Requests
      BY <3>1, <2>1
    <3> QED
      BY <3>1, <3>2, <3>3, <2>3
  <2> QED
    BY <2>4, <2>5
<1>3. ASSUME NEW c \in Calls, Receive(c) PROVE TypeInv'
  <2>1. PICK m \in replies :
          /\ m.call = c
          /\ response' = [response EXCEPT ![c] = m.response]
          /\ IF RetryStatus(m.response) /\ RetriesLeft(c)
             THEN Backoff(c) /\ UNCHANGED outcome
             ELSE Finish(c, HandleResponse(m.response)) /\ UNCHANGED delays
    BY <1>3 DEF Receive
  <2>2. m.response \in Responses
    BY DEF Replies
  <2>3. HandleResponse(m.response) \in Outcomes
    BY HandleResponseType
  <2>4. /\ replies' \subseteq Replies
        /\ UNCHANGED <<attempt, headers, sends, minted, closed, requests, ledger>>
    BY <1>3 DEF Receive, HangUp
  <2>5. CASE RetryStatus(m.response) /\ RetriesLeft(c)
    BY <2>1, <2>2, <2>4, <2>5, BackoffType
  <2>6. CASE ~(RetryStatus(m.response) /\ RetriesLeft(c))
    BY <2>1, <2>2, <2>3, <2>4, <2>6, FinishType
  <2> QED
    BY <2>5, <2>6
<1>4. ASSUME NEW c \in Calls, RequestError(c) PROVE TypeInv'
  <2>1. "PSIPNetworkError" \in Outcomes
    BY DEF Outcomes, Errors
  <2>2. replies' \subseteq Replies
    BY <1>4 DEF RequestError, HangUp
  <2>3. CASE RetriesLeft(c)
    BY <1>4, <2>2, <2>3, BackoffType DEF RequestError
  <2>4. CASE ~RetriesLeft(c)
    BY <1>4, <2>1, <2>2, <2>4, FinishType DEF RequestError
  <2> QED
    BY <2>3, <2>4
<1>5. ASSUME NEW c \in Calls, Wake(c) PROVE TypeInv'
  BY <1>5 DEF Wake
<1>6. ASSUME NEW c \in Calls, Cancel(c) PROVE TypeInv'
  BY <1>6 DEF Cancel, Finish, HangUp, Outcomes, Errors
<1>7. CASE Close
  BY <1>7 DEF Close, localVars
<1>8. ASSUME NEW m \in requests, Execute(m) \/ Serve(m) \/ Reject(m)
      PROVE  TypeInv'
  <2>1. \A r \in Responses :
          [call |-> m.call, attempt |-> m.attempt, response |-> r] \in Replies
    BY DEF Requests, Replies
  <2>2. replies' \subseteq Replies /\ requests' \subseteq Requests
    BY <1>8, <2>1 DEF Execute, Serve, Reject, Answer, ServedResponses
  <2>3. ledger' \subseteq Requests
    BY <1>8 DEF Execute, Serve, Reject
  <2>4. UNCHANGED <<localVars, closed>>
    BY <1>8 DEF Execute, Serve, Reject
  <2> QED
    BY <2>2, <2>3, <2>4 DEF localVars
<1>9. CASE UNCHANGED vars
  BY <1>9 DEF vars, localVars
<1> QED
  BY <1>1, <1>2, <1>3, <1>4, <1>5, <1>6, <1>7, <1>8, <1>9
  DEF Next, SDKStep, Gateway

LEMMA InitTypeInv ==
    ASSUME Init PROVE TypeInv
<1>1. None \in Keys /\ 0 \in 0..MaxRetries
  BY PolicyAssumption DEF Keys
<1>2. << >> \in Seq(Nat)
  OBVIOUS
<1>3. delays \in [Calls -> Seq(Nat)]
  BY <1>2 DEF Init
<1> QED
  BY <1>1, <1>3 DEF Init, TypeInv, TypeOK, RetriesLeft

LEMMA AlwaysTypeInv == Spec => []TypeInv
  BY InitTypeInv, TypeInvInductive, PTL DEF Spec

(* The state of every call, message and account keeps its type.            *)
THEOREM TypeCorrect == Spec => []TypeOK
<1>1. TypeInv => TypeOK
  BY DEF TypeInv
<1> QED
  BY <1>1, AlwaysTypeInv, PTL
-----------------------------------------------------------------------------
(* At most one effect per operation, and no data without it.  Neither is   *)
(* inductive: that a retry is recognised rests on every message of a call  *)
(* carrying the key its headers were built with, on minted keys differing  *)
(* from each other and from the callers' keys, and on the gateway's ledger *)
(* holding one entry per key.                                              *)

Started(c) == pc[c] # "idle"

Backed(c) == \E e \in ledger : e.key = headers[c]

KeysBuilt ==
    \A c \in Calls : Started(c) =>
        /\ MintsKey(c) => headers[c] \in 1..minted
        /\ Mutating(c) /\ ~MintsKey(c) => headers[c] = IdempotencyKey[c]

MintedKeysDiffer ==
    \A c, d \in Calls :
        /\ Started(c) /\ MintsKey(c)
        /\ Started(d) /\ MintsKey(d)
        /\ headers[c] = headers[d]
        => c = d

MessagesCarryKey ==
    \A m \in requests \cup ledger :
        Started(m.call) /\ m.key = headers[m.call]

LedgerKeysDiffer ==
    /\ \A e \in ledger : Mutating(e.call)
    /\ \A e1, e2 \in ledger : e1.key = e2.key => e1 = e2

SuccessIsBacked ==
    /\ \A m \in replies :
          /\ Started(m.call)
          /\ Mutating(m.call) /\ IsSuccess(m.response) => Backed(m.call)
    /\ \A c \in Calls : Mutating(c) /\ outcome[c] = "Data" =>
          Started(c) /\ Backed(c)

KeyInv ==
    /\ TypeInv
    /\ KeysBuilt
    /\ MintedKeysDiffer
    /\ MessagesCarryKey
    /\ LedgerKeysDiffer
    /\ SuccessIsBacked

(* Two mutating calls send one key exactly if they stand for one operation.*)
LEMMA KeyIsOperation ==
    ASSUME KeysBuilt, MintedKeysDiffer, TypeOK,
           NEW c \in Calls, NEW d \in Calls,
           Started(c), Started(d), Mutating(c), Mutating(d)
    PROVE  headers[c] = headers[d] <=> Operation(c) = Operation(d)
<1> USE KeysAssumption, CallsAssumption DEF MintsKey, Operation
<1>1. CASE MintsKey(c) /\ MintsKey(d)
  BY <1>1 DEF MintedKeysDiffer
<1>2. CASE ~MintsKey(c) /\ ~MintsKey(d)
  BY <1>2 DEF KeysBuilt
<1>3. ASSUME NEW a \in Calls, NEW b \in Calls, Started(a), Started(b),
             Mutating(a), Mutating(b), MintsKey(a), ~MintsKey(b)
      PROVE  headers[a] # headers[b] /\ Operation(a) # Operation(b)
  <2>1. headers[a] \in Nat /\ headers[b] \in CallerKeys
    BY <1>3 DEF KeysBuilt, TypeOK
  <2>2. Operation(a) \in Calls /\ Operation(b) \in CallerKeys
    BY <1>3
  <2> QED
    BY <2>1, <2>2
<1> QED
  BY <1>1, <1>2, <1>3

LEMMA KeyNotNone ==
    ASSUME KeysBuilt, TypeOK, NEW c \in Calls, Started(c), Mutating(c)
    PROVE  headers[c] # None
<1>1. CASE MintsKey(c)
  <2>1. headers[c] \in 1..minted
    BY <1>1 DEF KeysBuilt
  <2> QED
    BY <2>1, KeysAssumption DEF TypeOK
<1>2. CASE ~MintsKey(c)
  BY <1>2 DEF KeysBuilt, MintsKey
<1> QED
  BY <1>1, <1>2

LEMMA InitKeyInv ==
    ASSUME Init PROVE KeyInv
  BY InitTypeInv, KeysAssumption
  DEF Init, Outcomes, KeyInv, KeysBuilt, MintedKeysDiffer, MessagesCarryKey,
      LedgerKeysDiffer, SuccessIsBacked, Started

LEMMA StartKeyInv ==
    ASSUME KeyInv, TypeInv', NEW c \in Calls, Start(c)
    PROVE  KeyInv'
<1> USE DEF KeyInv, TypeInv
<1>1. /\ ~Started(c)
      /\ pc' = [pc EXCEPT ![c] = "send"]
      /\ headers' = [headers EXCEPT ![c] = IdempotencyHeaders(c)]
      /\ minted' = IF MintsKey(c) THEN minted + 1 ELSE minted
      /\ UNCHANGED <<outcome, requests, replies, ledger>>
  BY DEF Start, Started
<1>2. \A d \in Calls \ {c} : headers'[d] = headers[d] /\ pc'[d] = pc[d]
  BY <1>1 DEF TypeOK
<1>3. headers'[c] = IdempotencyHeaders(c) /\ pc'[c] = "send"
  BY <1>1 DEF TypeOK
<1>4. minted \in Nat /\ minted' \in Nat /\ minted' >= minted
  BY <1>1 DEF TypeOK
<1>5. KeysBuilt'
  BY <1>1, <1>2, <1>3, <1>4
  DEF KeysBuilt, Started, IdempotencyHeaders, MintsKey, Mutating
<1>6. MintedKeysDiffer'
  <2>1. ASSUME NEW d \in Calls \ {c}, Started(d), MintsKey(d), MintsKey(c)
        PROVE  headers'[d] # headers'[c]
    <3>1. headers[d] \in 1..minted
      BY <2>1 DEF KeysBuilt
    <3>2. headers'[c] = minted + 1
      BY <2>1, <1>3 DEF IdempotencyHeaders
    <3> QED
      BY <3>1, <3>2, <1>2, <1>4
  <2> QED
    BY <2>1, <1>2 DEF MintedKeysDiffer, Started, MintsKey, Mutating
<1>7. \A m \in requests \cup ledger \cup replies : m.call \in Calls
  BY DEF TypeOK, Requests, Replies
<1>8. MessagesCarryKey'
  BY <1>1, <1>2, <1>7 DEF MessagesCarryKey, Started
<1>9. LedgerKeysDiffer'
  BY <1>1 DEF LedgerKeysDiffer, Mutating
<1>10. SuccessIsBacked'
  BY <1>1, <1>2, <1>7 DEF SuccessIsBacked, Started, Backed, Mutating
<1> QED
  BY <1>5, <1>6, <1>8, <1>9, <1>10

LEMMA SendKeyInv ==
    ASSUME KeyInv, TypeInv', NEW c \in Calls, Send(c)
    PROVE  KeyInv'
<1> USE DEF KeyInv, TypeInv
<1>1. /\ Started(c)
      /\ UNCHANGED <<headers, minted, replies, ledger>>
      /\ requests' \subseteq requests \cup {RequestOf(c)}
  BY DEF Send, Started
<1>2. \A d \in Calls : /\ Started(d) <=> Started(d)'
                       /\ outcome'[d] = "Data" => outcome[d] = "Data"
  BY DEF Send, Finish, Started, TypeOK
<1>3. \A m \in requests \cup ledger \cup replies : m.call \in Calls
  BY DEF TypeOK, Requests, Replies
<1>4. KeysBuilt' /\ MintedKeysDiffer'
  BY <1>1, <1>2 DEF KeysBuilt, MintedKeysDiffer, MintsKey, Mutating
<1>5. MessagesCarryKey'
  BY <1>1, <1>2, <1>3 DEF MessagesCarryKey, RequestOf
<1>6. LedgerKeysDiffer'
  BY <1>1 DEF LedgerKeysDiffer, Mutating
<1>7. SuccessIsBacked'
  BY <1>1, <1>2, <1>3 DEF SuccessIsBacked, Backed, Mutating
<1> QED
  BY <1>4, <1>5, <1>6, <1>7

(* A step of a call that neither builds headers nor sends: all it can do   *)
(* to the invariant is to return what a reply brought.                     *)
LEMMA AnswerKeyInv ==
    ASSUME KeyInv, TypeInv',
           \/ \E c \in Calls : \/ Receive(c) \/ RequestError(c)
                               \/ Wake(c) \/ Cancel(c)
           \/ Close
    PROVE  KeyInv'
<1> USE DEF KeyInv, TypeInv
<1>1. /\ UNCHANGED <<headers, minted, requests, ledger>>
      /\ replies' \subseteq replies
  BY DEF Receive, RequestError, Wake, Cancel, Close, HangUp, localVars
<1>2. \A d \in Calls : Started(d) <=> Started(d)'
  <2>1. ASSUME NEW c \in Calls, Receive(c) \/ RequestError(c)
        PROVE  /\ pc[c] = "wait"
               /\ \/ pc' = [pc EXCEPT ![c] = "sleep"]
                  \/ pc' = [pc EXCEPT ![c] = "done"]
    <3>1. CASE Receive(c)
      BY <3>1 DEF Receive, Finish, Backoff
    <3>2. CASE RequestError(c)
      BY <3>2 DEF RequestError, MayFail, Finish, Backoff
    <3> QED
      BY <2>1, <3>1, <3>2
  <2>2. ASSUME NEW c \in Calls, Wake(c) \/ Cancel(c)
        PROVE  /\ pc[c] \in {"wait", "sleep"}
               /\ \/ pc' = [pc EXCEPT ![c] = "send"]
                  \/ pc' = [pc EXCEPT ![c] = "done"]
    BY <2>2 DEF Wake, Cancel, Finish
  <2> QED
    BY <2>1, <2>2 DEF Close, localVars, Started, TypeOK
<1>3. ASSUME NEW d \in Calls, Mutating(d), outcome'[d] = "Data"
      PROVE  Started(d) /\ Backed(d)
  <2>1. CASE outcome[d] = "Data"
    BY <1>3, <2>1 DEF SuccessIsBacked
  <2>2. CASE outcome[d] # "Data"
    <3>1. PICK c \in Calls : Receive(c)
      BY <1>3, <2>2
      DEF RequestError, Wake, Cancel, Close, localVars, Finish, TypeOK
    <3>2. PICK m \in replies :
            /\ m.call = c
            /\ \/ UNCHANGED outcome
               \/ Finish(c, HandleResponse(m.response))
      BY <3>1 DEF Receive
    <3>3. d = c /\ HandleResponse(m.response) = "Data"
      BY <1>3, <2>2, <3>2 DEF Finish, TypeOK
    <3>4. IsSuccess(m.response)
      BY <3>3, DataOnlyFromSuccess
    <3> QED
      BY <1>3, <3>2, <3>3, <3>4 DEF SuccessIsBacked
  <2> QED
    BY <2>1, <2>2
<1>4. \A m \in requests \cup ledger \cup replies : m.call \in Calls
  BY DEF TypeOK, Requests, Replies
<1>5. KeysBuilt' /\ MintedKeysDiffer'
  BY <1>1, <1>2 DEF KeysBuilt, MintedKeysDiffer, MintsKey, Mutating
<1>6. MessagesCarryKey'
  BY <1>1, <1>2, <1>4 DEF MessagesCarryKey
<1>7. LedgerKeysDiffer'
  BY <1>1 DEF LedgerKeysDiffer, Mutating
<1>8. SuccessIsBacked'
  BY <1>1, <1>2, <1>3, <1>4 DEF SuccessIsBacked, Backed, Mutating
<1> QED
  BY <1>5, <1>6, <1>7, <1>8

LEMMA GatewayKeyInv ==
    ASSUME KeyInv, TypeInv', NEW m \in requests,
           Execute(m) \/ Serve(m) \/ Reject(m)
    PROVE  KeyInv'
<1> USE DEF KeyInv, TypeInv
<1>1. UNCHANGED <<pc, headers, outcome, minted>>
  BY DEF Execute, Serve, Reject, localVars
<1>2. /\ requests' \subseteq requests
      /\ ledger \subseteq ledger' /\ ledger' \subseteq ledger \cup {m}
  BY DEF Execute, Serve, Reject, Answer
<1>3. m.key = headers[m.call] /\ m.call \in Calls /\ m.key \in Keys
  BY DEF MessagesCarryKey, TypeOK, Requests
<1>4. m \in ledger' \ ledger => Mutating(m.call) /\ ~Known(m)
  BY DEF Execute, Serve, Reject
<1>5. Mutating(m.call) => m.key # None
  BY <1>3, KeyNotNone DEF MessagesCarryKey
<1>6. KeysBuilt' /\ MintedKeysDiffer'
  BY <1>1 DEF KeysBuilt, MintedKeysDiffer, Started, MintsKey, Mutating
<1>7. MessagesCarryKey'
  BY <1>1, <1>2 DEF MessagesCarryKey, Started
<1>8. LedgerKeysDiffer'
  BY <1>2, <1>4, <1>5 DEF LedgerKeysDiffer, Known, Mutating
<1>9. ASSUME NEW n \in replies', Mutating(n.call), IsSuccess(n.response)
      PROVE  Backed(n.call)'
  <2>1. CASE n \in replies
    BY <1>1, <1>2, <1>9, <2>1 DEF SuccessIsBacked, Backed
  <2>2. CASE n \notin replies
    <3>1. n.call = m.call /\ (Execute(m) \/ Serve(m))
      BY <1>9, <2>2 DEF Execute, Serve, Reject, Answer
    <3>2. \E e \in ledger' : e.key = m.key
      BY <1>5, <1>9, <3>1 DEF Execute, Serve, Known
    <3> QED
      BY <1>1, <1>3, <3>1, <3>2 DEF Backed
  <2> QED
    BY <2>1, <2>2
<1>10. \A n \in replies' : Started(n.call)'
  BY <1>1 DEF Execute, Serve, Reject, Answer, SuccessIsBacked,
              MessagesCarryKey, Started
<1>11. SuccessIsBacked'
  BY <1>1, <1>2, <1>9, <1>10 DEF SuccessIsBacked, Started, Backed, Mutating
<1> QED
  BY <1>6, <1>7, <1>8, <1>11

LEMMA KeyInvInductive ==
    ASSUME KeyInv, [Next]_vars PROVE KeyInv'
<1>1. TypeInv'
  BY TypeInvInductive DEF KeyInv
<1>2. CASE UNCHANGED vars
  BY <1>1, <1>2
  DEF vars, localVars, KeyInv, KeysBuilt, MintedKeysDiffer, MessagesCarryKey,
      LedgerKeysDiffer, SuccessIsBacked, Started, Backed, MintsKey, Mutating
<1>3. CASE Next
  BY <1>1, <1>3, StartKeyInv, SendKeyInv, AnswerKeyInv, GatewayKeyInv
  DEF Next, SDKStep, Gateway
<1> QED
  BY <1>2, <1>3

LEMMA AlwaysKeyInv == Spec => []KeyInv
  BY InitKeyInv, KeyInvInductive, PTL DEF Spec

LEMMA KeyInvAtMostOnce ==
    ASSUME KeyInv PROVE AtMostOneEffect
<1> SUFFICES ASSUME NEW e1 \in ledger, NEW e2 \in ledger,
                    Operation(e1.call) = Operation(e2.call)
             PROVE  e1 = e2
  BY DEF AtMostOneEffect
<1>1. e1.call \in Calls /\ e2.call \in Calls
  BY DEF KeyInv, TypeInv, TypeOK, Requests
<1>2. headers[e1.call] = headers[e2.call]
  BY <1>1, KeyIsOperation
  DEF KeyInv, TypeInv, MessagesCarryKey, LedgerKeysDiffer
<1> QED
  BY <1>2 DEF KeyInv, MessagesCarryKey, LedgerKeysDiffer

LEMMA KeyInvBacksData ==
    ASSUME KeyInv PROVE DataIsBacked
<1> SUFFICES ASSUME NEW c \in Calls, Mutating(c), outcome[c] = "Data"
             PROVE  \E e \in ledger : Operation(e.call) = Operation(c)
  BY DEF DataIsBacked
<1>1. Started(c)
  BY DEF KeyInv, SuccessIsBacked
<1>2. PICK e \in ledger : e.key = headers[c]
  BY DEF KeyInv, SuccessIsBacked, Backed
<1>3. /\ e.call \in Calls /\ Started(e.call) /\ Mutating(e.call)
      /\ headers[e.call] = headers[c]
  BY <1>2 DEF KeyInv, TypeInv, TypeOK, Requests, MessagesCarryKey,
              LedgerKeysDiffer
<1> QED
  BY <1>1, <1>3, KeyIsOperation DEF KeyInv, TypeInv

(* However many retries, losses, late deliveries, cancellations and        *)
(* caller-level retries with a pinned key there are, transport.py lets an  *)
(* operation take effect at most once.                                     *)
THEOREM AtMostOnce == Spec => []AtMostOneEffect
  BY AlwaysKeyInv, KeyInvAtMostOnce, PTL

(* A mutating request() that returns data has taken effect, and the data   *)
(* is of its own operation.                                                *)
THEOREM DataBacked == Spec => []DataIsBacked
  BY AlwaysKeyInv, KeyInvBacksData, PTL
-----------------------------------------------------------------------------
(* The retry budget: `attempt' counts the requests sent, and a final       *)
(* answer ends the call.                                                   *)

BudgetInv(c) ==
    /\ pc[c] \in {"idle", "send"} => sends[c] = attempt[c]
    /\ pc[c] \in {"wait", "sleep"} => sends[c] = attempt[c] + 1
    /\ sends[c] <= attempt[c] + 1
    /\ outcome[c] = "PSIPNetworkError" => sends[c] = MaxRetries + 1
    /\ outcome[c] \in Outcomes <=> pc[c] = "done"
    /\ outcome[c] \in APIErrors =>
          \/ response[c].status \notin RetryOnStatus
          \/ sends[c] = MaxRetries + 1
    /\ response[c] # None /\ response[c].status \notin RetryOnStatus
          => pc[c] = "done"

RetryInv ==
    /\ TypeInv
    /\ \A c \in Calls : BudgetInv(c)

LEMMA RetryInvInductive ==
    ASSUME RetryInv, [Next]_vars PROVE RetryInv'
<1> USE KeysAssumption, PolicyAssumption DEF RetryInv, TypeInv, TypeOK, BudgetInv
<1>0. TypeInv'
  BY TypeInvInductive
<1>1. ASSUME NEW c \in Calls, Start(c) PROVE RetryInv'
  BY <1>0, <1>1 DEF Start
<1>2. ASSUME NEW c \in Calls, Send(c) PROVE RetryInv'
  <2>1. CASE closed
    BY <1>0, <1>2, <2>1 DEF Send, Finish, Outcomes, Errors, APIErrors
  <2>2. CASE ~closed
    BY <1>0, <1>2, <2>2 DEF Send
  <2> QED
    BY <2>1, <2>2
<1>3. ASSUME NEW c \in Calls, Receive(c) PROVE RetryInv'
  <2>1. PICK m \in replies :
          /\ m.call = c
          /\ response' = [response EXCEPT ![c] = m.response]
          /\ IF RetryStatus(m.response) /\ RetriesLeft(c)
             THEN Backoff(c) /\ UNCHANGED outcome
             ELSE Finish(c, HandleResponse(m.response)) /\ UNCHANGED delays
    BY <1>3 DEF Receive
  <2>2. /\ m.response \in Responses /\ pc[c] = "wait"
        /\ UNCHANGED <<attempt, sends>>
    BY <1>3 DEF Receive, Replies
  <2>3. CASE RetryStatus(m.response) /\ RetriesLeft(c)
    <3>1. pc' = [pc EXCEPT ![c] = "sleep"] /\ UNCHANGED outcome
      BY <2>1, <2>3 DEF Backoff
    <3>2. m.response.status \in RetryOnStatus
      BY <2>3 DEF RetryStatus
    <3>3. BudgetInv(c)'
      <4>1. /\ pc'[c] = "sleep" /\ response'[c] = m.response
            /\ outcome'[c] = outcome[c] /\ sends'[c] = sends[c]
            /\ attempt'[c] = attempt[c]
        BY <2>1, <2>2, <3>1
      <4>2. APIErrors \subseteq Outcomes /\ "PSIPNetworkError" \in Outcomes
        BY DEF Outcomes, Errors
      <4> HIDE DEF TypeOK
      <4> QED
        BY <2>2, <3>2, <4>1, <4>2
    <3>4. ASSUME NEW d \in Calls \ {c} PROVE BudgetInv(d)'
      BY <2>1, <2>2, <3>1
    <3> QED
      BY <1>0, <3>3, <3>4
  <2>4. CASE ~(RetryStatus(m.response) /\ RetriesLeft(c))
    <3>1. /\ pc' = [pc EXCEPT ![c] = "done"]
          /\ outcome' = [outcome EXCEPT ![c] = HandleResponse(m.response)]
      BY <2>1, <2>4 DEF Finish
    <3>2. /\ HandleResponse(m.response) \in Outcomes
          /\ HandleResponse(m.response) # "PSIPNetworkError"
      BY HandleResponseType, AnswerIsNoNetworkError
    <3>3. RetryStatus(m.response) => sends[c] = MaxRetries + 1
      BY <2>2, <2>4 DEF RetriesLeft
    <3>4. BudgetInv(c)'
      <4>1. /\ pc'[c] = "done" /\ response'[c] = m.response
            /\ outcome'[c] = HandleResponse(m.response)
            /\ sends'[c] = sends[c] /\ attempt'[c] = attempt[c]
        BY <2>1, <2>2, <3>1
      <4> HIDE DEF TypeOK
      <4> QED
        BY <3>2, <3>3, <4>1 DEF RetryStatus
    <3>5. ASSUME NEW d \in Calls \ {c} PROVE BudgetInv(d)'
      BY <2>1, <2>2, <3>1
    <3> QED
      BY <1>0, <3>4, <3>5
  <2> QED
    BY <2>3, <2>4
<1>4. ASSUME NEW c \in Calls, RequestError(c) PROVE RetryInv'
  <2>1. pc[c] = "wait" /\ UNCHANGED <<attempt, response, sends>>
    BY <1>4 DEF RequestError, MayFail
  <2>2. CASE RetriesLeft(c)
    BY <1>0, <1>4, <2>1, <2>2 DEF RequestError, Backoff
  <2>3. CASE ~RetriesLeft(c)
    BY <1>0, <1>4, <2>1, <2>3
    DEF RequestError, Finish, RetriesLeft, Outcomes, Errors, APIErrors
  <2> QED
    BY <2>2, <2>3
<1>5. ASSUME NEW c \in Calls, Wake(c) PROVE RetryInv'
  BY <1>0, <1>5 DEF Wake
<1>6. ASSUME NEW c \in Calls, Cancel(c) PROVE RetryInv'
  BY <1>0, <1>6 DEF Cancel, Finish, Outcomes, Errors, APIErrors
<1>7. CASE \/ Close
           \/ UNCHANGED vars
           \/ \E m \in requests : Execute(m) \/ Serve(m) \/ Reject(m)
  <2>1. UNCHANGED <<pc, attempt, response, outcome, sends>>
    BY <1>7 DEF Close, Execute, Serve, Reject, vars, localVars
  <2> QED
    BY <1>0, <2>1
<1> QED
  BY <1>1, <1>2, <1>3, <1>4, <1>5, <1>6, <1>7 DEF Next, SDKStep, Gateway

LEMMA InitRetryInv == Init => RetryInv
<1> SUFFICES ASSUME Init PROVE RetryInv
  OBVIOUS
<1>1. ASSUME NEW c \in Calls
      PROVE  /\ pc[c] = "idle" /\ outcome[c] = None /\ response[c] = None
             /\ sends[c] = 0 /\ attempt[c] = 0
  BY DEF Init
<1>2. None \notin Outcomes /\ APIErrors \subseteq Outcomes
      /\ "PSIPNetworkError" \in Outcomes
  BY KeysAssumption DEF Outcomes, Errors
<1> QED
  BY <1>1, <1>2, InitTypeInv DEF RetryInv, BudgetInv

LEMMA AlwaysRetryInv == Spec => []RetryInv
  BY InitRetryInv, RetryInvInductive, PTL DEF Spec

(* A call sends at most max_retries + 1 requests, and a failure worth a    *)
(* retry is reported only after all of them.                               *)
THEOREM BudgetRespected == Spec => []BudgetIsSpent
<1>1. RetryInv => BudgetIsSpent
  BY PolicyAssumption
  DEF RetryInv, BudgetInv, BudgetIsSpent, TypeInv, TypeOK
<1> QED
  BY <1>1, AlwaysRetryInv, PTL

(* After an answer that is not to be retried the call sends nothing more.  *)
THEOREM FinalAnswersRespected == Spec => FinalAnswerIsFinal
<1>1. RetryInv /\ [Next]_vars =>
        [\A c \in Calls :
            response[c] # None /\ response[c].status \notin RetryOnStatus
            => sends'[c] = sends[c]]_vars
  <2> SUFFICES ASSUME RetryInv, Next, NEW c \in Calls, pc[c] = "done"
               PROVE  sends'[c] = sends[c]
    BY DEF RetryInv, BudgetInv
  <2> QED
    BY DEF RetryInv, TypeInv, TypeOK, Next, SDKStep, Gateway, Start, Send,
           Receive, RequestError, Wake, Cancel, Close, Execute, Serve, Reject,
           localVars
<1> QED
  BY <1>1, AlwaysRetryInv, PTL DEF Spec, FinalAnswerIsFinal
-----------------------------------------------------------------------------
(* The backoff.  A call has slept once per attempt it has left behind, each *)
(* time for the number of that attempt.                                    *)
DelayInv(c) ==
    /\ \A i \in 1..Len(delays[c]) : delays[c][i] = i - 1
    /\ pc[c] \in {"idle", "send", "wait"} => Len(delays[c]) = attempt[c]
    /\ pc[c] = "sleep" => Len(delays[c]) = attempt[c] + 1
    /\ pc[c] = "done" /\ outcome[c] \notin {"RuntimeError", "CancelledError"}
       => sends[c] = Len(delays[c]) + 1

BackoffInv == RetryInv /\ \A c \in Calls : DelayInv(c)

LEMMA OthersKeepDelays ==
    ASSUME BackoffInv, NEW c \in Calls,
           \A d \in Calls \ {c} :
               /\ pc'[d] = pc[d] /\ attempt'[d] = attempt[d]
               /\ delays'[d] = delays[d] /\ sends'[d] = sends[d]
               /\ outcome'[d] = outcome[d]
    PROVE  \A d \in Calls \ {c} : DelayInv(d)'
  BY DEF BackoffInv, DelayInv

(* Falling asleep in attempt n adds n to the delays.                       *)
LEMMA BackoffStep ==
    ASSUME BackoffInv, NEW c \in Calls, pc[c] = "wait", Backoff(c),
           UNCHANGED <<attempt, sends, outcome>>
    PROVE  \A d \in Calls : DelayInv(d)'
<1> USE DEF RetryInv, TypeInv, TypeOK
<1>1. /\ delays[c] \in Seq(Nat) /\ Len(delays[c]) = attempt[c]
      /\ attempt[c] \in Nat
      /\ \A i \in 1..Len(delays[c]) : delays[c][i] = i - 1
  BY PolicyAssumption DEF BackoffInv, DelayInv
<1>2. /\ pc'[c] = "sleep" /\ attempt'[c] = attempt[c]
      /\ delays'[c] = Append(delays[c], attempt[c])
  BY DEF BackoffInv, Backoff
<1>3. DelayInv(c)'
  <2> HIDE DEF RetryInv, TypeInv, TypeOK
  <2>1. Len(delays'[c]) = attempt[c] + 1
    BY <1>1, <1>2
  <2>2. \A i \in 1..(attempt[c] + 1) : delays'[c][i] = i - 1
    BY <1>1, <1>2
  <2> QED
    BY <1>1, <1>2, <2>1, <2>2 DEF DelayInv
<1>4. \A d \in Calls \ {c} : DelayInv(d)'
  BY OthersKeepDelays DEF BackoffInv, Backoff
<1> QED
  BY <1>3, <1>4

(* So does ending the call in "wait" change no delay.                      *)
LEMMA EndStep ==
    ASSUME BackoffInv, NEW c \in Calls, pc[c] = "wait", NEW o, Finish(c, o),
           UNCHANGED <<attempt, sends, delays>>
    PROVE  \A d \in Calls : DelayInv(d)'
<1>1. pc'[c] = "done" /\ sends[c] = attempt[c] + 1
  BY DEF BackoffInv, RetryInv, BudgetInv, TypeInv, TypeOK, Finish
<1>2. DelayInv(c)'
  BY <1>1 DEF BackoffInv, DelayInv
<1>3. \A d \in Calls \ {c} : DelayInv(d)'
  BY OthersKeepDelays DEF BackoffInv, RetryInv, TypeInv, TypeOK, Finish
<1> QED
  BY <1>2, <1>3

LEMMA BackoffInvInductive ==
    ASSUME BackoffInv, [Next]_vars PROVE BackoffInv'
<1> SUFFICES \A d \in Calls : DelayInv(d)'
  BY RetryInvInductive DEF BackoffInv
<1> USE PolicyAssumption DEF RetryInv, TypeInv, TypeOK
<1>1. ASSUME NEW c \in Calls, Start(c) PROVE \A d \in Calls : DelayInv(d)'
  BY <1>1 DEF Start, BackoffInv, DelayInv
<1>2. ASSUME NEW c \in Calls, Send(c) PROVE \A d \in Calls : DelayInv(d)'
  BY <1>2 DEF Send, Finish, BackoffInv, DelayInv
<1>3. ASSUME NEW c \in Calls, Receive(c) PROVE \A d \in Calls : DelayInv(d)'
  <2>1. PICK m \in replies :
           IF RetryStatus(m.response) /\ RetriesLeft(c)
           THEN Backoff(c) /\ UNCHANGED outcome
           ELSE Finish(c, HandleResponse(m.response)) /\ UNCHANGED delays
    BY <1>3 DEF Receive
  <2>2. pc[c] = "wait" /\ UNCHANGED <<attempt, sends>>
    BY <1>3 DEF Receive
  <2> QED
    BY <2>1, <2>2, BackoffStep, EndStep
<1>4. ASSUME NEW c \in Calls, RequestError(c)
      PROVE  \A d \in Calls : DelayInv(d)'
  BY <1>4, BackoffStep, EndStep DEF RequestError, MayFail
<1>5. ASSUME NEW c \in Calls, Wake(c) PROVE \A d \in Calls : DelayInv(d)'
  BY <1>5 DEF Wake, BackoffInv, DelayInv
<1>6. ASSUME NEW c \in Calls, Cancel(c) PROVE \A d \in Calls : DelayInv(d)'
  BY <1>6 DEF Cancel, Finish, BackoffInv, DelayInv
<1>7. CASE \/ Close
           \/ UNCHANGED vars
           \/ \E m \in requests : Execute(m) \/ Serve(m) \/ Reject(m)
  <2>1. UNCHANGED <<pc, attempt, outcome, delays, sends>>
    BY <1>7 DEF Close, Execute, Serve, Reject, vars, localVars
  <2> QED
    BY <2>1 DEF BackoffInv, DelayInv
<1> QED
  BY <1>1, <1>2, <1>3, <1>4, <1>5, <1>6, <1>7 DEF Next, SDKStep, Gateway

(* Exactly one sleep between two requests of a call, each twice as long as *)
(* the one before.                                                         *)
THEOREM BackoffRespected == Spec => []BackoffBetweenSends
<1>1. Init => BackoffInv
  <2> SUFFICES ASSUME Init, NEW c \in Calls PROVE DelayInv(c)
    BY InitRetryInv DEF BackoffInv
  <2> QED
    BY DEF Init, DelayInv
<1>2. BackoffInv => BackoffBetweenSends
  <2> SUFFICES ASSUME BackoffInv, NEW c \in Calls
               PROVE  /\ delays[c] = [i \in 1..Len(delays[c]) |-> i - 1]
                      /\ pc[c] = "wait" => sends[c] = Len(delays[c]) + 1
                      /\ pc[c] = "done" /\ outcome[c] \notin
                            {"RuntimeError", "CancelledError"}
                         => sends[c] = Len(delays[c]) + 1
    BY DEF BackoffBetweenSends
  <2>1. delays[c] \in Seq(Nat)
    BY DEF BackoffInv, RetryInv, TypeInv, TypeOK
  <2>2. delays[c] = [i \in 1..Len(delays[c]) |-> i - 1]
    <3>1. delays[c] \in [1..Len(delays[c]) -> Nat]
      BY <2>1, LenProperties
    <3>2. \A i \in 1..Len(delays[c]) : delays[c][i] = i - 1
      BY DEF BackoffInv, DelayInv
    <3> DEFINE s == delays[c]
               n == Len(delays[c])
    <3>3. s \in [1..n -> Nat] /\ \A i \in 1..n : s[i] = i - 1
      BY <3>1, <3>2
    <3> HIDE DEF s, n
    <3>4. s = [i \in 1..n |-> i - 1]
      BY <3>3
    <3> QED
      BY <3>4 DEF s, n
  <2> QED
    BY <2>2 DEF BackoffInv, DelayInv, RetryInv, BudgetInv, TypeInv, TypeOK
<1>3. BackoffInv /\ [Next]_vars => BackoffInv'
  BY BackoffInvInductive
<1> QED
  BY <1>1, <1>2, <1>3, PTL DEF Spec

-----------------------------------------------------------------------------
(* The end of every call, but for the fairness.                            *)

LEMMA StepsLeftIsNat ==
    ASSUME TypeInv, NEW c \in Calls PROVE StepsLeft(c) \in Nat
BY PolicyAssumption DEF TypeInv, TypeOK, StepsLeft

LEMMA StepsLeftAfter ==
    ASSUME TypeInv', NEW c \in Calls PROVE StepsLeft(c)' \in Nat
BY PolicyAssumption DEF TypeInv, TypeOK, StepsLeft

(* A call that makes no step keeps what it has.                            *)
LEMMA SameStepsLeft ==
    ASSUME NEW c \in Calls, pc'[c] = pc[c], attempt'[c] = attempt[c]
    PROVE  StepsLeft(c)' = StepsLeft(c)
BY DEF StepsLeft

LEMMA OthersStay ==
    ASSUME TypeInv, NEW c \in Calls,
           \/ \E d \in Calls \ {c} : SDKStep(d)
           \/ Close
           \/ Gateway
    PROVE  pc'[c] = pc[c] /\ attempt'[c] = attempt[c]
<1> USE DEF TypeInv, TypeOK
<1>1. ASSUME NEW d \in Calls \ {c}, SDKStep(d)
      PROVE  pc'[c] = pc[c] /\ attempt'[c] = attempt[c]
  <2>1. CASE Start(d) \/ Wake(d)
    BY <2>1 DEF Start, Wake
  <2>2. CASE Send(d)
    BY <2>2 DEF Send, Finish
  <2>3. CASE Receive(d)
    BY <2>3 DEF Receive, Backoff, Finish
  <2>4. CASE RequestError(d)
    BY <2>4 DEF RequestError, Backoff, Finish
  <2>5. CASE Cancel(d)
    BY <2>5 DEF Cancel, Finish
  <2> QED
    BY <1>1, <2>1, <2>2, <2>3, <2>4, <2>5 DEF SDKStep
<1>2. ASSUME Close \/ Gateway
      PROVE  pc'[c] = pc[c] /\ attempt'[c] = attempt[c]
  BY <1>2 DEF Close, Gateway, Execute, Serve, Reject, localVars
<1> QED
  BY <1>1, <1>2

LEMMA StepUsesOneUp ==
    ASSUME TypeInv, NEW c \in Calls, SDKStep(c)
    PROVE  StepsLeft(c)' < StepsLeft(c)
<1> USE PolicyAssumption DEF TypeInv, TypeOK, StepsLeft
<1>1. CASE Start(c)
  BY <1>1 DEF Start
<1>2. CASE Send(c)
  BY <1>2 DEF Send, Finish
<1>3. CASE Receive(c)
  <2>1. /\ pc[c] = "wait" /\ attempt' = attempt
        /\ \/ pc' = [pc EXCEPT ![c] = "sleep"]
           \/ pc' = [pc EXCEPT ![c] = "done"]
    BY <1>3 DEF Receive, Backoff, Finish
  <2> QED
    BY <2>1
<1>4. CASE RequestError(c)
  BY <1>4 DEF RequestError, MayFail, Backoff, Finish
<1>5. CASE Wake(c)
  BY <1>5 DEF Wake
<1>6. CASE Cancel(c)
  BY <1>6 DEF Cancel, Finish
<1> QED
  BY <1>1, <1>2, <1>3, <1>4, <1>5, <1>6 DEF SDKStep

(* Every step of a call brings it nearer to its end, and no step of        *)
(* another, of the gateway or of close() takes it back: for every policy   *)
(* and any number of calls, request() cannot go round for ever.            *)
THEOREM CallsCannotGoOn == Spec => CallsRunOut
<1>1. ASSUME TypeInv, [Next]_vars
      PROVE  [\A c \in Calls :
                 /\ StepsLeft(c)' <= StepsLeft(c)
                 /\ SDKStep(c) => StepsLeft(c)' \in 0..StepsLeft(c) - 1]_vars
  <2> SUFFICES ASSUME Next, NEW c \in Calls
               PROVE  /\ StepsLeft(c)' <= StepsLeft(c)
                      /\ SDKStep(c) => StepsLeft(c)' \in 0..StepsLeft(c) - 1
    BY <1>1
  <2>1. StepsLeft(c) \in Nat /\ StepsLeft(c)' \in Nat
    BY <1>1, StepsLeftIsNat, TypeInvInductive, StepsLeftAfter
  <2>2. CASE SDKStep(c)
    BY <1>1, <2>1, <2>2, StepUsesOneUp
  <2>3. CASE ~SDKStep(c)
    <3>1. pc'[c] = pc[c] /\ attempt'[c] = attempt[c]
      BY <1>1, <2>3, OthersStay DEF Next
    <3> QED
      BY <2>1, <2>3, <3>1, SameStepsLeft
  <2> QED
    BY <2>2, <2>3
<1> QED
  BY <1>1, AlwaysTypeInv, PTL DEF Spec, CallsRunOut
-----------------------------------------------------------------------------
(* Transport implements RemoteOperation.                                   *)

EffectSet(o) == {e \in ledger : Operation(e.call) = o}

LEMMA EffectsUnchanged ==
    ASSUME UNCHANGED ledger PROVE UNCHANGED EffectsOf
<1>1. \A o \in Operations : EffectSet(o)' = EffectSet(o)
  BY DEF EffectSet, Operation
<1> QED
  BY <1>1 DEF EffectsOf, EffectSet, Operation, Operations

LEMMA OneCallMoves ==
    ASSUME TypeOK, NEW c \in Calls, NEW p, NEW o,
           pc' = [pc EXCEPT ![c] = p], outcome' = [outcome EXCEPT ![c] = o]
    PROVE  /\ pc'[c] = p /\ outcome'[c] = o
           /\ ResultOf' = [ResultOf EXCEPT ![c] = Result(c)']
<1>1. /\ \A d \in Calls \ {c} : pc'[d] = pc[d] /\ outcome'[d] = outcome[d]
      /\ pc'[c] = p /\ outcome'[c] = o
  BY DEF TypeOK
<1>2. \A d \in Calls \ {c} : Result(d)' = Result(d)
  BY <1>1 DEF Result
<1> QED
  BY <1>1, <1>2 DEF ResultOf

(* A call that stays pending is a stutter of RemoteOperation, one that     *)
(* fails is its Raise.                                                     *)
LEMMA StaysPending ==
    ASSUME TypeOK, NEW c \in Calls, UNCHANGED <<outcome, ledger>>,
           pc[c] \in {"send", "wait", "sleep"},
           NEW p \in {"send", "wait", "sleep"}, pc' = [pc EXCEPT ![c] = p]
    PROVE  UNCHANGED Abstract!vars
<1>1. outcome' = [outcome EXCEPT ![c] = outcome[c]]
  BY DEF TypeOK
<1>2. Result(c) = "pending" /\ Result(c)' = "pending"
  BY <1>1, OneCallMoves DEF Result
<1>3. ResultOf' = ResultOf
  BY <1>1, <1>2, OneCallMoves DEF ResultOf
<1> QED
  BY <1>3, EffectsUnchanged DEF Abstract!vars

LEMMA FailureRaises ==
    ASSUME TypeOK, NEW c \in Calls, UNCHANGED ledger,
           pc[c] \in {"send", "wait", "sleep"},
           NEW o, o # "Data", Finish(c, o)
    PROVE  Abstract!Raise(c)
<1>0. pc'[c] = "done" /\ outcome'[c] = o
  BY OneCallMoves DEF Finish
<1>1. Result(c) = "pending" /\ Result(c)' = "error"
  BY <1>0 DEF Result
<1>2. ResultOf[c] = "pending"
  BY <1>1 DEF ResultOf
<1>3. ResultOf' = [ResultOf EXCEPT ![c] = "error"]
  BY <1>1, OneCallMoves DEF Finish
<1> QED
  BY <1>2, <1>3, EffectsUnchanged DEF Abstract!Raise

LEMMA ExecuteTakesEffect ==
    ASSUME KeyInv, NEW m \in requests, Execute(m)
    PROVE  Abstract!TakeEffect(m.call)
<1> DEFINE o == Operation(m.call)
<1> USE DEF KeyInv, TypeInv
<1>1. /\ m.call \in Calls /\ Mutating(m.call) /\ ~Known(m)
      /\ Started(m.call) /\ m.key = headers[m.call]
      /\ ledger' = ledger \cup {m} /\ UNCHANGED <<pc, outcome>>
  BY DEF Execute, MessagesCarryKey, TypeOK, Requests, localVars
<1>2. o \in Operations
  BY <1>1, CallsAssumption DEF Operation, Operations
<1>3. ASSUME NEW e \in ledger, Operation(e.call) = o PROVE FALSE
  <2>1. /\ e.call \in Calls /\ Started(e.call) /\ Mutating(e.call)
        /\ e.key = headers[e.call]
    BY DEF MessagesCarryKey, LedgerKeysDiffer, TypeOK, Requests
  <2>2. e.key = m.key
    BY <1>1, <1>3, <2>1, KeyIsOperation
  <2>3. m.key # None
    BY <1>1, KeyNotNone
  <2> QED
    BY <1>1, <2>2, <2>3 DEF Known
<1>4. EffectSet(o) = {} /\ EffectSet(o)' = {m}
  BY <1>1, <1>3 DEF EffectSet, Operation
<1>5. \A q \in Operations \ {o} : EffectSet(q)' = EffectSet(q)
  BY <1>1 DEF EffectSet, Operation
<1>6. EffectsOf[o] = 0
  BY <1>2, <1>4, FS_EmptySet DEF EffectsOf, EffectSet
<1>7. EffectsOf' = [EffectsOf EXCEPT ![o] = 1]
  <2>1. Cardinality(EffectSet(o)') = 1
    BY <1>4, FS_Singleton
  <2>2. EffectsOf = [q \in Operations |-> Cardinality(EffectSet(q))]
    BY DEF EffectsOf, EffectSet
  <2>3. EffectsOf' = [q \in Operations |-> Cardinality(EffectSet(q)')]
    BY DEF EffectsOf, EffectSet, Operations, Operation
  <2> QED
    BY <1>2, <1>5, <2>1, <2>2, <2>3
<1>8. OperationOf[m.call] = o /\ m.call \in Writes
  BY <1>1 DEF OperationOf, Writes
<1>9. ResultOf[m.call] # "none" /\ UNCHANGED ResultOf
  BY <1>1 DEF ResultOf, Result, Started, TypeOK
<1> QED
  BY <1>6, <1>7, <1>8, <1>9 DEF Abstract!TakeEffect

(* An answer taken for data is RemoteOperation's Return: the operation's   *)
(* one effect is in the ledger.                                            *)
LEMMA DataReturns ==
    ASSUME KeyInv, KeyInv', NEW c \in Calls, UNCHANGED ledger,
           UNCHANGED headers, pc[c] = "wait", Finish(c, "Data")
    PROVE  Abstract!Return(c)
<1> DEFINE o == Operation(c)
<1> USE DEF KeyInv, TypeInv
<1>1. Result(c) = "pending" /\ Result(c)' = "data"
  BY OneCallMoves DEF Result, Finish
<1>2. ResultOf[c] = "pending" /\ ResultOf' = [ResultOf EXCEPT ![c] = "data"]
  BY <1>1, OneCallMoves DEF ResultOf, Finish
<1>3. ASSUME c \in Writes PROVE EffectsOf[OperationOf[c]] = 1
  <2>1. Mutating(c) /\ outcome'[c] = "Data"
    BY <1>3 DEF Writes, Finish, TypeOK
  <2>2. PICK e \in ledger : e.key = headers[c]
    BY <2>1 DEF SuccessIsBacked, Backed, Mutating
  <2>3. /\ e.call \in Calls /\ Started(e.call) /\ Mutating(e.call)
        /\ headers[e.call] = headers[c]
    BY <2>2 DEF TypeOK, Requests, MessagesCarryKey, LedgerKeysDiffer
  <2>4. Operation(e.call) = o
    BY <2>1, <2>3, KeyIsOperation DEF Started
  <2>5. EffectSet(o) = {e}
    BY <2>4, KeyInvAtMostOnce DEF AtMostOneEffect, EffectSet
  <2>6. o \in Operations /\ OperationOf[c] = o
    BY CallsAssumption DEF Operation, Operations, OperationOf
  <2> QED
    BY <2>5, <2>6, FS_Singleton DEF EffectsOf, EffectSet
<1> QED
  BY <1>2, <1>3, EffectsUnchanged DEF Abstract!Return

(* The steps of transport.py and of the network are steps of               *)
(* RemoteOperation, or invisible to it.                                    *)
THEOREM Refinement == Spec => ImplementsRemoteOperation
<1>1. ASSUME Init PROVE Abstract!Init
  <2>1. \A o \in Operations : EffectSet(o) = {}
    BY <1>1 DEF Init, EffectSet
  <2>2. EffectsOf = [o \in Operations |-> 0]
    BY <2>1, FS_EmptySet DEF EffectsOf, EffectSet
  <2>3. ResultOf = [c \in Calls |-> "none"]
    BY <1>1 DEF Init, ResultOf, Result
  <2> QED
    BY <2>2, <2>3 DEF Abstract!Init
<1>2. ASSUME KeyInv, KeyInv', [Next]_vars
      PROVE  [Abstract!Next]_(Abstract!vars)
  <2> USE <1>2 DEF KeyInv, TypeInv
  <2>1. ASSUME NEW c \in Calls, Start(c) PROVE Abstract!Call(c)
    <3>1. /\ pc[c] = "idle" /\ pc' = [pc EXCEPT ![c] = "send"]
          /\ outcome' = [outcome EXCEPT ![c] = outcome[c]]
          /\ UNCHANGED ledger
      BY <2>1 DEF Start, TypeOK
    <3>2. ResultOf[c] = "none" /\ ResultOf' = [ResultOf EXCEPT ![c] = "pending"]
      BY <3>1, OneCallMoves DEF ResultOf, Result
    <3> QED
      BY <3>1, <3>2, EffectsUnchanged DEF Abstract!Call
  <2>2. ASSUME NEW c \in Calls, Send(c)
        PROVE  Abstract!Raise(c) \/ UNCHANGED Abstract!vars
    <3>1. CASE closed
      BY <2>2, <3>1, FailureRaises DEF Send
    <3>2. CASE ~closed
      BY <2>2, <3>2, StaysPending DEF Send
    <3> QED
      BY <3>1, <3>2
  <2>3. ASSUME NEW c \in Calls, Receive(c)
        PROVE  \/ Abstract!Return(c) \/ Abstract!Raise(c)
               \/ UNCHANGED Abstract!vars
    <3>1. PICK m \in replies :
            \/ Backoff(c) /\ UNCHANGED outcome
            \/ Finish(c, HandleResponse(m.response))
      BY <2>3 DEF Receive
    <3>2. pc[c] = "wait" /\ UNCHANGED <<headers, ledger>>
      BY <2>3 DEF Receive
    <3>3. CASE Backoff(c) /\ UNCHANGED outcome
      BY <3>2, <3>3, StaysPending DEF Backoff
    <3>4. CASE Finish(c, HandleResponse(m.response))
      BY <1>2, <3>2, <3>4, DataReturns, FailureRaises
    <3> QED
      BY <3>1, <3>3, <3>4
  <2>4. ASSUME NEW c \in Calls, RequestError(c)
        PROVE  Abstract!Raise(c) \/ UNCHANGED Abstract!vars
    <3>1. CASE RetriesLeft(c)
      BY <2>4, <3>1, StaysPending DEF RequestError, MayFail, Backoff
    <3>2. CASE ~RetriesLeft(c)
      BY <2>4, <3>2, FailureRaises DEF RequestError, MayFail
    <3> QED
      BY <3>1, <3>2
  <2>5. ASSUME NEW c \in Calls, Wake(c) PROVE UNCHANGED Abstract!vars
    BY <2>5, StaysPending DEF Wake
  <2>6. ASSUME NEW c \in Calls, Cancel(c) PROVE Abstract!Raise(c)
    BY <2>6, FailureRaises DEF Cancel
  <2>7. ASSUME NEW m \in requests, Execute(m)
        PROVE  m.call \in Calls /\ Abstract!TakeEffect(m.call)
    BY <2>7, ExecuteTakesEffect DEF TypeOK, Requests
  <2>8. CASE \/ Close
             \/ UNCHANGED vars
             \/ \E m \in requests : Serve(m) \/ Reject(m)
    <3>1. UNCHANGED <<pc, outcome, ledger>>
      BY <2>8 DEF Close, Serve, Reject, vars, localVars
    <3> QED
      BY <3>1, EffectsUnchanged DEF Abstract!vars, ResultOf, Result
  <2> QED
    BY <2>1, <2>2, <2>3, <2>4, <2>5, <2>6, <2>7, <2>8, <1>2
    DEF Next, SDKStep, Gateway, Abstract!Next
<1> QED
  BY <1>1, <1>2, AlwaysKeyInv, PTL
  DEF Spec, ImplementsRemoteOperation, Abstract!Spec
=============================================================================

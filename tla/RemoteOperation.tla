-------------------------- MODULE RemoteOperation --------------------------
(***************************************************************************)
(* What request() promises, with the retries, the keys, the network and    *)
(* the gateway left out: a call is pending and then has a result; an       *)
(* operation takes effect at most once, at any time after the first call   *)
(* for it was made -- even after that call has failed -- and a call that   *)
(* writes returns data only after its operation took effect.  Transport    *)
(* implements this specification.                                          *)
(***************************************************************************)
EXTENDS Naturals

CONSTANTS
    Calls,        \* the calls of request()
    Writes,       \* those with a mutating method
    Operations,   \* the business operations
    OperationOf     \* the operation each call stands for

VARIABLES
    result,       \* "none", "pending", "data" or "error", per call
    effects       \* how often each operation took effect

vars == <<result, effects>>

Init ==
    /\ result = [c \in Calls |-> "none"]
    /\ effects = [o \in Operations |-> 0]

Call(c) ==
    /\ result[c] = "none"
    /\ result' = [result EXCEPT ![c] = "pending"]
    /\ UNCHANGED effects

TakeEffect(c) ==
    /\ c \in Writes /\ result[c] # "none"
    /\ effects[OperationOf[c]] = 0
    /\ effects' = [effects EXCEPT ![OperationOf[c]] = 1]
    /\ UNCHANGED result

Return(c) ==
    /\ result[c] = "pending"
    /\ c \in Writes => effects[OperationOf[c]] = 1
    /\ result' = [result EXCEPT ![c] = "data"]
    /\ UNCHANGED effects

Raise(c) ==
    /\ result[c] = "pending"
    /\ result' = [result EXCEPT ![c] = "error"]
    /\ UNCHANGED effects

Next == \E c \in Calls : Call(c) \/ TakeEffect(c) \/ Return(c) \/ Raise(c)

Spec == Init /\ [][Next]_vars
=============================================================================

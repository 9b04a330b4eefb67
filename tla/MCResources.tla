----------------------------- MODULE MCResources -----------------------------
(* An instance of Resources for TLC: an update, a cancellation and a       *)
(* listing of one subscription.  The methods that list are all alike; the  *)
(* filters are of both kinds, as those of prices.list.                     *)
EXTENDS Resources

CONSTANTS u1, u2, l

MCMethod ==
    [c \in Calls |-> CASE c = u1 -> Subscriptions.update
                       [] c = u2 -> Subscriptions.cancel
                       [] c = l -> Subscriptions.list]
=============================================================================

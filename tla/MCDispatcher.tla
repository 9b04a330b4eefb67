---------------------------- MODULE MCDispatcher ----------------------------
(* Instances of Dispatcher for TLC.  Handlers are interchangeable, and so  *)
(* are deliveries.                                                         *)
EXTENDS Dispatcher, TLC

Symmetry == Permutations(Handlers) \cup Permutations(Dispatches)
=============================================================================

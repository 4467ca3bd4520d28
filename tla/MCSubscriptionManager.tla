----------------------- MODULE MCSubscriptionManager -----------------------
(***************************************************************************)
(* SubscriptionManager for TLC.  Operations treat RAN functions alike and  *)
(* threads alike, ids are ordered (lowest_free_id), and no property of the *)
(* run is a liveness property, so both sets may be permuted.               *)
(***************************************************************************)
EXTENDS SubscriptionManager, TLC

Alike == Permutations(RanFunctions) \union Permutations(Threads)
=============================================================================

---------------------------- MODULE MCE3Session ----------------------------
(***************************************************************************)
(* E3Session for TLC with several dApps.  Neither the agent nor the dApps  *)
(* tell one dApp or one RAN function from another except by ids, which are *)
(* not permuted, and the run checks invariants only.                       *)
(***************************************************************************)
EXTENDS E3Session

Alike == Permutations(DApps) \union Permutations(RanFunctions)
=============================================================================

------------------------------ MODULE MCEptHooks ------------------------------
(* A small instance of EptHooks for TLC: every page in a large page of its   *)
(* own, and the four kinds of buffer the hooks ask the pool manager for.      *)
EXTENDS EptHooks, TLC

LargePageEach == [p \in Pages |-> p]
AllIntentions == <<"split", "track", "tramp", "details">>
Symmetry == Permutations(Cores) \cup Permutations(Pages)
=============================================================================

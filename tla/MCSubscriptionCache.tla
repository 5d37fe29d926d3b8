------------------------ MODULE MCSubscriptionCache -------------------------
(***************************************************************************)
(* Model values for SubscriptionCache.                                     *)
(***************************************************************************)
EXTENDS SubscriptionCache, TLC

CONSTANTS c1, c2

Symmetry == Permutations(Callers)
=============================================================================

-------------------------- MODULE MCOrderLifecycle --------------------------
(***************************************************************************)
(* Instances of OrderLifecycle for TLC: the legs of the spreads are model  *)
(* values and no two spreads share one.                                    *)
(***************************************************************************)
EXTENDS OrderLifecycleInv

CONSTANTS s1, l1, s2, l2

OneSpread  == {<<s1, l1>>}
TwoSpreads == {<<s1, l1>>, <<s2, l2>>}
MCRank(leg) == IF leg = s1 THEN 1 ELSE IF leg = l1 THEN 2 ELSE IF leg = s2 THEN 3 ELSE 4

=============================================================================

---------------------------- MODULE MCJobDiscovery ----------------------------
(***************************************************************************)
(* Instances of JobDiscovery for TLC: two providers with a listing each.   *)
(***************************************************************************)
EXTENDS JobDiscovery, TLC
CONSTANTS p1, p2, l1, l2, x, y
TwoProviders == <<p1, p2>>
OneEach == l1 :> p1 @@ l2 :> p2
Wording == Permutations({x, y})
=============================================================================

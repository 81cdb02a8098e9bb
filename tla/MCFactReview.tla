---------------------------- MODULE MCFactReview ----------------------------
(***************************************************************************)
(* Instances of FactReview for TLC.                                        *)
(***************************************************************************)
EXTENDS FactReview
CONSTANTS c1, c2, v1, v2, own
OneClaim == <<c1, c1>>
OneClaimTwice == <<c1, c1, c1>>
TwoSources == <<1, 2>>
TwiceInOne == <<1, 1, 2>>  \* the first two places are of one occurrence
TwoClaims == <<c1, c2>>
=============================================================================

------------------------ MODULE MCMappingPublication ------------------------
(* A small instance of MappingPublication for TLC: two attempts that would *)
(* disclose one fact each, under a budget of one.                          *)
EXTENDS MappingPublication, TLC

CONSTANTS a1, a2, f1, f2

TwoAttempts == {a1, a2}
TwoFacts == {f1, f2}
OneFactEach == a1 :> {f1} @@ a2 :> {f2}

OneAttempt == {a1}
OneFact == a1 :> {f1}

\* Only the number of disclosed facts is compared, never a fact, so the two
\* attempts may be exchanged.
Exchange == Permutations(Attempt)
=============================================================================

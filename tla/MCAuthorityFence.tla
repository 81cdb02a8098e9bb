-------------------------- MODULE MCAuthorityFence --------------------------
(* A small instance of AuthorityFence for TLC. *)
EXTENDS AuthorityFence, TLC

WorkerSymmetry == Permutations(Worker)
=============================================================================

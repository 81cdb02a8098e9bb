--------------------------- MODULE MCVaultServices ---------------------------
(***************************************************************************)
(* Instances of VaultServices for TLC.                                     *)
(***************************************************************************)
EXTENDS VaultServices, TLC
CONSTANTS t1, t2, p1, p2
Symmetric == Permutations({t1, t2}) \cup Permutations({p1, p2})
=============================================================================

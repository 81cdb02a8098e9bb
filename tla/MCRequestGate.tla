--------------------------- MODULE MCRequestGate ---------------------------
(* A small instance of RequestGate for TLC. *)
EXTENDS RequestGate, TLC
=============================================================================

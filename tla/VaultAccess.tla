---------------------------- MODULE VaultAccess ----------------------------
(***************************************************************************)
(* What the request gate of the vault promises: a request that was let in  *)
(* works on one vault file until it leaves, so the file is replaced only   *)
(* while no request is in.                                                 *)
(***************************************************************************)
CONSTANT Request

VARIABLES
  users,      \* requests that were let in
  replacing   \* the file is being replaced

Init == users = {} /\ replacing = FALSE

Enter(r) ==
  /\ r \notin users /\ ~replacing
  /\ users' = users \cup {r}
  /\ UNCHANGED replacing

Leave(r) ==
  /\ r \in users
  /\ users' = users \ {r}
  /\ UNCHANGED replacing

BeginReplacement ==
  /\ users = {} /\ ~replacing
  /\ replacing' = TRUE
  /\ UNCHANGED users

EndReplacement ==
  /\ replacing
  /\ replacing' = FALSE
  /\ UNCHANGED users

Next ==
  \/ \E r \in Request : Enter(r) \/ Leave(r)
  \/ BeginReplacement \/ EndReplacement

Spec == Init /\ [][Next]_<<users, replacing>>
=============================================================================

---------------------------- MODULE RequestGate ----------------------------
(***************************************************************************)
(* The gate between HTTP requests and the replacement of the vault file.   *)
(*                                                                         *)
(* The middleware sends every request through begin_request and            *)
(* end_request of the Phase I MutationCoordinator; restore closes the      *)
(* gate, waits until the requests inside have left, and replaces the file. *)
(* Both sides wait on one condition variable.  The two calls block, so the *)
(* middleware runs them on threads of the server's bounded pool, as it     *)
(* does the handlers that are plain functions; a handler that is a         *)
(* coroutine occupies the event loop instead, and nothing is dispatched    *)
(* until it is done.                                                       *)
(*                                                                         *)
(* A thread evaluates its wait condition and changes the counters under    *)
(* the condition's lock, so each such section is one action.               *)
(***************************************************************************)
EXTENDS Naturals, FiniteSets

CONSTANTS
  Request,    \* request tasks; each may come again after it was answered
  Restorer,   \* operator threads that call restore
  PoolSize,   \* threads in the server's pool
  Free        \* holder of a lock that nobody holds

Thread == Request \cup Restorer

ASSUME GateAssumption ==
  /\ IsFiniteSet(Request) /\ Request \cap Restorer = {}
  /\ Free \notin Thread
  /\ PoolSize \in Nat \ {0}

VARIABLES
  pc,           \* where each request and each restorer is
  active,       \* _active_requests
  maintenance,  \* _maintenance
  mutex,        \* holder of the coordinator's mutation mutex
  loop          \* coroutine handler that occupies the event loop

vars == <<pc, active, maintenance, mutex, loop>>

RequestPc ==
  {"away", "begin", "asleep", "awake", "handle", "body", "lock", "txn", "leave"}
RestorerPc ==
  {"idle", "asleep", "awake", "lock", "prepare", "replace", "release"}

TypeOK ==
  /\ pc \in [Thread -> RequestPc \cup RestorerPc]
  /\ \A r \in Request : pc[r] \in RequestPc
  /\ \A o \in Restorer : pc[o] \in RestorerPc
  /\ active \in Nat /\ maintenance \in BOOLEAN
  /\ mutex \in Thread \cup {Free} /\ loop \in Request \cup {Free}

Init ==
  /\ pc = [t \in Thread |-> IF t \in Request THEN "away" ELSE "idle"]
  /\ active = 0 /\ maintenance = FALSE /\ mutex = Free /\ loop = Free

-----------------------------------------------------------------------------
Goto(t, place) == pc' = [pc EXCEPT ![t] = place]

\* notify_all, by a thread that goes to its next place in the same section.
GotoAndNotify(t, place) ==
  pc' = [u \in Thread |-> IF u = t THEN place
                          ELSE IF pc[u] = "asleep" THEN "awake" ELSE pc[u]]

\* A request blocked in begin_request, and a handler that is a function,
\* each keep a thread of the pool.
Threads ==
  {r \in Request : \/ pc[r] \in {"asleep", "awake"}
                   \/ pc[r] \in {"body", "lock", "txn"} /\ loop # r}

\* The event loop can hand a call to the pool.
CanDispatch == loop = Free /\ Cardinality(Threads) < PoolSize

\* begin_request let the request in, and end_request did not run yet.
Inside(r) == pc[r] \in {"handle", "body", "lock", "txn", "leave"}

-----------------------------------------------------------------------------
(* Requests *)

Arrive(r) ==
  /\ pc[r] = "away" /\ loop = Free
  /\ Goto(r, "begin")
  /\ UNCHANGED <<active, maintenance, mutex, loop>>

\* Mutant: the request is let in and not counted.
EnterUncounted(r) ==
  /\ Goto(r, "handle")
  /\ UNCHANGED active

Enter(r) ==
  /\ Goto(r, "handle")
  /\ active' = active + 1

\* begin_request, until it returns or waits.
BeginRequest(r) ==
  /\ pc[r] = "begin" /\ CanDispatch
  /\ \/ ~maintenance /\ Enter(r)
     \/ maintenance /\ Goto(r, "asleep") /\ UNCHANGED active
  /\ UNCHANGED <<maintenance, mutex, loop>>

\* Mutant: the condition is tested once, with an if.
WakeRequestOnce(r) ==
  /\ pc[r] = "awake"
  /\ Enter(r)
  /\ UNCHANGED <<maintenance, mutex, loop>>

\* A woken request tests the condition again.
WakeRequest(r) ==
  /\ pc[r] = "awake"
  /\ \/ ~maintenance /\ Enter(r)
     \/ maintenance /\ Goto(r, "asleep") /\ UNCHANGED active
  /\ UNCHANGED <<maintenance, mutex, loop>>

\* call_next starts the handler: a function on the pool, or a coroutine.
StartHandler(r) ==
  /\ pc[r] = "handle" /\ Goto(r, "body")
  /\ \/ CanDispatch /\ UNCHANGED loop
     \/ loop = Free /\ loop' = r
  /\ UNCHANGED <<active, maintenance, mutex>>

\* A handler that only reads is done; one that mutates asks for the mutex.
RunHandler(r) ==
  /\ pc[r] = "body"
  /\ \/ Goto(r, "leave") /\ loop' = (IF loop = r THEN Free ELSE loop)
     \/ Goto(r, "lock") /\ UNCHANGED loop
  /\ UNCHANGED <<active, maintenance, mutex>>

LockVault(r) ==
  /\ pc[r] = "lock" /\ mutex = Free
  /\ mutex' = r /\ Goto(r, "txn")
  /\ UNCHANGED <<active, maintenance, loop>>

Commit(r) ==
  /\ pc[r] = "txn"
  /\ mutex' = Free /\ Goto(r, "leave")
  /\ loop' = IF loop = r THEN Free ELSE loop
  /\ UNCHANGED <<active, maintenance>>

\* Mutant: the last request to leave wakes nobody.
EndRequestSilently(r) ==
  /\ pc[r] = "leave" /\ CanDispatch
  /\ active' = active - 1 /\ Goto(r, "away")
  /\ UNCHANGED <<maintenance, mutex, loop>>

\* end_request wakes the waiting threads when the last request leaves.
EndRequest(r) ==
  /\ pc[r] = "leave" /\ CanDispatch
  /\ active' = active - 1
  /\ IF active' = 0 THEN GotoAndNotify(r, "away") ELSE Goto(r, "away")
  /\ UNCHANGED <<maintenance, mutex, loop>>

RequestStep(r) ==
  \/ BeginRequest(r) \/ WakeRequest(r) \/ StartHandler(r) \/ RunHandler(r)
  \/ LockVault(r) \/ Commit(r) \/ EndRequest(r)

-----------------------------------------------------------------------------
(* Restore *)

\* Mutant: restore closes the gate and does not wait for the requests inside.
DrainNothing(o) == Goto(o, "lock")

\* The wait condition of _begin_maintenance.
Drain(o) == Goto(o, IF active = 0 THEN "lock" ELSE "asleep")

BeginMaintenance(o) ==
  /\ pc[o] = "idle"
  /\ maintenance' = TRUE /\ Drain(o)
  /\ UNCHANGED <<active, mutex, loop>>

WakeRestore(o) ==
  /\ pc[o] = "awake" /\ Drain(o)
  /\ UNCHANGED <<active, maintenance, mutex, loop>>

LockForRestore(o) ==
  /\ pc[o] = "lock" /\ mutex = Free
  /\ mutex' = o /\ Goto(o, "prepare")
  /\ UNCHANGED <<active, maintenance, loop>>

\* The copy of the backup is verified and the present file backed up.
PrepareRestore(o) ==
  /\ pc[o] = "prepare" /\ Goto(o, "replace")
  /\ UNCHANGED <<active, maintenance, mutex, loop>>

\* The file is replaced, or an error ends the restore before or after that;
\* the mutex is released either way.
FinishRestore(o) ==
  /\ pc[o] \in {"prepare", "replace"}
  /\ mutex' = Free /\ Goto(o, "release")
  /\ UNCHANGED <<active, maintenance, loop>>

\* Mutant: the gate opens and nobody is told.
EndMaintenanceSilently(o) ==
  /\ pc[o] = "release"
  /\ maintenance' = FALSE /\ Goto(o, "idle")
  /\ UNCHANGED <<active, mutex, loop>>

EndMaintenance(o) ==
  /\ pc[o] = "release"
  /\ maintenance' = FALSE /\ GotoAndNotify(o, "idle")
  /\ UNCHANGED <<active, mutex, loop>>

RestoreStep(o) ==
  \/ WakeRestore(o) \/ LockForRestore(o) \/ PrepareRestore(o)
  \/ FinishRestore(o) \/ EndMaintenance(o)

-----------------------------------------------------------------------------
Next ==
  \/ \E r \in Request : Arrive(r) \/ RequestStep(r)
  \/ \E o \in Restorer : BeginMaintenance(o) \/ RestoreStep(o)

Spec == Init /\ [][Next]_vars

\* Threads are scheduled, handlers and restores terminate, and the event loop
\* keeps dispatching.  Nothing makes a request or a restore begin.
Fairness ==
  /\ \A r \in Request : WF_vars(RequestStep(r))
  /\ \A o \in Restorer : WF_vars(RestoreStep(o))

FairSpec == Spec /\ Fairness

-----------------------------------------------------------------------------
(* Properties *)

Replacing == \E o \in Restorer : pc[o] = "replace"

\* No request is inside while the vault file is being replaced: a request
\* finishes on the file it began with.
ReplacedOnlyWhenDrained ==
  Replacing => \A r \in Request : ~Inside(r)

\* No wake-up is lost: what a sleeping thread waits for still holds, and a
\* thread is under way that will change it and tell the sleeper.
NoWakeupIsLost ==
  /\ (\E r \in Request : pc[r] = "asleep") =>
       maintenance /\ \E o \in Restorer : pc[o] # "idle"
  /\ (\E o \in Restorer : pc[o] = "asleep") => \E r \in Request : Inside(r)

\* The gate implements the access VaultAccess specifies.
Access == INSTANCE VaultAccess WITH
  users <- {r \in Request : Inside(r)}, replacing <- Replacing
ImplementsAccess == Access!Spec

\* A restore gets its turn and returns, whatever requests are inside and
\* however many keep arriving: no wake-up is lost, and none is needed twice.
RestoreCompletes ==
  \A o \in Restorer : pc[o] # "idle" ~> pc[o] = "idle"

\* A request that found the gate closed is let in, unless the operator starts
\* one restore after the other for ever.
BlockedRequestsEnter ==
  \/ []<>maintenance
  \/ \A r \in Request : pc[r] = "asleep" ~> Inside(r)
=============================================================================

---------------------------- MODULE VaultServices ----------------------------
(***************************************************************************)
(* Imports and permissions in one vault, with what threatens both: the     *)
(* process dies and the launcher prepares the vault again, or a safety     *)
(* copy is restored.  The copy brings back the runs, attempts and          *)
(* permissions of its day; the ledger, being outside, keeps its entries.   *)
(***************************************************************************)
EXTENDS ImportAttempts, ConfidentialUse

CONSTANTS
  Home,        \* the keeper that is a request for the home page
  Launcher,    \* the keeper that is the launcher
  MaxStart,    \* bound: crashes
  MaxRestore   \* bound: restored copies

ASSUME ServiceAssumption ==
  /\ Keeper = {Home, Launcher} /\ Home # Launcher
  /\ MaxStart \in Nat /\ MaxRestore \in Nat

VARIABLES
  service,     \* where the application is between start and crash
  starts, restores,
  copy,        \* the runs, attempts and permissions of a safety copy
  told         \* history: the ledger as the launcher last read it

vars == <<importVars, permissionVars, service, starts, restores, copy, told>>

Vault == [runs |-> runs, attempts |-> attempts, chain |-> chain]

TypeOK ==
  /\ ImportTypeOK /\ PermissionTypeOK
  /\ service \in {"reconcile", "expire", "up"}
  /\ starts \in 0 .. MaxStart /\ restores \in 0 .. MaxRestore
  /\ copy \in [runs : SUBSET Run, attempts : SUBSET Attempt, chain : [Permission -> Event]]
  /\ told \subseteq Attempt

Init ==
  /\ ImportInit /\ PermissionInit
  /\ service = "up" /\ starts = 0 /\ restores = 0 /\ copy = Vault /\ told = {}

\* Every transaction, also those of other services, first copies the vault.
TakeCopy ==
  /\ restores < MaxRestore /\ copy' = Vault
  /\ UNCHANGED <<importVars, permissionVars, service, starts, restores, told>>

Serve ==
  /\ service = "up"
  /\ \/ ImportStep /\ UNCHANGED permissionVars
     \/ (OwnerStep \/ FindDue(Home) \/ RecordDue(Home)) /\ UNCHANGED importVars
  /\ UNCHANGED <<service, starts, restores, copy, told>>

Crash ==
  /\ starts < MaxStart /\ starts' = starts + 1 /\ service' = "reconcile"
  /\ ForgetRequests /\ ForgetDue
  /\ UNCHANGED <<restores, copy, told>>

\* Mutant: the launcher does not look at the ledger.
SkipLedger ==
  /\ service = "reconcile" /\ service' = "expire" /\ told' = ledger
  /\ FindDue(Launcher)
  /\ UNCHANGED <<importVars, starts, restores, copy>>

\* prepare_vault reads the ledger and brings the vault up to it ...
Reconcile ==
  /\ service = "reconcile" /\ service' = "expire" /\ told' = ledger
  /\ ReconcileAttempts /\ FindDue(Launcher)
  /\ UNCHANGED <<starts, restores, copy>>

\* ... and records the permissions that are due.
ExpireAtStart ==
  /\ service = "expire" /\ service' = "up"
  /\ IF due[Launcher] = {} THEN UNCHANGED permissionVars ELSE RecordDue(Launcher)
  /\ UNCHANGED <<importVars, starts, restores, copy, told>>

\* Restore waits until no request is inside, so that no thread is within an import
\* and no home page between its two sessions.
Restore ==
  /\ service = "up" /\ restores < MaxRestore /\ restores' = restores + 1
  /\ \A t \in Thread : pc[t] = "idle"
  /\ due[Home] = {}
  /\ runs' = copy.runs /\ attempts' = copy.attempts /\ chain' = copy.chain
  /\ copy' \in {copy, Vault} /\ told' = told \cap copy.attempts
  /\ UNCHANGED <<previews, request, lastAttempt, ledger, history, late, due,
                 service, starts>>

Next == Serve \/ TakeCopy \/ Crash \/ Reconcile \/ ExpireAtStart \/ Restore

Spec == Init /\ [][Next]_vars

-----------------------------------------------------------------------------
(* Properties *)

\* No preview is applied twice: not by two threads at once, not by a form that is
\* posted again, not after a restored vault forgot its run.
AppliedAtMostOnce ==
  \A i, j \in committed : \A r, s \in runs \cup copy.runs :
    r.id = i /\ s.id = j /\ r.preview = s.preview => i = j

\* The outcome recorded for an attempt, in the vault or in the ledger, is what
\* became of its run, and there is one.  The exception is a run whose call raised
\* after its commit: its attempt is never recorded as committed.
OutcomesAreTrue ==
  \A a, b \in attempts \cup ledger :
    /\ a.outcome = "committed" <=> a.id \in committed \ raised
    /\ a.id = b.id => a = b

\* Does not hold: "no claims were committed" (imports/service.py:549), where an
\* attempt has failed.
FailedCommittedNothing ==
  \A a \in attempts \cup ledger : a.outcome = "failed" => a.id \notin committed

\* Once the application is up, the vault knows every outcome that only the ledger
\* knew when it was started, also the ones a restored copy had lost before.
LedgerIsReconciled == service # "reconcile" => told \subseteq attempts

\* A permission that was revoked or has expired is never renewed and never ended a
\* second time, whatever forms and keepers still hold of it.
EndedStaysEnded ==
  [][restores' = restores =>
       \A p \in Permission : chain[p].kind \in {"revoke", "expire"} => chain'[p] = chain[p]]_vars

\* The application ends a permission only when its time is over: not one that was
\* renewed after it had been found to be due.
OnlyDueExpires ==
  [][restores' = restores =>
       \A p \in Permission :
         chain'[p].actor = "system" /\ chain'[p] # chain[p] => Due(p)]_vars
=============================================================================

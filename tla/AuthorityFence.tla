--------------------------- MODULE AuthorityFence ---------------------------
(***************************************************************************)
(* The fence between the Phase I fact vault and the Phase II job catalog.  *)
(*                                                                         *)
(* The vault and the catalog are two SQLite files with a mutation          *)
(* coordinator each.  A career mutation bumps the counters of the vault's  *)
(* authority row; a Phase II activation grant snapshots those counters;    *)
(* every Phase II workflow re-reads grant and counters before it acts and  *)
(* again inside the transaction that publishes its result.  Either file    *)
(* can be replaced by one of its own backups, counters included, and the   *)
(* process can die between any two steps.                                  *)
(*                                                                         *)
(* The counter readiness_generation is written only where                  *)
(* authority_high_water_mark is, by the same amount, so hwm stands for     *)
(* both; active_profile_generation and the profile's version number move   *)
(* together likewise, and profile stands for both.                         *)
(* revocation_generation is left out: no decision reads it.                *)
(***************************************************************************)
EXTENDS Naturals, FiniteSets

CONSTANTS
  Worker,             \* Phase II request workflows that may run concurrently
  Publisher,          \* the workers among them that publish results
  Free, Operator,     \* owners of the catalog mutex that are no worker
  MaxContent,         \* bound: commits to the vault
  MaxGrant,           \* bound: activation_generation
  MaxVaultRestore,    \* bound: restore_generation of the vault
  MaxCatalogRestore,  \* bound: restores of the catalog
  MaxBuild            \* bound: application builds installed

ASSUME FenceAssumption ==
  /\ Publisher \subseteq Worker
  /\ Free \notin Worker /\ Operator \notin Worker /\ Free # Operator
  /\ MaxContent \in Nat /\ MaxGrant \in Nat /\ MaxVaultRestore \in Nat
  /\ MaxCatalogRestore \in Nat /\ MaxBuild \in Nat

VARIABLES
  vault,           \* the Phase I database: facts, readiness, authority row
  vaultBackups,    \* safety copies of the states the vault has left
  vaultRestore,    \* progress of MutationCoordinator.restore
  build,           \* build and schema revision the running process expects
  lastContent,     \* history: newest content identity ever committed
  vaultRestored,   \* history: some backup was installed over the vault
  catalog,         \* the Phase II database: grant, generations, results
  catalogBackups,  \* safety copies of the states the catalog has left
  catalogRestore,  \* progress of Phase2ActivationService.restore
  prior,           \* the grant that restore read before replacing the file
  replacements,    \* history: how often the catalog file was replaced
  issued,          \* history: grants ever issued
  owner,           \* holder of the catalog's reentrant mutation mutex
  pc, stage,       \* control state of each worker
  seen,            \* grant a worker judges
  held             \* authority a worker captured and acts on

vaultVars   == <<vault, vaultBackups, vaultRestore, lastContent, vaultRestored>>
catalogVars == <<catalog, catalogBackups, catalogRestore, prior, replacements, issued>>
workerVars  == <<pc, stage, seen, held>>
vars == <<vaultVars, build, catalogVars, owner, workerVars>>

-----------------------------------------------------------------------------
(* Data *)

\* No receipt is recorded for build 0, so it stands for "no receipt".
Receipt == [build : Nat, restoreGen : Nat]

\* What revalidate_activation_inputs compares.
Fence == [hwm : Nat, restoreGen : Nat, profile : Nat, import : Nat,
          receipt : Receipt]

\* content identifies the committed facts; no field of the fence carries it.
Vault == [content : Nat, ready : BOOLEAN, fence : Fence]

GrantState == {"inactive", "active", "suspended"}
\* replacement is the history value of replacements when it was issued.
Grant == [state : GrantState, id : Nat, inputs : Fence, replacement : Nat]
Catalog == [grant : Grant, actGen : Nat, restoreGen : Nat]

\* AssessmentAuthoritySnapshot, with the content and the grant it was taken
\* from as history.
Authority == [inputs : Fence, content : Nat, actGen : Nat, restoreGen : Nat,
              grant : Nat]

Step  == {"idle", "grant", "report", "authority", "view", "suspend",
          "report2", "authority2", "captured", "issue", "commit", "committed"}
Stage == {"page", "activate", "capture", "confirm", "precheck", "publish"}

TypeOK ==
  /\ vault \in Vault /\ vaultBackups \in SUBSET Vault
  /\ vaultRestore \in {"idle", "replaced"}
  /\ build \in Nat /\ lastContent \in Nat /\ vaultRestored \in BOOLEAN
  /\ catalog \in Catalog /\ catalogBackups \in SUBSET Catalog
  /\ catalogRestore \in {"idle", "read", "replaced", "bumped"}
  /\ prior \in Grant /\ replacements \in Nat /\ issued \in Nat
  /\ owner \in Worker \cup {Free, Operator}
  /\ pc \in [Worker -> Step] /\ stage \in [Worker -> Stage]
  /\ seen \in [Worker -> Grant] /\ held \in [Worker -> Authority]

NoReceipt   == [build |-> 0, restoreGen |-> 0]
FirstFence  == [hwm |-> 1, restoreGen |-> 0, profile |-> 1, import |-> 0,
                receipt |-> NoReceipt]
FirstVault  == [content |-> 0, ready |-> FALSE, fence |-> FirstFence]
\* The same vault after its facts were reviewed and the receipt recorded.
AcceptedVault ==
  [FirstVault EXCEPT !.ready = TRUE,
                     !.fence.receipt = [build |-> 1, restoreGen |-> 0]]
NoGrant     == [state |-> "inactive", id |-> 0, inputs |-> FirstFence,
                replacement |-> 0]
NoAuthority == [inputs |-> FirstFence, content |-> 0, actGen |-> 0,
                restoreGen |-> 0, grant |-> 0]

Init ==
  /\ vault = AcceptedVault /\ vaultBackups = {}
  /\ vaultRestore = "idle" /\ build = 1
  /\ lastContent = 0 /\ vaultRestored = FALSE
  /\ catalog = [grant |-> NoGrant, actGen |-> 0, restoreGen |-> 0]
  /\ catalogBackups = {} /\ catalogRestore = "idle"
  /\ prior = NoGrant /\ replacements = 0 /\ issued = 0
  /\ owner = Free
  /\ pc = [w \in Worker |-> "idle"] /\ stage = [w \in Worker |-> "page"]
  /\ seen = [w \in Worker |-> NoGrant]
  /\ held = [w \in Worker |-> NoAuthority]

-----------------------------------------------------------------------------
(* Phase I: career mutations, backups, restore *)

(***************************************************************************)
(* Every transaction of either coordinator is preceded by a safety copy of *)
(* the file, kept even when the operation then raises.  So every state the *)
(* file has left has a copy, and the present one may have: a restore       *)
(* chooses among both.                                                     *)
(***************************************************************************)

InRequest(w) == pc[w] \notin {"idle", "captured"}

\* Mutant: the operation commits without touching the authority row.
RunUntouched(v) ==
  /\ vaultRestore = "idle" /\ lastContent < MaxContent
  /\ vaultBackups' = vaultBackups \cup {vault}
  /\ lastContent' = lastContent + 1
  /\ vault' = [v EXCEPT !.content = lastContent + 1]
  /\ UNCHANGED <<vaultRestore, vaultRestored, build, catalogVars, owner,
                 workerVars>>

\* run: a safety copy of the old state, then the operation and the touch of
\* the authority row in one transaction.  v is the vault the operation leaves.
Run(v) ==
  /\ vaultRestore = "idle" /\ lastContent < MaxContent
  /\ vaultBackups' = vaultBackups \cup {vault}
  /\ lastContent' = lastContent + 1
  /\ vault' = [v EXCEPT !.content = lastContent + 1,
                        !.fence.hwm = vault.fence.hwm + 1]
  /\ UNCHANGED <<vaultRestore, vaultRestored, build, catalogVars, owner,
                 workerVars>>

\* A review, conflict or permission decision may change readiness either way.
ReviewFacts == \E r \in BOOLEAN : Run([vault EXCEPT !.ready = r])

CommitImport ==
  \E r \in BOOLEAN : Run([vault EXCEPT !.ready = r,
                                       !.fence.import = lastContent + 1])

ConfirmProfileChange == Run([vault EXCEPT !.fence.profile = @ + 1])

RecordAcceptance ==
  Run([vault EXCEPT !.fence.receipt =
         [build |-> build, restoreGen |-> vault.fence.restoreGen]])

\* restore, first half: requests are drained, the present file is backed up
\* and the chosen backup is renamed over it, counters and all.
ReplaceVault(b) ==
  /\ vaultRestore = "idle" /\ b.fence.restoreGen < MaxVaultRestore
  /\ \A w \in Worker : ~InRequest(w)
  /\ vaultBackups' = vaultBackups \cup {vault}
  /\ vault' = b
  /\ vaultRestore' = "replaced" /\ vaultRestored' = TRUE
  /\ UNCHANGED <<lastContent, build, catalogVars, owner, workerVars>>

\* Second half: a separate transaction bumps the counters the backup brought.
TouchRestored ==
  /\ vaultRestore = "replaced"
  /\ vault' = [vault EXCEPT !.fence.hwm = @ + 1, !.fence.restoreGen = @ + 1]
  /\ vaultRestore' = "idle"
  /\ UNCHANGED <<vaultBackups, lastContent, vaultRestored, build, catalogVars,
                 owner, workerVars>>

VaultNext ==
  \/ ReviewFacts \/ CommitImport \/ ConfirmProfileChange \/ RecordAcceptance
  \/ TouchRestored
  \/ \E b \in vaultBackups \cup {vault} : ReplaceVault(b)

-----------------------------------------------------------------------------
(* Phase II: reading the two stores *)

Goto(w, step) == pc' = [pc EXCEPT ![w] = step]

\* Mutant: suspension and activation do not go through the coordinator.
MayLockUnsynchronised(w) == TRUE

\* The mutex is reentrant: a workflow may suspend inside its own transaction.
MayLock(w) == owner \in {Free, w}

\* The end of a workflow: its locals go, and its transaction with the mutex.
Leave(w) ==
  /\ Goto(w, "idle")
  /\ stage' = [stage EXCEPT ![w] = "page"]
  /\ seen' = [seen EXCEPT ![w] = NoGrant]
  /\ held' = [held EXCEPT ![w] = NoAuthority]
  /\ owner' = IF owner = w THEN Free ELSE owner

Begin(w, s, step) ==
  /\ pc[w] = "idle" /\ vaultRestore = "idle"
  /\ Goto(w, step) /\ stage' = [stage EXCEPT ![w] = s]
  /\ UNCHANGED <<vaultVars, build, catalogVars, owner, seen, held>>

BeginPage(w)     == Begin(w, "page", "grant")
BeginActivate(w) == Begin(w, "activate", "report2")
BeginCapture(w)  == w \in Publisher /\ Begin(w, "capture", "grant")

\* A later request resumes the workflow with the authority it captured.
BeginPublish(w) ==
  /\ pc[w] = "captured" /\ vaultRestore = "idle"
  /\ Goto(w, "grant") /\ stage' = [stage EXCEPT ![w] = "precheck"]
  /\ UNCHANGED <<vaultVars, build, catalogVars, owner, seen, held>>

\* The launch that holds the authority is forgotten.
Forget(w) ==
  /\ pc[w] = "captured" /\ Leave(w)
  /\ UNCHANGED <<vaultVars, build, catalogVars>>

\* validate_current: read the grant; anything but an active one ends it.
ReadGrant(w) ==
  /\ pc[w] = "grant"
  /\ \/ /\ catalog.grant.state = "active"
        /\ Goto(w, "report") /\ seen' = [seen EXCEPT ![w] = catalog.grant]
        /\ UNCHANGED <<owner, stage, held>>
     \/ /\ catalog.grant.state # "active"
        /\ Leave(w)
  /\ UNCHANGED <<vaultVars, build, catalogVars>>

\* The readiness report has a database session of its own...
ReadReport(w) ==
  /\ pc[w] = "report"
  /\ Goto(w, IF vault.ready THEN "authority" ELSE "suspend")
  /\ UNCHANGED <<vaultVars, build, catalogVars, owner, stage, seen, held>>

ReceiptIsCurrent == vault.fence.receipt.build = build

\* ... and the counters are read, and compared, in the next one.
ReadAuthority(w) ==
  /\ pc[w] = "authority"
  /\ Goto(w, IF ReceiptIsCurrent /\ vault.fence = seen[w].inputs
               THEN "view" ELSE "suspend")
  /\ UNCHANGED <<vaultVars, build, catalogVars, owner, stage, seen, held>>

ViewMatches(w) ==
  /\ catalog.grant.state = "active"
  /\ stage[w] \in {"precheck", "publish"} =>
       /\ catalog.actGen = held[w].actGen
       /\ catalog.restoreGen = held[w].restoreGen

\* The view is read afresh: it may be of another grant than the one judged.
ReadView(w) ==
  /\ pc[w] = "view"
  /\ \/ /\ ViewMatches(w) /\ stage[w] # "page"
        /\ Goto(w, "report2") /\ seen' = [seen EXCEPT ![w] = NoGrant]
        /\ held' = IF stage[w] = "capture"
                     THEN [held EXCEPT ![w].actGen = catalog.actGen,
                                       ![w].restoreGen = catalog.restoreGen,
                                       ![w].grant = catalog.grant.id]
                     ELSE held
        /\ UNCHANGED <<owner, stage>>
     \/ /\ ~ViewMatches(w) \/ stage[w] = "page"
        /\ Leave(w)
  /\ UNCHANGED <<vaultVars, build, catalogVars>>

\* Mutant: the superseding row takes a state the readers do not know.
SuspendAsRevoked(judged) ==
  /\ catalog.grant.state # "inactive"
  /\ catalogBackups' = catalogBackups \cup {catalog}
  /\ catalog' = [catalog EXCEPT !.grant.state = "revoked"]

\* suspend supersedes whatever grant is current by now, not the one judged;
\* the judged one is its source only where the catalog has none.
SuspendCurrent(judged) ==
  LET source == IF catalog.grant.state = "inactive" THEN judged
                                                    ELSE catalog.grant
  IN  \/ /\ source.state = "inactive"
         /\ UNCHANGED <<catalog, catalogBackups>>
      \/ /\ source.state # "inactive"
         /\ catalogBackups' = catalogBackups \cup {catalog}
         /\ catalog' = [catalog EXCEPT
              !.grant = [source EXCEPT !.state = "suspended"]]

Suspend(w) ==
  /\ pc[w] = "suspend" /\ MayLock(w)
  /\ SuspendCurrent(seen[w])
  /\ Leave(w)
  /\ UNCHANGED <<vaultVars, build, catalogRestore, prior, replacements,
                 issued>>

-----------------------------------------------------------------------------
(* Phase II: activation, capture and publication *)

\* activation_inputs, first session.
ReadInputsReport(w) ==
  /\ pc[w] = "report2"
  /\ \/ /\ vault.ready
        /\ Goto(w, "authority2")
        /\ UNCHANGED <<owner, stage, seen, held>>
     \/ ~vault.ready /\ Leave(w)
  /\ UNCHANGED <<vaultVars, build, catalogVars>>

ReadsInputs(w, s) ==
  pc[w] = "authority2" /\ stage[w] = s /\ ReceiptIsCurrent
ReadsSameInputs(w, s) ==
  ReadsInputs(w, s) /\ vault.fence = held[w].inputs

TakeInputs(w) ==
  held' = [held EXCEPT ![w].inputs = vault.fence,
                       ![w].content = vault.content]

\* Second session: activate and capture take the inputs as they find them...
ActivationInputs(w) ==
  /\ ReadsInputs(w, "activate") /\ TakeInputs(w)
  /\ Goto(w, "issue")
  /\ UNCHANGED <<vaultVars, build, catalogVars, owner, stage, seen>>

CaptureInputs(w) ==
  /\ ReadsInputs(w, "capture") /\ TakeInputs(w)
  /\ Goto(w, "report2") /\ stage' = [stage EXCEPT ![w] = "confirm"]
  /\ UNCHANGED <<vaultVars, build, catalogVars, owner, seen>>

\* ... and capture confirms them by a second reading.
ConfirmCapture(w) ==
  /\ ReadsSameInputs(w, "confirm")
  /\ Goto(w, "captured")
  /\ UNCHANGED <<vaultVars, build, catalogVars, owner, stage, seen, held>>

\* publish: after the check outside the transaction, take the mutex and check
\* everything again inside.
EnterTransaction(w) ==
  /\ ReadsSameInputs(w, "precheck")
  /\ owner = Free /\ owner' = w
  /\ Goto(w, "grant") /\ stage' = [stage EXCEPT ![w] = "publish"]
  /\ UNCHANGED <<vaultVars, build, catalogVars, seen, held>>

CheckInTransaction(w) ==
  /\ ReadsSameInputs(w, "publish")
  /\ Goto(w, "commit")
  /\ UNCHANGED <<vaultVars, build, catalogVars, owner, stage, seen, held>>

RefuseInputs(w) ==
  /\ pc[w] = "authority2"
  /\ \/ ~ReceiptIsCurrent
     \/ /\ stage[w] \in {"confirm", "precheck", "publish"}
        /\ vault.fence # held[w].inputs
  /\ Leave(w)
  /\ UNCHANGED <<vaultVars, build, catalogVars>>

\* The transaction commits and releases the mutex.  What it inserted, rows of
\* the catalog that no check here reads, is left out.
Publish(w) ==
  /\ pc[w] = "commit"
  /\ Goto(w, "committed") /\ owner' = Free
  /\ UNCHANGED <<vaultVars, build, catalogVars, stage, seen, held>>

Return(w) ==
  /\ pc[w] = "committed" /\ Leave(w)
  /\ UNCHANGED <<vaultVars, build, catalogVars>>

\* The publication guard or the database refuses; the transaction rolls back.
AbortPublish(w) ==
  /\ pc[w] = "commit" /\ Leave(w)
  /\ UNCHANGED <<vaultVars, build, catalogVars>>

\* Mutant: a new grant does not start a new activation generation.
IssueSameGeneration(w) ==
  /\ pc[w] = "issue" /\ MayLock(w)
  /\ catalog.grant.state # "active" /\ issued < MaxGrant
  /\ catalogBackups' = catalogBackups \cup {catalog}
  /\ issued' = issued + 1
  /\ catalog' = [catalog EXCEPT
       !.grant = [state |-> "active", id |-> issued + 1,
                  inputs |-> held[w].inputs, replacement |-> replacements]]
  /\ Leave(w)
  /\ UNCHANGED <<vaultVars, build, catalogRestore, prior, replacements>>

\* activate: the grant is issued from the inputs read before the lock.
Issue(w) ==
  /\ pc[w] = "issue" /\ MayLock(w)
  /\ catalog.grant.state # "active" /\ issued < MaxGrant
  /\ catalogBackups' = catalogBackups \cup {catalog}
  /\ issued' = issued + 1
  /\ catalog' = [catalog EXCEPT
       !.actGen = @ + 1,
       !.grant = [state |-> "active", id |-> issued + 1,
                  inputs |-> held[w].inputs, replacement |-> replacements]]
  /\ Leave(w)
  /\ UNCHANGED <<vaultVars, build, catalogRestore, prior, replacements>>

\* Another grant is active already, or the transaction fails.
RefuseIssue(w) ==
  /\ pc[w] = "issue" /\ MayLock(w)
  /\ Leave(w)
  /\ UNCHANGED <<vaultVars, build, catalogVars>>

WorkerNext(w) ==
  \/ BeginPage(w) \/ BeginActivate(w) \/ BeginCapture(w) \/ BeginPublish(w)
  \/ Forget(w)
  \/ ReadGrant(w) \/ ReadReport(w) \/ ReadAuthority(w) \/ ReadView(w)
  \/ Suspend(w)
  \/ ReadInputsReport(w) \/ ActivationInputs(w)
  \/ CaptureInputs(w) \/ ConfirmCapture(w)
  \/ EnterTransaction(w) \/ CheckInTransaction(w) \/ RefuseInputs(w)
  \/ Publish(w) \/ Return(w) \/ AbortPublish(w)
  \/ Issue(w) \/ RefuseIssue(w)

-----------------------------------------------------------------------------
(* Phase II: restore of the catalog; death of the process *)

\* restore reads the present grant without any lock...
ReadPrior ==
  /\ catalogRestore = "idle" /\ replacements < MaxCatalogRestore
  /\ prior' = catalog.grant /\ catalogRestore' = "read"
  /\ UNCHANGED <<vaultVars, build, catalog, catalogBackups, replacements,
                 issued, owner, workerVars>>

\* ... the coordinator replaces the file under the mutex ...
ReplaceCatalog(b) ==
  /\ catalogRestore = "read" /\ owner = Free
  /\ owner' = Operator
  /\ catalogBackups' = catalogBackups \cup {catalog}
  /\ catalog' = b /\ replacements' = replacements + 1
  /\ catalogRestore' = "replaced"
  /\ UNCHANGED <<vaultVars, build, prior, issued, workerVars>>

\* ... bumps the generation the backup brought and releases the mutex ...
BumpRestored ==
  /\ catalogRestore = "replaced"
  /\ catalog' = [catalog EXCEPT !.restoreGen = @ + 1]
  /\ owner' = Free /\ catalogRestore' = "bumped"
  /\ UNCHANGED <<vaultVars, build, catalogBackups, prior, replacements,
                 issued, workerVars>>

\* ... and the grant is suspended in a transaction of its own.
SuspendRestored ==
  /\ catalogRestore = "bumped" /\ owner = Free
  /\ SuspendCurrent(prior)
  /\ catalogRestore' = "idle" /\ prior' = NoGrant
  /\ UNCHANGED <<vaultVars, build, replacements, issued, owner, workerVars>>

\* The chosen backup does not verify.
AbortRestore ==
  /\ catalogRestore = "read"
  /\ catalogRestore' = "idle" /\ prior' = NoGrant
  /\ UNCHANGED <<vaultVars, build, catalog, catalogBackups, replacements,
                 issued, owner, workerVars>>

CatalogRestoreNext ==
  \/ ReadPrior \/ BumpRestored \/ SuspendRestored \/ AbortRestore
  \/ \E b \in catalogBackups \cup {catalog} : ReplaceCatalog(b)

\* The process dies and is started again, perhaps with a newer build and
\* schema.  Only the files survive.
Restart ==
  /\ build' \in {build, build + 1} /\ build' <= MaxBuild
  /\ vaultRestore' = "idle" /\ catalogRestore' = "idle" /\ prior' = NoGrant
  /\ owner' = Free
  /\ pc' = [w \in Worker |-> "idle"] /\ stage' = [w \in Worker |-> "page"]
  /\ seen' = [w \in Worker |-> NoGrant]
  /\ held' = [w \in Worker |-> NoAuthority]
  /\ UNCHANGED <<vault, vaultBackups, lastContent, vaultRestored, catalog,
                 catalogBackups, replacements, issued>>

Next ==
  \/ VaultNext
  \/ \E w \in Worker : WorkerNext(w)
  \/ CatalogRestoreNext
  \/ Restart

Spec == Init /\ [][Next]_vars

-----------------------------------------------------------------------------
(* Properties *)

Commits(w) == pc[w] = "commit" /\ pc'[w] = "committed"

\* Until a backup is installed over the vault, the check a workflow makes
\* inside its publishing transaction passes only if the vault is ready and
\* holds the very facts that were there when the workflow captured its
\* authority: no mutation slips between the separate sessions and requests in
\* which Phase II reads grant, readiness and counters.
FenceIsSound ==
  [][\A w \in Worker :
       /\ pc[w] = "authority2" /\ pc'[w] = "commit" /\ ~vaultRestored
       => vault.ready /\ vault.content = held[w].content]_vars

\* A result is committed only while a grant is active, of the activation and
\* restore generations the workflow captured, whatever other workflows
\* suspend, activate or restore meanwhile.
PublishesUnderLiveGrant ==
  [][\A w \in Worker : Commits(w) =>
       /\ catalog.grant.state = "active"
       /\ catalog.actGen = held[w].actGen
       /\ catalog.restoreGen = held[w].restoreGen]_vars

\* Until the catalog is restored, that grant is the one that was active when
\* the workflow captured its authority: a workflow never outlives a
\* suspension by picking up the next activation.
PublishesUnderCapturedGrant ==
  [][\A w \in Worker : Commits(w) /\ replacements = 0 =>
       catalog.grant.id = held[w].grant]_vars

\* The promise that every counter of the vault is ABA-safe: FenceIsSound
\* without its restriction to vaults that were never restored.
GenerationsAreAbaSafe ==
  [][\A w \in Worker : pc[w] = "authority2" /\ pc'[w] = "commit" =>
       vault.content = held[w].content]_vars

\* The promise that any restore of Phase I requires a new acceptance receipt:
\* a grant is issued only on a receipt of the present restore generation.
ActivationNeedsFreshReceipt ==
  [][issued' # issued =>
       catalog'.grant.inputs.receipt.restoreGen =
         catalog'.grant.inputs.restoreGen]_vars

\* The promise that any restore of Phase II requires a new grant: a result is
\* committed only under a grant issued since the catalog was last replaced.
CatalogRestoreNeedsNewGrant ==
  [][\A w \in Worker : Commits(w) =>
       catalog.grant.replacement = replacements]_vars

-----------------------------------------------------------------------------
(* What holds in every reachable state and makes the properties inductive  *)

\* While no backup was installed over the vault, its high water mark tells
\* which commit its facts come from, no captured authority is newer than the
\* vault, and a workflow that is about to compare equal saw the vault ready.
VaultInv ==
  ~vaultRestored =>
    /\ vaultRestore = "idle"
    /\ vault.content = lastContent
    /\ vault.fence.hwm = vault.content + 1
    /\ \A w \in Worker :
         /\ held[w].content <= vault.content
         /\ held[w].inputs.hwm = held[w].content + 1
         /\ pc[w] = "authority2" /\ held[w].content = vault.content
              => vault.ready

\* The catalog mutex is held from the start of a publishing transaction to its
\* commit, and by the operator while a replaced file awaits its new
\* generation: what the transaction read of the grant stays true.
LockInv ==
  /\ catalogRestore = "replaced" => owner = Operator
  /\ \A w \in Worker :
       /\ pc[w] = "commit" => stage[w] = "publish"
       /\ stage[w] = "publish" /\ pc[w] # "committed" => owner = w
       /\ stage[w] = "publish" /\ pc[w] \in {"report2", "authority2", "commit"}
            => ViewMatches(w)

\* While the catalog was never replaced, the activation generation counts the
\* grants issued, so equal generations mean the same grant.
GrantInv ==
  replacements = 0 =>
    /\ catalog.actGen = issued
    /\ catalog.grant.state = "active" => catalog.grant.id = issued
    /\ \A w \in Worker : held[w].grant = held[w].actGen
=============================================================================

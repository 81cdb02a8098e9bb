# A TLA+ model of Job Search Cockpit

Job Search Cockpit is a local, single-user web application. **Phase I** keeps a
vault of career facts with their evidence and the permissions on them; **Phase
II** finds job listings, maps approved facts onto their requirements, scores
the result, and renders, finalises and backs up a resume. Nearly all of what is
hard in it lies between the two phases: each has its own SQLite file, mutation
mutex, safety copies and recovery ledger, no transaction spans two of them,
either file can be replaced by an older copy of itself, and yet nothing may be
published on facts, or under a permission, that no longer hold.

Paths below are relative to `src/src/job_search_cockpit/`.

## The system

| Component | State | Operations | Correct when |
|---|---|---|---|
| Mutation coordinator of the vault (`storage/mutation.py`, `storage/backup.py`) | vault file, authority row (counters), safety copies, mutex, `_active_requests`, `_maintenance` | `run`, `run_metadata`, `begin_request`, `end_request`, `restore` | one writer; counters rise with every commit; the file is replaced only while no request is inside |
| Coordinator of the catalog (`phase2/mutation.py`) | catalog file, authority row, safety copies, mutex | `run`, `restore` | one writer; each restore has a new generation |
| Readiness, receipts, profile (`readiness`, `search_profile`, `phase1_contract/service.py`) | facts, receipts, profile versions | `report`, `record_acceptance`, `confirm_profile_change`, `snapshot_activation_inputs` | what Phase II reads is what one moment of the vault would show, or is refused later |
| Activation (`phase2/activation.py`) | the grant, `activation_generation` | `activate`, `suspend`, `validate_current`, `revalidate_before`, `restore` | nothing is published without a live grant |
| Assessment (`phase2/assessment.py`) | match assessments | `capture_for_assessment`, `publish` | the published result rests on the captured facts and grant |
| Disclosure of wording (`phase1_contract/service.py`) | authorizations, lifecycle events, epochs, ledger | authorize, release, record lifecycle, start epoch | wording is released once; a budget bounds what one epoch discloses |
| Local manual mapping (`phase2/candidates.py`, `phase2/runtime.py`) | attempts, their events, intents in the ledger, launches in memory | begin, publish, reconcile, settle | an attempt publishes at most once and both phases agree on how it ended |
| Request gate (`web/app.py`) | tasks, thread pool, event loop | the middleware around every request | no lost wake-up, no starvation |
| Verification, finalisation (`phase2/verification.py`, `finalisation.py`) | verifications (fifteen minutes), reviews, artifacts, files | `verify`, `start_review`, `finalise` | an artifact has its two complete files; nothing stale becomes final |
| Drive backup (`phase2/drive_backup.py`, `drive_api.py`, `drive_auth.py`) | append-only events, authorization states in memory, remote files | request, complete, deny, retry | a backup is complete only when both files are verified; a retry duplicates nothing |
| Discovery (`phase2/discovery.py`, providers) | runs, observations, job revisions | micro and weekly pilot | no answer obtained under changed generations is merged; the catalog is what was seen |
| Fact review, conflicts (`facts/review.py`, `facts/conflicts.py`) | claims, revisions, support, conflict groups | approve, correct, reject, revert, resolve, ... | a resume uses what the owner accepted on evidence that still stands |
| Permissions (`facts/permissions.py`) | chains of events | grant, renew, revoke, expire | what has ended stays ended; only what is due is expired |
| Imports (`imports/service.py`) | previews in memory, runs, attempts, ledger | `preview`, `apply`, reconciliation at startup | a preview applies once; a recorded outcome is true and is not lost |
| Drafts, shortlist, session, pages | short rows, views, cookies | create, view, exchange | not modelled, see below |

Processes: plain-function handlers run on threads of a bounded pool, coroutine
handlers run their blocking bodies on the event loop, one at a time, and an
operator may call `restore` of either store. Mutexes are always taken catalog
first, vault second. A crash leaves the two databases, their copies and the
two ledgers; everything else is gone. `PROJECT.json` lists the components with
what is left out, and the hazards of this code at the lines where they bite.

## The modules

### AuthorityFence: counters, grants, capture and publication

`vault` is the Phase I database: `content` is the identity of the committed
facts, which no counter of the code shows; `ready` the verdict of the readiness
report; `fence` the fields `revalidate_activation_inputs` compares. `hwm`
stands for `authority_high_water_mark` and for `readiness_generation`, which are
written together; `profile` for the profile's version and generation;
`revocation_generation` is left out since no decision reads it. `catalog` holds the
grant and the generations of Phase II. `vaultBackups` and `catalogBackups` are
the copies `run` makes before each transaction, which hold the state every earlier
commit left.

A worker is one Phase II workflow: a page that only revalidates (it also stands
for discovery and verification, which begin with the same call), an activation,
a capture, or a publication. Its actions are the database sessions of
`validate_current` and `revalidate_before` (`ReadGrant`, `ReadReport`,
`ReadAuthority`, `ReadView`), of `snapshot_activation_inputs`, of
`capture_for_assessment`, and the publishing transaction, whose check reads the
vault from inside the catalog's mutex. Every session is one action because that is
the code's grain of atomicity; between two of them anything may happen:
a commit of another kind of mutation, an upgrade of the build, a restore of a file in
its own two or three steps, a crash (`Restart`). Any number of workflows may
interleave, although the present routes run some of them one after the other:
the services are used through thread-safe coordinators, and what holds for all
interleavings holds for those.

### RequestGate and VaultAccess

`RequestGate` is the middleware, `begin_request`, `end_request`, the drain
and `restore`, with the thread pool (`PoolSize`), the event loop (`loop`) and the
mutation mutex. A section under the condition variable's lock is one action.
`VaultAccess` is its specification, in two variables: requests are inside, or the
file is being replaced. `ImplementsAccess` maps the one to the other.

### MappingPublication and OneUseDisclosure

`MappingPublication` is `begin_local_manual_mapping` and
`publish_local_manual_mapping` with every call they make: the attempt's
state in both databases, the authorization events of the Phase I ledger, the
publication intents of the Phase II ledger, the launches the process remembers,
and the running workflow (`pc`, `cur`, `want`). A transaction, or a ledger
append, is one action; any of them may raise, and the error path that the code
then takes is modelled to its end (`_settle_initial_failure`,
`_settle_failed_publication`, `_reconcile_publication`). Every case in which an
effect happens and its caller learns nothing is there: a ledger event without
its transaction, a committed attempt whose ledger append fails, and, in either
database, a transaction that commits although its call raises (both coordinators
close sessions after the commit). `late` is the
expiry of an attempt, and can come between any two steps.

Left out: the branches of `authorize_matching_disclosure` for an attempt that
exists already (its one caller makes a fresh identifier), the content of
selections, manifests and witnesses (each check passes or fails), the state
`cancelled`, which nothing asks for, and the taxonomy budget, which has the form
of the fact budget.

`OneUseDisclosure` is what the two phases promise together, with a status in each.
A disclosure, in Phase I, goes from unused through open and consuming to confirmed, its
result, in Phase II, from none to published, and either may be refused instead, for good.
Each step of one phase asks for a status in the other: a result is published only
while the disclosure is being consumed, so not after a refusal or an expiry; wording is
opened, consumed or confirmed only while Phase II has not refused; and Phase I does not
refuse what is published. `DisclosureOf` and `ResultOf` read the two statuses, each from
the database of its own phase, so no status of one phase hides a step of the other.

### ResumeFinalisation

The path from a verification to a recorded pair of files. `verification`,
`attempts`, `artifacts` and `assessment` are rows of the catalog; `files` is the
output directory, a set of files that knows which review wrote each and whether
it is complete; `pc`, `attempt`, `name` and `published` are the one handler on the
event loop. Each part of `finalise` that may raise, or between whose checks
Phase I may commit, is an action: `Finalise` the first check, `Render` the rendering and
the check after it, `CopyFile` the copy of one file of the pair to a name that must be
free, `Settle` the check on the finished pair, `RecordArtifact` the row,
`UnlinkPublished` the error path, a file at a time. `RecordArtifact` has three outcomes: the
row is committed, it is not, or it is and the call raises, after which the error path
removes the files of an artifact that is recorded (`torn`). `authority` counts everything
the captures compare: facts, profile, grant, restores. A crash leaves the files;
a restored catalog forgets artifacts whose files stay.

### DriveBackup

`request_backup`, `complete_authorization`, `deny_authorization`, `retry` and
the upload behind them. `events` and `reserved` are rows, `awaiting` and `active`
the dictionaries in memory, `remote` and `late` what is on Drive and what will
arrive there. Each call to Google is preceded by its verification of the
artifact, an action of its own (`cleared`), and has four outcomes: it works, it
works and its answer is lost, it takes effect later, it fails. A refused refresh
deletes the token, whichever token the keychain holds by then.

### JobDiscovery

A run of `_run`: capture, the check before each provider, the request, the check
in the merging transaction and `_persist_listing` for each listing. `runs`, `observations`
and `revisions` are rows, `run` the handler's local variables, `listed` what the
providers would say today. Whether a run is micro or a weekly pilot only changes `Plan`.

### FactReview

`_upsert_candidate`, the loss of evidence and `rebuild_conflicts` for an import,
every decision of the review service and of conflict resolution, and pages left
open. Each is one transaction under the mutation mutex, so each is one action;
what interleaves are decisions made on what a page showed. The versions a form
carries are compared by the code; the model therefore keeps a `page` and asks
whether a version that is still accepted still means the same
(`AcceptedPageIsCurrent`: where the claim's version is accepted the claim is as it was
shown; where the conflict's is, so is the conflict's status, and it has at least the
members shown. A resolution compares the conflict's version only, so the second half is
all it has). The claims are one semantic family, which is the unit of
conflict grouping. Several places of the sources may state one claim, and the import
takes them in reading order: `Reading` is a recursive function from the number of places
read to the claim as it is by then. The places of one occurrence (`Occurrence`: one key
in one source) may disagree, but an import links only the first revision they state, and
conflicts are rebuilt from what is linked: `stated` and `linked` differ.

### VaultServices: ImportAttempts and ConfidentialUse

`ImportAttempts` is an import as a protocol: the preview in memory, its consumption
or its refusal, which leaves it to be used, the comparison with the sources, the commit
of the run, and the outcome recorded
in the vault or, when that fails, in the recovery ledger. The call that commits may raise
afterwards (`raised`), and its attempt is then recorded as failed. `ConfidentialUse` is
the chain of events of each permission, and the expiry of what is due, which looks
in one session and records in another. `VaultServices` composes the two with what
threatens both: a crash, the launcher that reconciles the ledger and expires what
is due before it serves, and a restored safety copy.

## What is checked

| Run | Bounds | Shows |
|---|---|---|
| `fence` | 2 publishers, 2 commits, 2 grants, 2 builds | `FenceIsSound`: the check inside the publishing transaction passes only on the captured facts, with the vault ready. `PublishesUnderCapturedGrant`: no workflow survives a suspension by finding the next activation |
| `fence_restore` | 2 workers, 1 publisher, 2 grants, a restore of each store | `PublishesUnderLiveGrant` with restores and crashes at any step |
| `gate` | 3 requests, 1 restorer, pool of 3 | `ReplacedOnlyWhenDrained`, the refinement of `VaultAccess`, two liveness properties, and `NoWakeupIsLost`, the reason they hold: who sleeps has somebody under way that will wake it |
| `mapping` | 2 attempts with a fact each, budget 1, 2 epochs, a restore of each store | `BudgetHolds`, `PublishedAtMostOnce`, and the refinement of `OneUseDisclosure` until a store is restored: no result after a refusal of Phase I, no disclosure used after one of Phase II (2 403 333 states) |
| `mapping_live` | 1 attempt, 1 epoch, a restore of each store | `RememberedAttemptsAreSettled` (5 370 states) |
| `finalise` | 2 jobs of one company, 1 change of authority, 1 revision of each listing, 4 identifiers (3 417 239 states) | `ArtifactsAreWhole`, `FilesAreAccountedFor`: whatever fails, dies or is restored, no attempt removes or takes over the files of another; the files of its own artifact it removes only if the recording raised after its commit. `StaleIsNeverFinal`: facts, grant, listing or deadline that pass while the pair is written |
| `drive` | 1 artifact, the event loop and 1 callback, 4 faults (64 730 states) | `ObjectsAreRecorded`: nothing is stored twice. `CompletionIsFresh`: complete means confirmed by Drive in this attempt. `AtMostOneCallAfterDrift`, `FinalStatusStays`, and `RetriesFinish`, of backups whose failure was recorded |
| `jobs` | 2 providers with a listing each, 2 texts, 2 changes, 2 grants, 3 merged runs (1 043 483 states) | `DriftIsContained`: what is asked under moved authority is not merged. `CatalogueMatchesWhatWasSeen` |
| `services` | 2 threads, 1 preview, 2 attempts, 1 permission of 3 events, 2 keepers, 1 crash, 1 restore (3 895 709 states) | `AppliedAtMostOnce`, `OutcomesAreTrue`, `LedgerIsReconciled`, `EndedStaysEnded`, `OnlyDueExpires` |
| `facts` | 1 claim that three places of the sources state, two of them of one occurrence, 3 values, versions up to 4 (71 095 states) | `EligibleIsDecided`: an approval does not outlive its evidence. `AcceptedPageIsCurrent`, `SettledKnowsItsEvidence` |
| `facts_reopen`, `jobs_return` | as `facts`, with two places of two occurrences, and as `jobs` | one violation each, below |

Why the bounds suffice. In the fence, a torn reading needs one commit between
two sessions and a second for the ABA shape, a stale judgement needs one other
worker to suspend and activate: two of each. At the gate, one request inside, one
blocked, and one that arrives between the wake-up and the test are enough to distinguish the
counting, waking and testing errors; the theorems cover any number. In the
mapping, two attempts are what a budget of one needs to be exceeded, two epochs
are what a forgotten epoch needs, and a second restore of the same store reaches
no new combination of old and new state for one attempt.

A finalisation that fails can harm only files it finds, so two jobs that
compete for the company's first file name, with an earlier attempt each, are
enough; four identifiers allow two assessments and two verifications. Four faults let a
backup lose an answer, crash, find its object late and be refused again. Three
merged runs bring a listing back to a text it had. An attempt can be
confused with another only through one preview, so two threads, two attempts and one
preview are enough; a permission needs three events to be found due, renewed and ended.
The facts' run has one claim that three places state, two of them of one
occurrence, which exercises the order of places and what is left unlinked, and four versions, which a conflict needs to be opened, settled
and opened again with a decision after it. `MCFactReview!TwoClaims` (with
`Occurrence <- TwoSources`, `Claim = {c1, c2}`, `Value = {v1, v2}` and `MaxVersion = 2`) gives the instance in
which claims compete, of 36 910 states, and `MCDriveBackup!TwoArtifacts` (with
`MaxFaults = 1`, specification `Spec` and without `RetriesFinish`) the one in which
two backups share a token, of 1 865 010 states; both satisfy the safety properties of
their run. Larger ones exceed a few minutes.

Symmetry is used where no property is about liveness: the workers of `fence`,
the two attempts of `mapping`, of whose facts only the number is compared, the
jobs of `finalise`, the texts of `jobs`, and the threads of `services`.
`CHECK_DEADLOCK FALSE` stands where commits, grants, versions, faults or restores are
counted by bounds and the model may use them up.

### Fairness

`RequestGate!FairSpec` gives weak fairness to each step of a thread that is
under way, which the operating system's scheduler and Python's condition
variable justify, and none to the arrival of a request or the start of a restore.
`BlockedRequestsEnter` therefore excludes an operator who restores for ever.
`MappingPublication!FairSpec` assumes that a handler goes on, that the owner
posts the form of a launch again, and that Phase I does not refuse for ever what it
could record (strong fairness of the steps that change the vault). It does not
assume that a process never crashes, so liveness there is conditional on
the launch being remembered.
`DriveBackup!FairSpec` gives weak fairness to the steps of a handler that has begun:
none waits for anything but an answer, and the transport times out. The owner
retries for as long as a retry is offered (strong fairness, since handlers in
between take the offer away). Nothing is assumed of Drive: what goes wrong is counted
by `MaxFaults`, so `RetriesFinish` says that a backup whose failure was recorded ends once faults stop.
One that died before anything was recorded about it is another matter
(`VerifiedBackupsFinish` below).

### Disagreements with the documents

Two runs expect a violation; each checks one sentence of the design against the
code, and `PROJECT.json` quotes it.

* `facts_reopen` (`EligibleIsRuledOn`): a complete import in which nothing disagrees
  resolves an open conflict. When the next one states the same disagreement, the evidence
  is exactly what the group has already, so it stays resolved, and the claim can be
  approved and used although the owner never ruled on the conflict.
* `jobs_return` (`LatestSeenIsCurrent`): a listing that says x, then y, then x again is
  not revised the third time, since that observation exists; the newest revision, which
  is shown, mapped and verified, stays y.

Twelve more properties are defined beside the others and do not hold of the code. Each
shows in seconds with a copy of the named configuration, changed as said, that checks
the one property.

| Property | Configuration | What happens |
|---|---|---|
| `GenerationsAreAbaSafe` | `fence.cfg`, `Worker = {w1}`, `MaxGrant = 1`, `MaxVaultRestore = 1`, `MaxBuild = 1` | a restore brings back the vault's counters with its facts and adds one, so a captured value is reached again by other facts |
| `ActivationNeedsFreshReceipt` | `fence_restore.cfg`, `MaxContent = 0`, `MaxCatalogRestore = 0` | after a vault restore a new grant is issued on the old acceptance receipt: the receipt stores the restore mark, and nothing compares it |
| `CatalogRestoreNeedsNewGrant` | `fence_restore.cfg`, `MaxVaultRestore = 0` | the catalog's file is replaced in one transaction and the grant it brings is suspended in another; between them it publishes |
| `RestoreCompletes` | `gate.cfg`, `PoolSize = 2` | requests that wait at the closed gate hold the threads `end_request` needs; a full pool and a restore wait for each other (TLC reports a deadlock) |
| `ReplacedOnlyWhenDrained` | `gate.cfg`, `Restorer = {o1, o2}` | two overlapping restores share a flag, and the first to finish opens the gate for the second |
| `ConsumedAttemptsAreSettled` | `mapping_live.cfg` | a crash after consumption forgets the launch, and the attempt stays `consuming` |
| `AcceptedPageShowsEveryMember` | `facts.cfg` | an import adds evidence to an open conflict without a new version, so the owner may rule on it from a page that does not show that evidence |
| `ConflictPageShowsTheClaim` | `facts.cfg` | a resolution compares the version of the conflict only; a claim that was rejected, made confidential or lost its evidence since the page was opened is approved from the old page |
| `DisagreementIsGrouped` | `facts.cfg` | of two values that one source states under one key an import links the first, so their disagreement makes no conflict and can be missing from a settled one |
| `VerifiedBackupsFinish` (as a `PROPERTY`, no invariants) | `drive.cfg` | a backup that dies after its folder was verified, before a failure was recorded, counts as waiting for a sign-in, and then neither a retry nor a new request is accepted |
| `ArtifactsHaveTheirFiles` | `finalise.cfg` | the recording of an artifact raises after its commit, and the error path removes the files of the artifact it recorded |
| `FailedCommittedNothing` | `services.cfg` | the call that commits an import raises after its commit, and the attempt is recorded as failed with "no claims were committed" |

Both `restore` operations are called by operator code and tests only; no route reaches them.

## What is proved

The proofs hold for every value of the constants allowed by the assumption each
module names (`FenceAssumption`, `GateAssumption`, ...; `MappingAssumption` asks for
finitely many facts, so that they can be counted, `NoReviewAssumption` that the
value for "no review" is none). Each component's are in `<component>_proofs`.

* Type correctness of every module.
* `CheckedFactsAreTheCapturedOnes` proves `FenceIsSound`. The counters are not
  unique by themselves, so the invariant `VaultInv` says that, until a backup is
  installed, `hwm` is the number of the commit the facts come from, and no
  captured authority is ahead of the vault. Equal marks are then equal facts.
* `PublicationNeedsLiveGrant` proves `PublishesUnderLiveGrant`, with restores.
  `LockInv` says that the catalog's mutex is held from the start of the
  transaction to its commit, and by the operator until a replaced file has its new
  generation; so what was compared stays compared.
* `MutexIsNeverAbandoned` is about that mutex itself. `HolderInv`, the converse of
  `LockInv`, says that a worker holds it only inside its publishing transaction, and the
  operator only between the file's replacement and its new generation; at each of those
  places the guard of a next step is true (`CanGoOn`), also where a transaction suspends
  the grant from inside itself. TLC finds the step enabled in every such state of
  `fence_restore`.
* `PublicationNeedsCapturedGrant` proves `PublishesUnderCapturedGrant`: in
  `GrantInv` the activation generation counts the grants issued as long as the
  catalog was not replaced, so an equal generation is the same grant.
* `DrainedWhenReplaced` and `GateImplementsAccess` prove the gate's safety and
  its refinement, assuming that at most one restore is under way
  (`SingleRestorer`; with two, neither holds). `CountInv` says that
  `_active_requests` is the number of requests inside, a cardinality; `ClosedInv`
  that the gate stays closed while a restorer is past its drain.
* `WakeupsAreNotLost` proves `NoWakeupIsLost`, with any number of restores. `WakeInv`
  says that a request sleeps only at a closed gate, that a closed gate has a restore
  under way, and that a restore sleeps only on a count that is not zero; `CountInv`
  turns the count into a request inside. `SomeoneCanGoOn` adds pool, event loop and
  mutex (`HoldersInv`): if the pool has a thread for each request, the threads never all
  wait for one another. `CanGoOn` writes out the guards of the steps, as `ENABLED` is
  out of the prover's reach; that it says what `ENABLED` says was checked with TLC.
  It is what remains of `RestoreCompletes` and `BlockedRequestsEnter` without fairness.
* `AtMostOnePublication` proves `PublishedAtMostOnce`, with crashes and restores.
  `IntentInv` says that the intent in the ledger, which nothing removes, precedes
  the publication, and that between the look at the ledger and the publication no
  other workflow runs.
* `EpochsStayWithinBudget` proves `BudgetHolds`. `BudgetInv` says that every attempt
  whose wording was shown is in the ledger, so the next authorization counts it
  even if the vault has forgotten it, and that neither an epoch nor a
  restore of the vault comes between counting and release.
* `MappingImplementsOneUse` proves that `MappingPublication` implements
  `OneUseDisclosure`. The invariant `OneUseInv` relates the two databases:
  an assessment exists only while its attempt is consumed, and Phase I confirms only what
  is published (`AttemptProgress`); wherever the running workflow consumes, publishes,
  confirms or refuses, it knows enough of the other database (`WorkflowProgress`).
  `WholeStep` then shows that a step moves one status of
  one attempt, `RestoredStays` that what a restore ends does not begin again.
* `ArtifactsStayWhole`, `NoStrayFiles` and `NothingStaleIsFinal` prove the three
  properties of finalisation, the first up to artifacts whose recording raised after its
  commit; stale means stale when the pair of files was complete. `IdsInv` says that identifiers are handed out once and
  that a review is finalised once, so a file can be told by its review; `PipelineInv`
  says at each step of `finalise` which files are there and that what is published is the
  attempt's own; the lemma `StaysStale` that a review which is not current does not become
  current again: authority and listing only move on, and a deadline does not return.
* `DriveObjectsAreRecorded`, `OneCallAfterDrift`, `CompletionStaysFresh` and
  `FinalStatusIsKept` prove all safety properties of the backup. `Exclusive` says
  that no two handlers work on one artifact, so what a handler `Knows` (its
  identifiers, the history of its operation, the files it saw) no other disturbs;
  `Consents` that a consent under way belongs to a backup that has no identifiers and
  no handler, so identifiers are recorded once.
* `DriftStaysContained` and `CatalogueStaysTrue` prove the properties of discovery.
  `DriftInv` says that no captured input is ahead of the vault, and that a run that has
  asked a provider late stands before a check that will refuse it; the catalogue's proof
  shows what a merge adds to three tables at once.
* `PreviewIsAppliedOnce`, `RecordedOutcomesAreTrue` and `VaultCatchesUp` rest on
  `ApplyInv` (a preview that can be taken has no run, also in the safety copy, and no
  thread) and `OutcomeInv` (the identifiers in vault, safety copy, ledger and threads
  name one attempt each, and a run whose call raised is in none as committed). `EndedPermissionsStayEnded` and `OnlyTheDueIsExpired` need the
  types only: that what was found due is looked at again is what the cases of the proof use.
* `FactsTypeCorrect`, `EligibleWasDecided` and `AcceptedPagesAreCurrent` prove the
  invariants of `FactReview` about claims, for any number of claims and places and for any
  contents. What an import makes of a claim is a recursive function, so
  what it preserves takes an induction. The library's induction theorems are out of reach;
  `LeastElement` gets the least counterexample from the theorem that finite sets are
  well-founded under inclusion, and `Induction`, `ReadingIsDefined` and
  `ReadingInvariant` follow from it. `WhatIsRead` is then what matters: an import's claim
  has a stored revision, is in a later version or untouched, and, if it is still approved
  or corrected, is the claim there was and every place that states it agrees with it.
  `DecisionInv` is `EligibleIsDecided` without support, conflict and sensitivity, which
  decisions may change by themselves; `PageInv` adds that a page is never ahead of its
  claim, so each new version ends what older pages may do, and `ConflictInv` says the same
  of the conflict: in one version a group may only gain members.
* `SettledKnows` proves `SettledKnowsItsEvidence`. `EvidenceInv` is stronger: whenever
  what an import linked disagrees there is a group, settled or not, that holds all of it.
  It says nothing of what an import states and does not link.

Only model-checked: the liveness properties `RestoreCompletes`, `BlockedRequestsEnter`,
`RememberedAttemptsAreSettled` and `RetriesFinish`, which are out of the prover's reach.

## Plan

What is left, in this order:

1. `Scoring`: the weights, caps and bands of an assessment as functions, against a reference
   definition; the verdict alone enters the fence so far.
2. The page and candidate budgets of a discovery run.
3. `FactReview` over two families.
4. The one-use launch token and its cookie, and the process handling around the server.

## Not modelled

Rendering, parsing, HTTP to providers and to Drive beyond its outcomes, page
layout, logging, migrations, configuration, backup file formats and the hashing that
protects them. `shutdown` of the coordinator, which nothing waits for, is left out
of the gate. The window between the check inside a publishing transaction and
its commit, in which the vault may change, is in the model; the design accepts it, and
no property forbids it.

Application drafts, reusable answers and the preparation service for resumes are wired
in the runtime, but no route calls them. Eligibility, requirements, location matching and
retrieval are pure functions of validated values. The shortlist is a view; its
page raises once a focused assessment is current, because `AssessmentReviewItem`
(`phase2/shortlist.py:41`) refuses the time without zone that SQLite gives back, which is a
property of the driver's conversion and not of any order of steps.

Two more things a reader may expect to be excluded are in the models as the code has
them, and no property forbids them: a file that was half copied when its finalisation failed stays on disk
(`FilesAreAccountedFor` is about complete files), and an import whose outcome neither the vault
nor the ledger accepts leaves a committed run without one (`OutcomesAreTrue` is about
outcomes that are recorded).

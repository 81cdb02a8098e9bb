------------------------- MODULE MappingPublication -------------------------
(***************************************************************************)
(* A local manual mapping: the protocol by which Phase I discloses         *)
(* approved wording to Phase II once, and Phase II publishes at most one   *)
(* assessment for it.                                                      *)
(*                                                                         *)
(* Each phase has a database and an append-only recovery ledger of its     *)
(* own, and no transaction spans two of the four.  The handlers that begin *)
(* and publish a mapping are coroutines whose bodies block the event loop, *)
(* so one workflow runs at a time; between any two of its steps a call may *)
(* fail, before or after its transaction committed, the authorization may  *)
(* expire, the catalog may be restored, and the process may die, taking    *)
(* with it the launches, which live in memory.                             *)
(*                                                                         *)
(* Facts stand for fact and for taxonomy identifiers, which have budgets   *)
(* of the same form.  The state "cancelled" is left out: nothing requests  *)
(* it.                                                                     *)
(***************************************************************************)
EXTENDS Naturals, FiniteSets

CONSTANTS
  Attempt,      \* mapping attempts
  Fact,         \* career facts
  Facts,        \* the facts of each attempt's manifest
  FactBudget,   \* facts that may be disclosed in one epoch
  MaxEpoch      \* bound: disclosure epochs

ASSUME MappingAssumption ==
  /\ IsFiniteSet(Fact) /\ Facts \in [Attempt -> SUBSET Fact]
  /\ FactBudget \in Nat /\ MaxEpoch \in Nat

VARIABLES
  vault,         \* Phase I database: lifecycle of each attempt, epoch
  vaultLedger,   \* Phase I ledger: attempts with an authorization event
  vaultCopy,     \* the safety copy a restore of the vault will pick, if any
  catalog,       \* Phase II database: attempt states, published assessments
  catalogCopy,   \* the same for the catalog
  intents,       \* Phase II ledger: attempts with a publication intent
  epochOf,       \* epoch of the manifest each attempt is bound to
  late,          \* attempts past their expiry time
  launches,      \* launches the process remembers
  pc, cur, want, \* the running workflow, its attempt, the state to record
  shown,         \* history: attempts whose wording was returned
  publications,  \* history: how often each attempt published
  vaultRestored, catalogRestored  \* history

stores  == <<vault, vaultLedger, catalog, intents>>
copies  == <<vaultCopy, catalogCopy, vaultRestored, catalogRestored>>
process == <<launches, pc, cur, want>>
history == <<shown, publications>>
vars == <<stores, copies, epochOf, late, process, history>>

Refusal  == {"expired", "denied", "failed", "indeterminate"}
Terminal == Refusal \cup {"validated_response"}

VaultDb == [state : [Attempt -> {"none", "authorized", "consuming"} \cup Terminal],
            epoch : Nat]
CatalogDb == [state : [Attempt -> {"none", "authorized"} \cup Terminal],
              published : SUBSET Attempt]

Step == {"idle", "record", "authorize", "release", "settle", "mark",
         "reconcile", "seal", "align", "check", "intent",
         "consume", "publish", "recheck", "failed", "confirm"}

TypeOK ==
  /\ vault \in VaultDb /\ \A copy \in vaultCopy : copy \in VaultDb
  /\ catalog \in CatalogDb /\ \A copy \in catalogCopy : copy \in CatalogDb
  /\ vaultLedger \subseteq Attempt /\ intents \subseteq Attempt
  /\ epochOf \in [Attempt -> Nat]
  /\ late \subseteq Attempt /\ launches \subseteq Attempt
  /\ pc \in Step /\ cur \in Attempt /\ want \in Terminal
  /\ shown \subseteq Attempt /\ publications \in [Attempt -> Nat]
  /\ vaultRestored \in BOOLEAN /\ catalogRestored \in BOOLEAN

Init ==
  /\ vault = [state |-> [a \in Attempt |-> "none"], epoch |-> 1]
  /\ catalog = [state |-> [a \in Attempt |-> "none"], published |-> {}]
  /\ vaultCopy = {} /\ catalogCopy = {}
  /\ vaultLedger = {} /\ intents = {}
  /\ epochOf = [a \in Attempt |-> 0]
  /\ late = {} /\ launches = {}
  /\ pc = "idle" /\ cur \in Attempt /\ want = "indeterminate"
  /\ shown = {} /\ publications = [a \in Attempt |-> 0]
  /\ vaultRestored = FALSE /\ catalogRestored = FALSE

-----------------------------------------------------------------------------
(* Phase I: the lifecycle of a disclosure *)

\* Mutant: a consumed attempt can only be validated.
LifecycleOnlyValidates(desired) ==
  LET current == vault.state[cur] IN
  CASE current \in Terminal                       -> current
    [] current = "authorized" /\ cur \in late     -> "expired"
    [] current = "authorized" /\ desired # "validated_response" -> desired
    [] current = "consuming" /\ desired = "validated_response" -> desired
    [] OTHER                                      -> "raises"

\* The state record_disclosure_lifecycle leaves and returns when it is asked
\* for the state desired; it raises for a missing row and a forbidden step.
Lifecycle(desired) ==
  LET current == vault.state[cur] IN
  CASE current \in Terminal                       -> current
    [] current = "authorized" /\ cur \in late     -> "expired"
    [] current = "authorized" /\ desired # "validated_response" -> desired
    [] current = "consuming" /\ desired \in Terminal -> desired
    [] OTHER                                      -> "raises"

\* The call returns and leaves the attempt in the state s.
RecordLifecycle(desired, s) ==
  /\ s = Lifecycle(desired) /\ s # "raises"
  /\ vault' = [vault EXCEPT !.state[cur] = s]

Goto(step) == pc' = step /\ UNCHANGED want
GotoWith(step, state) == pc' = step /\ want' = state
Finish == GotoWith("idle", "indeterminate")

\* An exception ends the handler.  A launch stays remembered, so its form can
\* be posted again.
Raise == Finish /\ UNCHANGED <<stores, launches>>

-----------------------------------------------------------------------------
(* Phase II: begin_local_manual_mapping *)

BeginMapping(a) ==
  /\ pc = "idle" /\ epochOf[a] = 0
  /\ epochOf' = [epochOf EXCEPT ![a] = vault.epoch]
  /\ cur' = a /\ Goto("record")
  /\ UNCHANGED <<stores, copies, late, launches, history>>

\* _record_attempt: the attempt is committed, then noted in the ledger.
RecordAttempt ==
  /\ pc = "record"
  /\ \/ /\ catalog' = [catalog EXCEPT !.state[cur] = "authorized"]
        /\ \/ Goto("authorize")
           \/ Finish                  \* the ledger cannot be written
        /\ UNCHANGED <<vault, vaultLedger, intents, launches>>
     \/ Raise
  /\ UNCHANGED <<copies, epochOf, late, cur, history>>

DisclosedFacts(attempts) == UNION {Facts[a] : a \in attempts}

\* Mutant: the facts only the ledger remembers are not counted.
CountedForgetful(epoch) ==
  {a \in Attempt : vault.state[a] # "none" /\ epochOf[a] = epoch}

\* Attempts of the epoch in the database, or recovered from the ledger.
Counted(epoch) ==
  {a \in Attempt : /\ vault.state[a] # "none" \/ a \in vaultLedger
                   /\ epochOf[a] = epoch}

WithinBudget ==
  Cardinality(DisclosedFacts(Counted(vault.epoch) \cup {cur})) <= FactBudget

\* The ledger event is appended inside the transaction, before its commit.
\* An outcome other than "authorized" makes the caller settle the attempt.
AuthorizeDisclosure ==
  /\ pc = "authorize"
  /\ \/ \* the transaction commits
        LET outcome == IF ~WithinBudget THEN "denied"
                       ELSE IF cur \in late THEN "expired" ELSE "authorized"
        IN /\ vault' = [vault EXCEPT !.state[cur] = outcome]
           /\ vaultLedger' = vaultLedger \cup {cur}
           /\ \/ /\ outcome = "authorized" /\ Goto("release")
              \/ /\ outcome # "authorized"
                 /\ GotoWith("settle", IF outcome = "expired" THEN "denied"
                                       ELSE "indeterminate")
              \/ GotoWith("settle", "indeterminate")  \* but the call raises
     \/ \* it fails, before or after the ledger event
        /\ vaultLedger' \in {vaultLedger, vaultLedger \cup {cur}}
        /\ GotoWith("settle", "indeterminate")
        /\ UNCHANGED vault
  /\ UNCHANGED <<catalog, intents, copies, epochOf, late, launches, cur,
                 history>>

\* release_matching_wording, and the route that remembers the launch.  Its row
\* is left out: one workflow of each attempt gets here, and once.
ReleaseWording ==
  /\ pc = "release"
  /\ \/ /\ cur \notin late
        /\ shown' = shown \cup {cur} /\ launches' = launches \cup {cur}
        /\ Finish /\ UNCHANGED vault
     \/ /\ cur \in late
        /\ vault' = [vault EXCEPT !.state[cur] = "expired"]
        /\ GotoWith("settle", "indeterminate")
        /\ UNCHANGED <<shown, launches>>
     \/ \* the facts changed, or the call fails
        /\ GotoWith("settle", "indeterminate")
        /\ UNCHANGED <<vault, shown, launches>>
  /\ UNCHANGED <<vaultLedger, catalog, intents, copies, epochOf, late, cur,
                 publications>>

\* _settle_initial_failure: whatever Phase I answers, Phase II seals.
SettleLaunch ==
  /\ pc = "settle"
  /\ \/ \E s \in Terminal :
          /\ RecordLifecycle(want, s)
          /\ GotoWith("mark", s) \/ GotoWith("mark", "indeterminate")
     \/ UNCHANGED vault /\ GotoWith("mark", "indeterminate")
  /\ UNCHANGED <<vaultLedger, catalog, intents, copies, epochOf, late,
                 launches, cur, history>>

\* _terminal: the first terminal event of an attempt stays the last.
MarkTerminal ==
  /\ pc = "mark"
  /\ \/ /\ catalog.state[cur] = "authorized"
        /\ catalog' = [catalog EXCEPT !.state[cur] = want]
        /\ Finish /\ UNCHANGED <<vault, vaultLedger, intents, launches>>
     \/ Raise
  /\ UNCHANGED <<copies, epochOf, late, cur, history>>

-----------------------------------------------------------------------------
(* Phase II: publish_local_manual_mapping *)

BeginPublish(a) ==
  /\ pc = "idle" /\ a \in launches
  /\ cur' = a /\ Goto("reconcile")
  /\ UNCHANGED <<stores, copies, epochOf, late, launches, history>>

Published == cur \in catalog.published

\* Mutant: an interrupted publication is tried again.
MayStartIgnoringIntent == catalog.state[cur] = "authorized"

MayStart == catalog.state[cur] = "authorized" /\ cur \notin intents

\* _reconcile_publication: the committed assessment is the decisive witness;
\* without one, an attempt that got as far as its intent is sealed.
Reconcile ==
  /\ pc = "reconcile"
  /\ \/ \* the assessment is there: Phase I is told
        /\ Published /\ catalog.state[cur] = "validated_response"
        /\ Goto("confirm")
     \/ \* nothing was tried yet
        /\ ~Published /\ MayStart
        /\ IF cur \in late THEN GotoWith("seal", "expired")
                           ELSE Goto("check")
     \/ \* it was interrupted
        /\ ~Published /\ catalog.state[cur] = "authorized" /\ ~MayStart
        /\ GotoWith("seal", IF cur \in late THEN "expired"
                            ELSE "indeterminate")
     \/ \* it is sealed: Phase I is brought into line
        /\ ~Published /\ catalog.state[cur] \in Refusal
        /\ GotoWith("align", catalog.state[cur])
     \/ \* the catalog was restored
        /\ ~Published /\ catalog.state[cur] \in {"none", "validated_response"}
        /\ Finish
  /\ UNCHANGED <<stores, copies, epochOf, late, launches, cur, history>>

\* _record_phase1_terminal, then _terminal with the state Phase I answers.
SealVault ==
  /\ pc = "seal"
  /\ \/ /\ \E s \in Terminal :
             RecordLifecycle(want, s) /\ (GotoWith("mark", s) \/ Finish)
        /\ UNCHANGED <<vaultLedger, catalog, intents, launches>>
     \/ Raise
  /\ UNCHANGED <<copies, epochOf, late, cur, history>>

AlignVault ==
  /\ pc = "align"
  /\ \/ /\ \E s \in Terminal : RecordLifecycle(want, s)
        /\ Finish /\ UNCHANGED <<vaultLedger, catalog, intents, launches>>
     \/ Raise
  /\ UNCHANGED <<copies, epochOf, late, cur, history>>

\* The form, the job and the manifest are checked; a manifest of an earlier
\* epoch is no longer the current one.
CheckForm ==
  /\ pc = "check"
  /\ \/ vault.epoch = epochOf[cur] /\ Goto("intent")
     \/ Finish
  /\ UNCHANGED <<stores, copies, epochOf, late, launches, cur, history>>

\* _record_publication_intent, then _resolve_canonical_fact_keys, which asks
\* Phase I and changes nothing.
RecordIntent ==
  /\ pc = "intent"
  /\ \/ /\ intents' = intents \cup {cur}
        /\ Goto("consume") \/ Finish
        /\ UNCHANGED <<vault, vaultLedger, catalog, launches>>
     \/ Raise
  /\ UNCHANGED <<copies, epochOf, late, cur, history>>

\* Mutant: an exception of Phase I is suppressed, as in _settle_initial_failure.
ConsumeFailsUnnoticed == Goto("publish") /\ UNCHANGED vault
ConsumeFails ==
  /\ Goto("failed")
  /\ \/ UNCHANGED vault
     \/ \E s \in Terminal \cup {"consuming"} : RecordLifecycle("consuming", s)

\* Phase I is asked for "consuming".  A refusal it answers is recorded, an
\* exception makes the caller settle the publication as failed.
Consume ==
  /\ pc = "consume"
  /\ \/ /\ RecordLifecycle("consuming", "consuming")
        /\ Goto("publish")
     \/ \E s \in Terminal :
          /\ RecordLifecycle("consuming", s)
          /\ GotoWith("mark", IF s = "validated_response"
                              THEN "indeterminate" ELSE s)
     \/ ConsumeFails
  /\ UNCHANGED <<vaultLedger, catalog, intents, copies, epochOf, late,
                 launches, cur, history>>

GuardPasses ==
  /\ catalog.state[cur] = "authorized"
  /\ cur \notin late /\ ~Published

\* Mutant: the assessment is inserted without the attempt's terminal event.
InsertWithoutTerminal ==
  catalog' = [catalog EXCEPT !.published = @ \cup {cur},
                             !.state[cur] = "consuming"]

InsertAssessment ==
  catalog' = [catalog EXCEPT !.published = @ \cup {cur},
                             !.state[cur] = "validated_response"]

\* publish: assessment and terminal event in one transaction, behind
\* _publication_guard.  An exception may reach the caller even after the commit.
PublishAssessment ==
  /\ pc = "publish"
  /\ \/ /\ GuardPasses /\ InsertAssessment
        /\ publications' = [publications EXCEPT ![cur] = @ + 1]
        /\ Goto("confirm") \/ Goto("recheck")
     \/ /\ Goto("recheck") /\ UNCHANGED <<catalog, publications>>
  /\ UNCHANGED <<vault, vaultLedger, intents, copies, epochOf, late, launches,
                 cur, shown>>

\* The caller looks for the assessment before it settles.
Recheck ==
  /\ pc = "recheck"
  /\ Goto(IF Published THEN "reconcile" ELSE "failed")
  /\ UNCHANGED <<stores, copies, epochOf, late, launches, cur, history>>

\* _settle_failed_publication
SettleFailed ==
  /\ pc = "failed"
  /\ \/ /\ catalog.state[cur] = "validated_response"
        /\ Goto("reconcile")
     \/ /\ catalog.state[cur] \notin {"none", "validated_response"}
        /\ GotoWith("seal", IF cur \in late THEN "expired" ELSE "failed")
     \/ /\ catalog.state[cur] = "none"
        /\ Finish
  /\ UNCHANGED <<stores, copies, epochOf, late, launches, cur, history>>

\* Phase I is told of the publication; the route forgets the launch.
Confirm ==
  /\ pc = "confirm"
  /\ \/ \E s \in Terminal :
          /\ RecordLifecycle("validated_response", s)
          /\ \/ s = "validated_response" /\ launches' = launches \ {cur}
             \/ UNCHANGED launches       \* the answer is another, or the call raises
          /\ Finish /\ UNCHANGED <<vaultLedger, catalog, intents>>
     \/ Raise
  /\ UNCHANGED <<copies, epochOf, late, cur, history>>

Work ==
  \/ RecordAttempt \/ AuthorizeDisclosure \/ ReleaseWording
  \/ SettleLaunch \/ MarkTerminal
  \/ Reconcile \/ SealVault \/ AlignVault \/ CheckForm \/ RecordIntent
  \/ Consume \/ PublishAssessment \/ Recheck \/ SettleFailed
  \/ Confirm

-----------------------------------------------------------------------------
(* Around the workflows *)

\* Nobody looks at the expiry of an attempt whose launch is forgotten.
PassDeadline(a) ==
  /\ a \in launches \/ (pc # "idle" /\ cur = a)
  /\ a \notin late /\ late' = late \cup {a}
  /\ UNCHANGED <<stores, copies, epochOf, process, history>>

StartEpoch ==
  /\ pc = "idle" /\ vault.epoch < MaxEpoch
  /\ vault' = [vault EXCEPT !.epoch = @ + 1]
  /\ UNCHANGED <<vaultLedger, catalog, intents, copies, epochOf, late, process,
                 history>>

\* A career mutation, or another transaction of the catalog, leaves a safety
\* copy.  Only the one that will be picked matters, and each file is restored
\* at most once here; the vault only between requests.
CopyVault ==
  /\ ~vaultRestored /\ vaultCopy = {} /\ vaultCopy' = {vault}
  /\ UNCHANGED <<stores, catalogCopy, vaultRestored, catalogRestored, epochOf,
                 late, process, history>>
CopyCatalog ==
  /\ ~catalogRestored /\ catalogCopy = {} /\ catalogCopy' = {catalog}
  /\ UNCHANGED <<stores, vaultCopy, vaultRestored, catalogRestored, epochOf,
                 late, process, history>>

RestoreVault ==
  /\ pc = "idle" /\ vault' \in vaultCopy /\ vaultCopy' = {}
  /\ vaultRestored' = TRUE
  /\ UNCHANGED <<vaultLedger, catalog, intents, catalogCopy, catalogRestored,
                 epochOf, late, process, history>>
RestoreCatalog ==
  /\ catalog' \in catalogCopy /\ catalogCopy' = {}
  /\ catalogRestored' = TRUE
  /\ UNCHANGED <<vault, vaultLedger, intents, vaultCopy, vaultRestored,
                 epochOf, late, process, history>>

Crash ==
  /\ pc' = "idle" /\ launches' = {} /\ want' = "indeterminate"
  /\ UNCHANGED <<stores, copies, epochOf, late, cur, history>>

Next ==
  \/ \E a \in Attempt : BeginMapping(a) \/ BeginPublish(a) \/ PassDeadline(a)
  \/ Work
  \/ StartEpoch \/ CopyVault \/ CopyCatalog \/ RestoreVault \/ RestoreCatalog
  \/ Crash

Spec == Init /\ [][Next]_vars

\* A handler runs to its end, the owner keeps posting the form of a launch,
\* and Phase I does not refuse for ever what it could record.
FairSpec ==
  /\ Spec
  /\ WF_vars(Work) /\ SF_vars(Work /\ vault' # vault)
  /\ \A a \in Attempt : WF_vars(BeginPublish(a))

-----------------------------------------------------------------------------
(* Properties *)

\* The facts whose wording was returned in an epoch.
FactsShown(epoch) == DisclosedFacts({a \in shown : epochOf[a] = epoch})

\* Whatever crashes, fails or is restored, the wording returned in one epoch
\* is of no more facts than the budget allows.
BudgetHolds ==
  \A e \in 1..MaxEpoch : Cardinality(FactsShown(e)) <= FactBudget

\* An attempt publishes at most once, even when both stores are taken back to
\* a time before the publication.
PublishedAtMostOnce == \A a \in Attempt : publications[a] <= 1

Restored == vaultRestored \/ catalogRestored

\* What Phase I keeps of an attempt, and what Phase II does.
DisclosureOf(a) ==
  IF Restored THEN "unknown"
  ELSE IF vault.state[a] \in Refusal THEN "refused"
  ELSE IF vault.state[a] = "validated_response" THEN "confirmed"
  ELSE IF vault.state[a] = "consuming" THEN "consuming"
  ELSE IF vault.state[a] = "authorized" THEN "open" ELSE "unused"

ResultOf(a) ==
  IF Restored THEN "unknown"
  ELSE IF a \in catalog.published
    THEN IF catalog.state[a] = "validated_response" THEN "published" ELSE "torn"
  ELSE IF catalog.state[a] = "validated_response" THEN "torn"
  ELSE IF catalog.state[a] \in Refusal THEN "refused" ELSE "none"

OneUse == INSTANCE OneUseDisclosure
            WITH disclosure <- [a \in Attempt |-> DisclosureOf(a)],
                 result     <- [a \in Attempt |-> ResultOf(a)]

\* Until a store is restored, each step of either phase is one of
\* OneUseDisclosure.  Nothing is published unless Phase I let it be consumed and
\* has not refused it since, Phase I confirms only what is published, and refuses
\* nothing that is.  Once Phase II has refused an attempt, Phase I does not let it
\* be opened or consumed, and the assessment is there exactly with its terminal event.
ImplementsOneUse == OneUse!Spec

\* Until a store is restored, a consumed attempt reaches a terminal event as
\* long as the process remembers its launch, whose form the owner can post.
RememberedAttemptsAreSettled ==
  \A a \in Attempt :
    vault.state[a] = "consuming" ~>
      \/ vault.state[a] \in Terminal \/ a \notin launches
      \/ vaultRestored \/ catalogRestored

\* The promise that also a crash after consumption ends in a terminal event.
ConsumedAttemptsAreSettled ==
  \A a \in Attempt :
    vault.state[a] = "consuming" ~>
      vault.state[a] \in Terminal \/ vaultRestored \/ catalogRestored

-----------------------------------------------------------------------------
(* What holds in every reachable state and makes a property inductive *)

\* The intent outlives crashes and restores and is recorded once, between the
\* look at the ledger and the publication.
IntentInv ==
  /\ \A a \in Attempt :
       publications[a] = 0 \/ (publications[a] = 1 /\ a \in intents)
  /\ pc \in {"check", "intent", "consume", "publish"} => publications[cur] = 0
  /\ pc \in {"consume", "publish"} => cur \in intents

\* What was shown is in the ledger, which the restores leave alone, and is
\* therefore counted; no epoch starts and no vault is restored between the
\* counting and the release.
BudgetInv ==
  /\ vault.epoch # 0 /\ \A copy \in vaultCopy : copy.epoch # 0
  /\ shown \subseteq vaultLedger
  /\ \A a \in shown : epochOf[a] # 0
  /\ pc \in {"record", "authorize", "release"} => epochOf[cur] = vault.epoch
  /\ pc = "release" =>
       /\ cur \in vaultLedger /\ epochOf[cur] # 0
       /\ Cardinality(FactsShown(epochOf[cur]) \cup Facts[cur]) <= FactBudget
  /\ \A e \in Nat : Cardinality(FactsShown(e)) <= FactBudget

\* How far an attempt has come in both stores: its assessment is there only
\* while it is consumed, and before anything is confirmed.
AttemptProgress(a) ==
  /\ a \in catalog.published <=> catalog.state[a] = "validated_response"
  /\ a \in catalog.published => vault.state[a] \in {"consuming", "validated_response"}
  /\ vault.state[a] = "validated_response" => a \in catalog.published
  /\ epochOf[a] = 0 =>
       /\ vault.state[a] = "none" /\ catalog.state[a] = "none"
       /\ a \notin catalog.published /\ a \notin launches

\* Wherever a workflow confirms or refuses, it has found out whether the
\* assessment exists, and it only ever records a refusal of its own accord;
\* wherever it opens or consumes, Phase II has not refused.
WorkflowProgress ==
  /\ pc # "idle" => epochOf[cur] # 0
  /\ pc \notin {"idle", "reconcile", "recheck", "confirm"} => ~Published
  /\ pc = "confirm" => Published
  /\ pc \in {"record", "authorize"} => vault.state[cur] = "none"
  /\ pc = "record" => catalog.state[cur] = "none"
  /\ pc \in {"authorize", "check", "intent", "consume"} => catalog.state[cur] = "authorized"
  /\ pc = "publish" => vault.state[cur] = "consuming"
  /\ pc \in {"settle", "seal", "align", "mark"} => want \in Refusal

OneUseInv ==
  ~Restored => WorkflowProgress /\ \A a \in Attempt : AttemptProgress(a)
=============================================================================

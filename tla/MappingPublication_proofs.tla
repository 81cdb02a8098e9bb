--------------------- MODULE MappingPublication_proofs ---------------------
(* Proofs about MappingPublication: its types, that an attempt publishes at  *)
(* most once, and that an epoch discloses no more facts than its budget,     *)
(* whatever fails, crashes or is restored; and that until a restore it       *)
(* implements OneUseDisclosure.                                              *)
EXTENDS MappingPublication, FiniteSetTheorems, TLAPS

\* TypeOK in two parts: the stores with what surrounds them, the process.
StoreTypes ==
  /\ vault \in VaultDb /\ \A copy \in vaultCopy : copy \in VaultDb
  /\ catalog \in CatalogDb /\ \A copy \in catalogCopy : copy \in CatalogDb
  /\ vaultLedger \subseteq Attempt /\ intents \subseteq Attempt
  /\ epochOf \in [Attempt -> Nat] /\ late \subseteq Attempt
  /\ shown \subseteq Attempt /\ publications \in [Attempt -> Nat]
  /\ vaultRestored \in BOOLEAN /\ catalogRestored \in BOOLEAN

ProcessTypes ==
  launches \subseteq Attempt /\ pc \in Step /\ cur \in Attempt /\ want \in Terminal

LEMMA TypeParts == TypeOK <=> StoreTypes /\ ProcessTypes
BY Zenon DEF TypeOK, StoreTypes, ProcessTypes

\* A database stays one when the state of an attempt is replaced.
LEMMA VaultUpdate ==
  ASSUME vault \in VaultDb, cur \in Attempt,
         NEW s \in {"none", "authorized", "consuming"} \cup Terminal
  PROVE  [vault EXCEPT !.state[cur] = s] \in VaultDb
BY DEF VaultDb

LEMMA CatalogUpdate ==
  ASSUME catalog \in CatalogDb, cur \in Attempt,
         NEW s \in {"none", "authorized"} \cup Terminal
  PROVE  [catalog EXCEPT !.state[cur] = s] \in CatalogDb
BY DEF CatalogDb

LEMMA Terminals ==
  /\ {"indeterminate", "expired", "denied", "failed", "validated_response"}
       = Terminal
  /\ Refusal \subseteq Terminal
BY DEF Terminal, Refusal

-----------------------------------------------------------------------------
(* The process: every step moves to a place that exists, on its attempt *)

LEMMA Moves ==
  ASSUME ProcessTypes
  PROVE  /\ \A step \in Step : Goto(step) => pc' \in Step /\ want' \in Terminal
         /\ \A step \in Step, s \in Terminal :
              GotoWith(step, s) => pc' \in Step /\ want' \in Terminal
         /\ Finish => pc' \in Step /\ want' \in Terminal
         /\ Raise => pc' \in Step /\ want' \in Terminal
BY Terminals DEF ProcessTypes, Goto, GotoWith, Finish, Raise, Step

LEMMA WorkKeepsProcessTypes ==
  ASSUME ProcessTypes, StoreTypes, Work
  PROVE  ProcessTypes'
<1>1. /\ cur' = cur
      /\ launches' \subseteq launches \cup {cur}
  BY DEF Work, RecordAttempt, AuthorizeDisclosure, ReleaseWording,
         SettleLaunch, MarkTerminal, Reconcile, SealVault, AlignVault,
         CheckForm, RecordIntent, Consume, PublishAssessment, Recheck,
         SettleFailed, Confirm, Raise, stores
<1>2. pc' \in Step /\ want' \in Terminal
  <2> USE Moves, Terminals DEF Step
  <2>1. CASE RecordAttempt
    BY <2>1 DEF RecordAttempt
  <2>2. CASE AuthorizeDisclosure
    BY <2>2 DEF AuthorizeDisclosure
  <2>3. CASE ReleaseWording
    BY <2>3 DEF ReleaseWording
  <2>4. CASE SettleLaunch
    BY <2>4 DEF SettleLaunch
  <2>5. CASE MarkTerminal
    BY <2>5 DEF MarkTerminal
  <2>6. CASE Reconcile
    BY <2>6 DEF Reconcile
  <2>7. CASE SealVault
    BY <2>7 DEF SealVault
  <2>8. CASE AlignVault
    BY <2>8 DEF AlignVault
  <2>9. CASE CheckForm
    BY <2>9 DEF CheckForm
  <2>10. CASE RecordIntent
    BY <2>10 DEF RecordIntent
  <2>11. CASE Consume
    BY <2>11 DEF Consume, ConsumeFails
  <2>12. CASE PublishAssessment
    BY <2>12 DEF PublishAssessment
  <2>13. CASE Recheck
    BY <2>13 DEF Recheck
  <2>14. CASE SettleFailed
    BY <2>14 DEF SettleFailed
  <2>15. CASE Confirm
    BY <2>15 DEF Confirm
  <2> QED
    BY <2>1, <2>2, <2>3, <2>4, <2>5, <2>6, <2>7, <2>8, <2>9, <2>10, <2>11,
       <2>12, <2>13, <2>14, <2>15 DEF Work
<1> QED
  BY <1>1, <1>2 DEF ProcessTypes

-----------------------------------------------------------------------------
(* The stores *)

LEMMA RecordedVault ==
  ASSUME StoreTypes, ProcessTypes, NEW desired,
         NEW s \in {"consuming"} \cup Terminal, RecordLifecycle(desired, s)
  PROVE  vault' \in VaultDb
BY VaultUpdate DEF RecordLifecycle, StoreTypes, ProcessTypes

LEMMA WorkKeepsStoreTypes ==
  ASSUME ProcessTypes, StoreTypes, Work
  PROVE  StoreTypes'
<1>1. /\ UNCHANGED <<copies, epochOf, late>>
      /\ shown' \subseteq shown \cup {cur}
      /\ vaultLedger' \subseteq vaultLedger \cup {cur}
      /\ intents' \subseteq intents \cup {cur}
  BY DEF Work, RecordAttempt, AuthorizeDisclosure, ReleaseWording,
         SettleLaunch, MarkTerminal, Reconcile, SealVault, AlignVault,
         CheckForm, RecordIntent, Consume, PublishAssessment, Recheck,
         SettleFailed, Confirm, Raise, stores, history
<1>2. publications' \in [Attempt -> Nat]
  BY DEF Work, RecordAttempt, AuthorizeDisclosure, ReleaseWording,
         SettleLaunch, MarkTerminal, Reconcile, SealVault, AlignVault,
         CheckForm, RecordIntent, Consume, PublishAssessment, Recheck,
         SettleFailed, Confirm, history, StoreTypes
<1>3. vault' \in VaultDb
  <2>1. CASE AuthorizeDisclosure
    <3>1. {"denied", "expired", "authorized"} \subseteq
            {"none", "authorized", "consuming"} \cup Terminal
      BY Terminals
    <3> QED
      BY <2>1, <3>1, VaultUpdate DEF AuthorizeDisclosure, StoreTypes, ProcessTypes
  <2>2. CASE ReleaseWording
    <3>1. "expired" \in {"none", "authorized", "consuming"} \cup Terminal
      BY Terminals
    <3> QED
      BY <2>2, <3>1, VaultUpdate DEF ReleaseWording, StoreTypes, ProcessTypes
  <2>3. CASE SettleLaunch
    BY <2>3, RecordedVault DEF SettleLaunch, StoreTypes
  <2>4. CASE SealVault
    BY <2>4, RecordedVault DEF SealVault, Raise, stores, StoreTypes
  <2>5. CASE AlignVault
    BY <2>5, RecordedVault DEF AlignVault, Raise, stores, StoreTypes
  <2>6. CASE Consume
    BY <2>6, RecordedVault DEF Consume, ConsumeFails, StoreTypes
  <2>7. CASE Confirm
    BY <2>7, RecordedVault DEF Confirm, Raise, stores, StoreTypes
  <2>8. ASSUME UNCHANGED vault PROVE vault' \in VaultDb
    BY <2>8 DEF StoreTypes
  <2> QED
    BY <2>1, <2>2, <2>3, <2>4, <2>5, <2>6, <2>7, <2>8
    DEF Work, RecordAttempt, MarkTerminal, Reconcile, CheckForm, RecordIntent,
        PublishAssessment, Recheck, SettleFailed, Raise, stores
<1>4. catalog' \in CatalogDb
  <2>1. CASE RecordAttempt
    BY <2>1, CatalogUpdate DEF RecordAttempt, Raise, stores, StoreTypes, ProcessTypes
  <2>2. CASE MarkTerminal
    BY <2>2, CatalogUpdate DEF MarkTerminal, Raise, stores, StoreTypes, ProcessTypes
  <2>3. CASE PublishAssessment
    <3>1. [catalog EXCEPT !.published = @ \cup {cur}] \in CatalogDb
      BY DEF StoreTypes, ProcessTypes, CatalogDb
    <3>2. CASE InsertAssessment
      BY <3>2, Terminals DEF InsertAssessment, StoreTypes, ProcessTypes, CatalogDb
    <3> QED
      BY <2>3, <3>2 DEF PublishAssessment, StoreTypes
  <2>4. ASSUME UNCHANGED catalog PROVE catalog' \in CatalogDb
    BY <2>4 DEF StoreTypes
  <2> QED
    BY <2>1, <2>2, <2>3, <2>4
    DEF Work, AuthorizeDisclosure, ReleaseWording, SettleLaunch, Reconcile,
        SealVault, AlignVault, CheckForm, RecordIntent, Consume, Recheck,
        SettleFailed, Confirm, Raise, stores
<1> QED
  BY <1>1, <1>2, <1>3, <1>4 DEF StoreTypes, ProcessTypes, copies

\* What surrounds the workflows: expiry, epochs, copies, restores and crashes.
Surroundings ==
  \/ StartEpoch \/ CopyVault \/ CopyCatalog \/ RestoreVault \/ RestoreCatalog
  \/ Crash

LEMMA SurroundingsKeepTypes ==
  ASSUME StoreTypes, ProcessTypes, Surroundings
  PROVE  StoreTypes' /\ ProcessTypes'
<1>1. CASE StartEpoch
  <2>1. [vault EXCEPT !.epoch = @ + 1] \in VaultDb
    BY DEF StoreTypes, VaultDb
  <2> QED
    BY <1>1, <2>1 DEF StartEpoch, StoreTypes, ProcessTypes, copies, process, history
<1>2. CASE CopyVault \/ CopyCatalog
  BY <1>2 DEF CopyVault, CopyCatalog, StoreTypes, ProcessTypes, stores, process, history
<1>3. CASE RestoreVault \/ RestoreCatalog
  BY <1>3 DEF RestoreVault, RestoreCatalog, StoreTypes, ProcessTypes, process, history
<1>4. CASE Crash
  BY <1>4, Terminals DEF Crash, StoreTypes, ProcessTypes, Step, stores, copies, history
<1> QED
  BY <1>1, <1>2, <1>3, <1>4 DEF Surroundings

LEMMA AttemptStepsKeepTypes ==
  ASSUME StoreTypes, ProcessTypes, NEW a \in Attempt,
         BeginMapping(a) \/ BeginPublish(a) \/ PassDeadline(a)
  PROVE  StoreTypes' /\ ProcessTypes'
<1>1. CASE BeginMapping(a)
  <2>1. vault.epoch \in Nat
    BY DEF StoreTypes, VaultDb
  <2> QED
    BY <1>1, <2>1 DEF BeginMapping, Goto, StoreTypes, ProcessTypes, Step, stores, copies, history
<1>2. CASE BeginPublish(a)
  BY <1>2 DEF BeginPublish, Goto, StoreTypes, ProcessTypes, Step, stores, copies, history
<1>3. CASE PassDeadline(a)
  BY <1>3 DEF PassDeadline, StoreTypes, ProcessTypes, stores, copies, process, history
<1> QED
  BY <1>1, <1>2, <1>3

LEMMA TypeStep == TypeOK /\ [Next]_vars => TypeOK'
<1> SUFFICES ASSUME StoreTypes, ProcessTypes, [Next]_vars
             PROVE  StoreTypes' /\ ProcessTypes'
  BY TypeParts DEF TypeOK, StoreTypes, ProcessTypes
<1>1. CASE Work
  BY <1>1, WorkKeepsStoreTypes, WorkKeepsProcessTypes
<1>2. CASE Surroundings
  BY <1>2, SurroundingsKeepTypes
<1>3. CASE \E a \in Attempt : BeginMapping(a) \/ BeginPublish(a) \/ PassDeadline(a)
  BY <1>3, AttemptStepsKeepTypes
<1>4. CASE UNCHANGED vars
  BY <1>4 DEF vars, stores, copies, process, history, StoreTypes, ProcessTypes
<1> QED
  BY <1>1, <1>2, <1>3, <1>4 DEF Next, Surroundings

\* Type correctness of both phases' stores and of the running workflow.
THEOREM TypeCorrect == Spec => []TypeOK
<1>1. Init => StoreTypes
  <2>1. Init => vault \in VaultDb
    BY DEF Init, VaultDb
  <2>2. Init => catalog \in CatalogDb
    BY DEF Init, CatalogDb
  <2>3. Init => /\ \A copy \in vaultCopy : copy \in VaultDb
                /\ \A copy \in catalogCopy : copy \in CatalogDb
    BY DEF Init
  <2>4. Init => /\ vaultLedger \subseteq Attempt /\ intents \subseteq Attempt
                /\ late \subseteq Attempt /\ shown \subseteq Attempt
    BY DEF Init
  <2>5. Init => epochOf \in [Attempt -> Nat] /\ publications \in [Attempt -> Nat]
    BY DEF Init
  <2>6. Init => vaultRestored \in BOOLEAN /\ catalogRestored \in BOOLEAN
    BY DEF Init
  <2> QED
    BY <2>1, <2>2, <2>3, <2>4, <2>5, <2>6 DEF StoreTypes
<1>2. Init => ProcessTypes
  BY Terminals DEF Init, ProcessTypes, Step
<1>3. Init => TypeOK
  BY <1>1, <1>2, TypeParts
<1> QED
  BY <1>3, TypeStep, PTL DEF Spec

-----------------------------------------------------------------------------
(* Publication happens once *)

\* Only a publication counts, and it takes an attempt that is behind its intent.
LEMMA WorkKeepsIntentInv ==
  ASSUME TypeOK, IntentInv, Work
  PROVE  IntentInv'
<1> USE DEF TypeOK
<1>1. CASE Reconcile
  BY <1>1 DEF Reconcile, MayStart, Goto, GotoWith, Finish, IntentInv, stores, history
<1>2. CASE CheckForm
  BY <1>2 DEF CheckForm, Goto, GotoWith, Finish, IntentInv, stores, history
<1>3. CASE RecordIntent
  BY <1>3 DEF RecordIntent, Goto, GotoWith, Finish, Raise, IntentInv, stores, history
<1>4. CASE Consume
  BY <1>4 DEF Consume, ConsumeFails, Goto, GotoWith, IntentInv, history
<1>5. CASE PublishAssessment
  BY <1>5 DEF PublishAssessment, Goto, IntentInv
<1>6. ASSUME UNCHANGED <<intents, publications, cur>>,
             pc' \notin {"check", "intent", "consume", "publish"}
      PROVE  IntentInv'
  BY <1>6 DEF IntentInv
<1>7. CASE RecordAttempt \/ AuthorizeDisclosure \/ ReleaseWording
  BY <1>6, <1>7 DEF RecordAttempt, AuthorizeDisclosure, ReleaseWording, Raise,
     Goto, GotoWith, Finish, stores, history
<1>8. CASE SettleLaunch \/ MarkTerminal \/ SealVault \/ AlignVault
  BY <1>6, <1>8 DEF SettleLaunch, MarkTerminal, SealVault, AlignVault, Raise,
     Goto, GotoWith, Finish, stores, history
<1>9. CASE Recheck \/ SettleFailed \/ Confirm
  BY <1>6, <1>9 DEF Recheck, SettleFailed, Confirm, Raise, Goto, GotoWith,
     Finish, stores, history
<1> QED
  BY <1>1, <1>2, <1>3, <1>4, <1>5, <1>7, <1>8, <1>9 DEF Work

LEMMA IntentInvStep == TypeOK /\ IntentInv /\ [Next]_vars => IntentInv'
<1> SUFFICES ASSUME TypeOK, IntentInv, [Next]_vars PROVE IntentInv'
  OBVIOUS
<1>1. CASE Work
  BY <1>1, WorkKeepsIntentInv
<1>2. ASSUME NEW a \in Attempt, BeginMapping(a) \/ BeginPublish(a)
      PROVE  IntentInv'
  BY <1>2 DEF BeginMapping, BeginPublish, Goto, IntentInv, stores, history
<1>3. ASSUME UNCHANGED <<intents, publications, pc, cur>> PROVE IntentInv'
  BY <1>3 DEF IntentInv
<1>4. CASE \E a \in Attempt : PassDeadline(a)
  BY <1>3, <1>4 DEF PassDeadline, stores, process, history
<1>5. CASE StartEpoch \/ CopyVault \/ CopyCatalog \/ RestoreVault \/ RestoreCatalog
  BY <1>3, <1>5 DEF StartEpoch, CopyVault, CopyCatalog, RestoreVault,
     RestoreCatalog, stores, process, history
<1>6. CASE Crash
  BY <1>6 DEF Crash, IntentInv, stores, history
<1>7. CASE UNCHANGED vars
  BY <1>3, <1>7 DEF vars, stores, process, history
<1> QED
  BY <1>1, <1>2, <1>4, <1>5, <1>6, <1>7 DEF Next

\* An attempt publishes at most one assessment, although either store may be
\* taken back to a time at which it was open: the intent in the ledger, which
\* is no part of the restored files, closes the way to a second publication.
THEOREM AtMostOnePublication == Spec => []PublishedAtMostOnce
<1>1. Init => IntentInv
  BY DEF Init, IntentInv
<1>2. IntentInv => PublishedAtMostOnce
  BY DEF IntentInv, PublishedAtMostOnce
<1> QED
  BY <1>1, <1>2, IntentInvStep, TypeCorrect, PTL DEF Spec

-----------------------------------------------------------------------------
(* The budget of an epoch *)

LEMMA FewerFacts ==
  ASSUME NEW S, NEW T, S \subseteq T, T \subseteq Fact,
         Cardinality(T) <= FactBudget
  PROVE  Cardinality(S) <= FactBudget
<1>1. IsFiniteSet(T)
  BY FS_Subset, MappingAssumption
<1>2. /\ IsFiniteSet(S) /\ Cardinality(S) <= Cardinality(T)
  BY <1>1, FS_Subset
<1>3. Cardinality(S) \in Nat /\ Cardinality(T) \in Nat
  BY <1>1, <1>2, FS_CardinalityType
<1> QED
  BY <1>2, <1>3, MappingAssumption

LEMMA FactsOfAttempts ==
  \A attempts \in SUBSET Attempt : DisclosedFacts(attempts) \subseteq Fact
BY MappingAssumption DEF DisclosedFacts

\* The authorization counts, besides its own, every fact shown in its epoch.
LEMMA CountedBeforeRelease ==
  ASSUME TypeOK, BudgetInv, WithinBudget, epochOf[cur] = vault.epoch
  PROVE  Cardinality(FactsShown(epochOf[cur]) \cup Facts[cur]) <= FactBudget
<1> DEFINE counted == Counted(vault.epoch) \cup {cur}
<1>1. counted \subseteq Attempt
  BY DEF Counted, TypeOK
<1>2. {a \in shown : epochOf[a] = epochOf[cur]} \subseteq counted
  BY DEF Counted, BudgetInv, TypeOK
<1>3. FactsShown(epochOf[cur]) \cup Facts[cur] \subseteq DisclosedFacts(counted)
  BY <1>2 DEF FactsShown, DisclosedFacts
<1>4. Cardinality(DisclosedFacts(counted)) <= FactBudget
  BY DEF WithinBudget
<1>5. DisclosedFacts(counted) \subseteq Fact
  BY <1>1, FactsOfAttempts
<1> QED
  BY <1>3, <1>4, <1>5, FewerFacts

\* A step that shows nothing and keeps the epochs keeps the sets of facts.
LEMMA SameFacts ==
  ASSUME shown' = shown, \A a \in shown : epochOf'[a] = epochOf[a]
  PROVE  \A e : FactsShown(e)' = FactsShown(e)
BY DEF FactsShown, DisclosedFacts

\* What the steps of a workflow have in common.
LEMMA WorkFrame ==
  ASSUME TypeOK, Work
  PROVE  /\ vault'.epoch = vault.epoch
         /\ UNCHANGED <<vaultCopy, epochOf, cur>>
         /\ vaultLedger \subseteq vaultLedger'
         /\ pc' # "record"
         /\ shown' = shown \/ ReleaseWording
         /\ pc' = "authorize" => pc = "record"
         /\ pc' = "release" => AuthorizeDisclosure /\ pc = "authorize"
<1>1. vault'.epoch = vault.epoch
  BY DEF Work, RecordAttempt, AuthorizeDisclosure, ReleaseWording, Raise,
         SettleLaunch, MarkTerminal, Reconcile, SealVault, AlignVault,
         CheckForm, RecordIntent, Consume, ConsumeFails, PublishAssessment,
         Recheck, SettleFailed, Confirm, RecordLifecycle, stores, TypeOK, VaultDb
<1>2. /\ UNCHANGED <<vaultCopy, epochOf, cur>>
      /\ vaultLedger \subseteq vaultLedger'
      /\ shown' = shown \/ ReleaseWording
  BY DEF Work, RecordAttempt, AuthorizeDisclosure, ReleaseWording, Raise,
         SettleLaunch, MarkTerminal, Reconcile, SealVault, AlignVault,
         CheckForm, RecordIntent, Consume, PublishAssessment,
         Recheck, SettleFailed, Confirm, stores, copies, history
<1>3. /\ pc' # "record"
      /\ pc' = "authorize" => pc = "record"
      /\ pc' = "release" => AuthorizeDisclosure /\ pc = "authorize"
  BY DEF Work, RecordAttempt, AuthorizeDisclosure, ReleaseWording, Raise,
         SettleLaunch, MarkTerminal, Reconcile, SealVault, AlignVault,
         CheckForm, RecordIntent, Consume, ConsumeFails, PublishAssessment,
         Recheck, SettleFailed, Confirm, Goto, GotoWith, Finish
<1> QED
  BY <1>1, <1>2, <1>3

LEMMA AuthorizeKeepsBudget ==
  ASSUME TypeOK, BudgetInv, AuthorizeDisclosure, pc' = "release"
  PROVE  /\ cur \in vaultLedger' /\ epochOf[cur] # 0
         /\ Cardinality(FactsShown(epochOf[cur]) \cup Facts[cur]) <= FactBudget
<1>1. epochOf[cur] = vault.epoch /\ vault.epoch # 0
  BY DEF AuthorizeDisclosure, BudgetInv
<1>2. WithinBudget /\ cur \in vaultLedger'
  BY DEF AuthorizeDisclosure, Goto, GotoWith
<1> QED
  BY <1>1, <1>2, CountedBeforeRelease

LEMMA ReleaseKeepsBudget ==
  ASSUME TypeOK, BudgetInv, ReleaseWording
  PROVE  /\ shown' \subseteq vaultLedger'
         /\ \A a \in shown' : epochOf'[a] # 0
         /\ \A e \in Nat : Cardinality(FactsShown(e)') <= FactBudget
<1>1. /\ pc = "release" /\ UNCHANGED <<vaultLedger, epochOf>>
      /\ shown' = shown \/ shown' = shown \cup {cur}
  BY DEF ReleaseWording
<1>2. ASSUME NEW e \in Nat PROVE Cardinality(FactsShown(e)') <= FactBudget
  <2>1. CASE e = epochOf[cur]
    <3>1. FactsShown(e)' \subseteq FactsShown(e) \cup Facts[cur]
      BY <1>1 DEF FactsShown, DisclosedFacts
    <3>2. FactsShown(e) \cup Facts[cur] \subseteq Fact
      BY FactsOfAttempts, MappingAssumption DEF FactsShown, TypeOK
    <3> QED
      BY <1>1, <2>1, <3>1, <3>2, FewerFacts DEF BudgetInv
  <2>2. CASE e # epochOf[cur]
    <3>1. {a \in shown' : epochOf'[a] = e} = {a \in shown : epochOf[a] = e}
      BY <1>1, <2>2
    <3>2. FactsShown(e)' = FactsShown(e)
      BY <3>1 DEF FactsShown, DisclosedFacts
    <3> QED
      BY <3>2 DEF BudgetInv
  <2> QED
    BY <2>1, <2>2
<1> QED
  BY <1>1, <1>2 DEF BudgetInv

LEMMA WorkKeepsBudgetInv ==
  ASSUME TypeOK, BudgetInv, Work
  PROVE  BudgetInv'
<1>1. /\ vault'.epoch # 0 /\ \A copy \in vaultCopy' : copy.epoch # 0
      /\ pc' \in {"record", "authorize", "release"} => epochOf'[cur'] = vault'.epoch
  BY WorkFrame DEF BudgetInv
<1>2. /\ shown' \subseteq vaultLedger' /\ \A a \in shown' : epochOf'[a] # 0
      /\ \A e \in Nat : Cardinality(FactsShown(e)') <= FactBudget
  <2>1. CASE shown' = shown
    BY <2>1, WorkFrame, SameFacts DEF BudgetInv
  <2>2. CASE ReleaseWording
    BY <2>2, ReleaseKeepsBudget
  <2> QED
    BY <2>1, <2>2, WorkFrame
<1>3. ASSUME pc' = "release"
      PROVE  /\ cur' \in vaultLedger' /\ epochOf'[cur'] # 0
             /\ Cardinality(FactsShown(epochOf[cur]) \cup Facts[cur])' <= FactBudget
  <2>1. AuthorizeDisclosure /\ cur' = cur /\ epochOf' = epochOf
    BY <1>3, WorkFrame
  <2>2. shown' = shown
    BY <2>1 DEF AuthorizeDisclosure, history
  <2>3. FactsShown(epochOf[cur])' = FactsShown(epochOf[cur])
    BY <2>1, <2>2 DEF FactsShown, DisclosedFacts
  <2> QED
    BY <1>3, <2>1, <2>3, AuthorizeKeepsBudget
<1> QED
  BY <1>1, <1>2, <1>3 DEF BudgetInv

LEMMA BudgetInvStep == TypeOK /\ BudgetInv /\ [Next]_vars => BudgetInv'
<1> SUFFICES ASSUME TypeOK, BudgetInv, [Next]_vars PROVE BudgetInv'
  OBVIOUS
<1>1. CASE Work
  BY <1>1, WorkKeepsBudgetInv
<1>2. ASSUME shown' = shown, vaultLedger' = vaultLedger,
             \A a \in shown : epochOf'[a] = epochOf[a],
             vault'.epoch # 0, \A copy \in vaultCopy' : copy.epoch # 0,
             pc' # "release",
             pc' \in {"record", "authorize"} => epochOf'[cur'] = vault'.epoch
      PROVE  BudgetInv'
  <2>1. \A e : FactsShown(e)' = FactsShown(e)
    BY <1>2, SameFacts
  <2> QED
    BY <1>2, <2>1 DEF BudgetInv
<1>3. ASSUME UNCHANGED <<shown, vaultLedger, epochOf, pc, cur, vault>>,
             \A copy \in vaultCopy' : copy.epoch # 0
      PROVE  BudgetInv'
  <2>1. \A e : FactsShown(e)' = FactsShown(e)
    BY <1>3, SameFacts
  <2> QED
    BY <1>3, <2>1 DEF BudgetInv
<1>4. ASSUME NEW a \in Attempt, BeginMapping(a) PROVE BudgetInv'
  <2>1. \A b \in shown : epochOf'[b] = epochOf[b]
    BY <1>4 DEF BeginMapping, BudgetInv, TypeOK
  <2>2. epochOf'[cur'] = vault'.epoch
    BY <1>4 DEF BeginMapping, TypeOK, stores
  <2> QED
    BY <1>2, <1>4, <2>1, <2>2
    DEF BeginMapping, Goto, BudgetInv, stores, copies, history
<1>5. ASSUME NEW a \in Attempt, BeginPublish(a) PROVE BudgetInv'
  BY <1>2, <1>5 DEF BeginPublish, Goto, BudgetInv, stores, copies, history
<1>6. ASSUME NEW a \in Attempt, PassDeadline(a) PROVE BudgetInv'
  BY <1>3, <1>6 DEF PassDeadline, BudgetInv, stores, copies, process, history
<1>7. CASE StartEpoch
  <2>1. vault'.epoch # 0 /\ pc' = "idle"
    BY <1>7 DEF StartEpoch, TypeOK, VaultDb, process
  <2> QED
    BY <1>2, <1>7, <2>1 DEF StartEpoch, BudgetInv, copies, history
<1>8. CASE CopyVault \/ CopyCatalog \/ RestoreCatalog
  BY <1>3, <1>8 DEF CopyVault, CopyCatalog, RestoreCatalog, BudgetInv, stores,
     process, history
<1>9. CASE RestoreVault
  BY <1>2, <1>9 DEF RestoreVault, BudgetInv, process, history
<1>10. CASE Crash
  BY <1>2, <1>10 DEF Crash, BudgetInv, stores, copies, history
<1>11. CASE UNCHANGED vars
  BY <1>3, <1>11 DEF vars, BudgetInv, stores, copies, process, history
<1> QED
  BY <1>1, <1>4, <1>5, <1>6, <1>7, <1>8, <1>9, <1>10, <1>11 DEF Next

LEMMA BudgetInvariant == Spec => []BudgetInv
<1>1. Init => BudgetInv
  <2> SUFFICES ASSUME Init PROVE BudgetInv
    OBVIOUS
  <2>1. ASSUME NEW e \in Nat PROVE Cardinality(FactsShown(e)) <= FactBudget
    <3>1. FactsShown(e) = {}
      BY DEF Init, FactsShown, DisclosedFacts
    <3> QED
      BY <3>1, FS_EmptySet, MappingAssumption
  <2> QED
    BY <2>1 DEF Init, BudgetInv
<1> QED
  BY <1>1, BudgetInvStep, TypeCorrect, PTL DEF Spec

\* The wording returned in an epoch stays within the budget: what a restore
\* removes from the vault, the authorization finds in the ledger.
THEOREM EpochsStayWithinBudget == Spec => []BudgetHolds
<1>1. BudgetInv => BudgetHolds
  BY MappingAssumption DEF BudgetInv, BudgetHolds
<1> QED
  BY <1>1, BudgetInvariant, PTL

-----------------------------------------------------------------------------
(* The two stores act like one *)

\* What a write to either database leaves behind.
VaultSets(s) ==
  /\ vault'.state[cur] = s
  /\ \A a \in Attempt \ {cur} : vault'.state[a] = vault.state[a]

CatalogSets(s) ==
  /\ catalog'.state[cur] = s
  /\ \A a \in Attempt \ {cur} : catalog'.state[a] = catalog.state[a]

LEMMA VaultWrite ==
  ASSUME TypeOK, NEW s, vault' = [vault EXCEPT !.state[cur] = s]
  PROVE  VaultSets(s)
BY DEF TypeOK, VaultDb, VaultSets

LEMMA CatalogWrite ==
  ASSUME TypeOK, NEW s, catalog' = [catalog EXCEPT !.state[cur] = s]
  PROVE  CatalogSets(s) /\ catalog'.published = catalog.published
BY DEF TypeOK, CatalogDb, CatalogSets

LEMMA AssessmentWrite ==
  ASSUME TypeOK, InsertAssessment
  PROVE  /\ CatalogSets("validated_response")
         /\ catalog'.published = catalog.published \cup {cur}
BY DEF TypeOK, CatalogDb, CatalogSets, InsertAssessment

\* The answer of Phase I is written down, and is a refusal when a refusal was
\* asked for and nothing is validated yet.
LEMMA LifecycleAnswer ==
  ASSUME TypeOK, NEW desired, NEW s, RecordLifecycle(desired, s)
  PROVE  /\ VaultSets(s)
         /\ vault.state[cur] \in Terminal => s = vault.state[cur]
         /\ vault.state[cur] \notin Terminal =>
              vault.state[cur] \in {"authorized", "consuming"}
         /\ desired \in Refusal /\ vault.state[cur] # "validated_response"
              => s \in Refusal
         /\ desired = "consuming" /\ s = "consuming"
              => vault.state[cur] = "authorized"
         /\ desired = "consuming" /\ vault.state[cur] # "validated_response"
              => s \in Refusal \cup {"consuming"}
         /\ desired = "validated_response" /\ vault.state[cur] = "consuming"
              => s = "validated_response"
<1>1. VaultSets(s)
  BY VaultWrite DEF RecordLifecycle
<1>2. s = Lifecycle(desired) /\ s # "raises"
  BY DEF RecordLifecycle
<1> QED
  BY <1>1, <1>2 DEF Lifecycle, Terminal, Refusal

\* What OneUseDisclosure lets a disclosure d and its result r become.
OneUseMove(d, r, d2, r2) ==
  \/ d2 = d /\ r2 = r
  \/ /\ r2 = r
     /\ \/ r = "none" /\ d = "unused" /\ d2 = "open"
        \/ r = "none" /\ d = "open" /\ d2 = "consuming"
        \/ r = "published" /\ d = "consuming" /\ d2 = "confirmed"
        \/ r # "published" /\ d \in {"unused", "open", "consuming"} /\ d2 = "refused"
  \/ /\ d2 = d /\ r = "none"
     /\ \/ d = "consuming" /\ r2 = "published"
        \/ d # "confirmed" /\ r2 = "refused"

SameStatus(a) == DisclosureOf(a)' = DisclosureOf(a) /\ ResultOf(a)' = ResultOf(a)

Whole == ~vaultRestored /\ ~catalogRestored

LEMMA WorkTouchesOne ==
  ASSUME TypeOK, Work
  PROVE  /\ UNCHANGED <<cur, epochOf, vaultRestored, catalogRestored>>
         /\ launches' \subseteq launches \cup {cur}
         /\ \A a \in Attempt \ {cur} :
              /\ vault'.state[a] = vault.state[a]
              /\ catalog'.state[a] = catalog.state[a]
              /\ a \in catalog'.published <=> a \in catalog.published
<1>1. /\ UNCHANGED <<cur, epochOf, vaultRestored, catalogRestored>>
      /\ launches' \subseteq launches \cup {cur}
  BY DEF Work, RecordAttempt, AuthorizeDisclosure, ReleaseWording, Raise,
         SettleLaunch, MarkTerminal, Reconcile, SealVault, AlignVault,
         CheckForm, RecordIntent, Consume, PublishAssessment,
         Recheck, SettleFailed, Confirm, stores, copies
<1>2. ASSUME NEW a \in Attempt \ {cur} PROVE vault'.state[a] = vault.state[a]
  <2>1. vault' = vault \/ \E s : VaultSets(s)
    BY VaultWrite
    DEF Work, RecordAttempt, AuthorizeDisclosure, ReleaseWording, Raise,
        SettleLaunch, MarkTerminal, Reconcile, SealVault, AlignVault,
        CheckForm, RecordIntent, Consume, ConsumeFails, PublishAssessment,
        Recheck, SettleFailed, Confirm, RecordLifecycle, stores
  <2> QED
    BY <2>1 DEF VaultSets
<1>3. ASSUME NEW a \in Attempt \ {cur}
      PROVE  /\ catalog'.state[a] = catalog.state[a]
             /\ a \in catalog'.published <=> a \in catalog.published
  <2>1. \/ catalog' = catalog
        \/ \E s : /\ CatalogSets(s)
                  /\ \/ catalog'.published = catalog.published
                     \/ catalog'.published = catalog.published \cup {cur}
    BY CatalogWrite, AssessmentWrite
    DEF Work, RecordAttempt, AuthorizeDisclosure, ReleaseWording, Raise,
        SettleLaunch, MarkTerminal, Reconcile, SealVault, AlignVault,
        CheckForm, RecordIntent, Consume, PublishAssessment,
        Recheck, SettleFailed, Confirm, stores
  <2> QED
    BY <2>1 DEF CatalogSets
<1> QED
  BY <1>1, <1>2, <1>3

\* One step of a workflow, seen from its attempt.
LEMMA WorkProgress ==
  ASSUME TypeOK, Whole, WorkflowProgress, AttemptProgress(cur), Work
  PROVE  /\ WorkflowProgress' /\ AttemptProgress(cur)'
         /\ OneUseMove(DisclosureOf(cur), ResultOf(cur), DisclosureOf(cur)', ResultOf(cur)')
<1> USE DEF WorkflowProgress, AttemptProgress, Published, DisclosureOf, ResultOf, Restored,
            OneUseMove, Goto, GotoWith, Finish
<1>0. /\ Whole' /\ cur' = cur /\ epochOf' = epochOf
      /\ launches' \subseteq launches \cup {cur}
      /\ Whole => ~vaultRestored /\ ~catalogRestored
      /\ Whole' => ~vaultRestored' /\ ~catalogRestored'
  BY WorkTouchesOne DEF Whole
<1>1. CASE RecordAttempt
  BY <1>0, <1>1, CatalogWrite DEF RecordAttempt, CatalogSets, Raise, stores, Refusal
<1>2. CASE AuthorizeDisclosure
  BY <1>0, <1>2, VaultWrite DEF AuthorizeDisclosure, VaultSets, Refusal
<1>3. CASE ReleaseWording
  BY <1>0, <1>3, VaultWrite DEF ReleaseWording, VaultSets, Refusal
<1>4. CASE SettleLaunch
  BY <1>0, <1>4, LifecycleAnswer DEF SettleLaunch, VaultSets, Refusal
<1>5. CASE MarkTerminal
  BY <1>0, <1>5, CatalogWrite DEF MarkTerminal, CatalogSets, Raise, stores, Refusal
<1>6. CASE Reconcile
  <2>1. UNCHANGED <<vault, catalog, intents>> /\ pc = "reconcile"
    BY <1>6 DEF Reconcile, stores
  <2>2. \/ pc' = "confirm" /\ Published
        \/ pc' = "check" /\ ~Published /\ catalog.state[cur] = "authorized"
        \/ pc' \in {"seal", "align"} /\ ~Published /\ want' \in Refusal
        \/ pc' = "idle"
    BY <1>6 DEF Reconcile, MayStart, Refusal
  <2>3. WorkflowProgress'
    BY <1>0, <2>1, <2>2
  <2> QED
    BY <1>0, <2>1, <2>3
<1>7. CASE SealVault
  <2>1. CASE Raise
    BY <1>0, <1>7, <2>1 DEF SealVault, Raise, stores
  <2>2. ASSUME NEW s \in Terminal, RecordLifecycle(want, s),
               UNCHANGED catalog, pc' = "idle" \/ GotoWith("mark", s)
        PROVE  /\ WorkflowProgress' /\ AttemptProgress(cur)'
               /\ OneUseMove(DisclosureOf(cur), ResultOf(cur), DisclosureOf(cur)', ResultOf(cur)')
    <3>1. /\ want \in Refusal /\ cur \notin catalog.published
          /\ vault.state[cur] # "validated_response"
      BY <1>7 DEF SealVault
    <3>2. /\ VaultSets(s) /\ s \in Refusal
          /\ vault.state[cur] \in Terminal => s = vault.state[cur]
      BY <2>2, <3>1, LifecycleAnswer
    <3>3. s # "validated_response" /\ s # "consuming"
      BY <3>2 DEF Refusal
    <3> QED
      BY <1>0, <1>7, <2>2, <3>1, <3>2, <3>3 DEF SealVault, VaultSets
  <2> QED
    BY <1>7, <2>1, <2>2 DEF SealVault
<1>8. CASE AlignVault
  <2>1. CASE Raise
    BY <1>0, <1>8, <2>1 DEF AlignVault, Raise, stores
  <2>2. ASSUME NEW s \in Terminal, RecordLifecycle(want, s),
               UNCHANGED catalog, pc' = "idle" \/ GotoWith("mark", s)
        PROVE  /\ WorkflowProgress' /\ AttemptProgress(cur)'
               /\ OneUseMove(DisclosureOf(cur), ResultOf(cur), DisclosureOf(cur)', ResultOf(cur)')
    <3>1. /\ want \in Refusal /\ cur \notin catalog.published
          /\ vault.state[cur] # "validated_response"
      BY <1>8 DEF AlignVault
    <3>2. /\ VaultSets(s) /\ s \in Refusal
          /\ vault.state[cur] \in Terminal => s = vault.state[cur]
      BY <2>2, <3>1, LifecycleAnswer
    <3>3. s # "validated_response" /\ s # "consuming"
      BY <3>2 DEF Refusal
    <3> QED
      BY <1>0, <1>8, <2>2, <3>1, <3>2, <3>3 DEF AlignVault, VaultSets
  <2> QED
    BY <1>8, <2>1, <2>2 DEF AlignVault
<1>9. CASE CheckForm
  BY <1>0, <1>9 DEF CheckForm, stores
<1>10. CASE RecordIntent
  BY <1>0, <1>10 DEF RecordIntent, Raise, stores
<1>11. CASE Consume
  <2>1. /\ cur \notin catalog.published /\ catalog' = catalog /\ pc = "consume"
        /\ vault.state[cur] # "validated_response"
    BY <1>11 DEF Consume
  <2>2. CASE ConsumeFails
    <3>1. pc' = "failed"
      BY <2>2 DEF ConsumeFails
    <3>2. ASSUME NEW s \in Terminal \cup {"consuming"}, RecordLifecycle("consuming", s)
          PROVE  /\ AttemptProgress(cur)'
                 /\ OneUseMove(DisclosureOf(cur), ResultOf(cur), DisclosureOf(cur)', ResultOf(cur)')
      <4>1. /\ VaultSets(s) /\ s \in Refusal \cup {"consuming"}
            /\ vault.state[cur] \in Terminal => s = vault.state[cur]
            /\ vault.state[cur] \notin Terminal =>
                 vault.state[cur] \in {"authorized", "consuming"}
            /\ s = "consuming" => vault.state[cur] = "authorized"
        BY <2>1, <3>2, LifecycleAnswer
      <4>2. s # "validated_response" /\ catalog.state[cur] = "authorized"
        BY <2>1, <4>1 DEF Refusal
      <4> QED
        BY <1>0, <2>1, <4>1, <4>2 DEF VaultSets, Refusal, Terminal
    <3>3. CASE UNCHANGED vault
      BY <1>0, <2>1, <3>1, <3>3
    <3>4. WorkflowProgress'
      BY <1>0, <2>1, <3>1
    <3> QED
      BY <2>2, <3>2, <3>3, <3>4 DEF ConsumeFails
  <2>3. CASE RecordLifecycle("consuming", "consuming") /\ Goto("publish")
    <3>1. VaultSets("consuming") /\ vault.state[cur] = "authorized"
      <4>1. "consuming" \notin Terminal
        BY DEF Terminal, Refusal
      <4> QED
        BY <2>3, <4>1, LifecycleAnswer
    <3> QED
      BY <1>0, <1>11, <2>1, <2>3, <3>1 DEF Consume, VaultSets, Refusal
  <2>4. ASSUME NEW s \in Terminal, RecordLifecycle("consuming", s),
               GotoWith("mark", IF s = "validated_response"
                                THEN "indeterminate" ELSE s)
        PROVE  /\ WorkflowProgress' /\ AttemptProgress(cur)'
               /\ OneUseMove(DisclosureOf(cur), ResultOf(cur), DisclosureOf(cur)', ResultOf(cur)')
    <3>1. VaultSets(s) /\ s \in Refusal
      BY <2>1, <2>4, LifecycleAnswer DEF Terminal, Refusal
    <3>2. s # "validated_response" /\ s # "consuming"
      BY <3>1 DEF Refusal
    <3> QED
      BY <1>0, <1>11, <2>1, <2>4, <3>1, <3>2 DEF Consume, VaultSets
  <2> QED
    BY <1>11, <2>2, <2>3, <2>4 DEF Consume
<1>12. CASE PublishAssessment
  <2>1. /\ pc = "publish" /\ vault' = vault /\ pc' \in {"confirm", "recheck"}
        /\ vault.state[cur] = "consuming" /\ cur \notin catalog.published
    BY <1>12 DEF PublishAssessment
  <2>2. CASE GuardPasses /\ InsertAssessment
    <3>1. /\ catalog'.state[cur] = "validated_response" /\ cur \in catalog'.published
          /\ catalog.state[cur] = "authorized"
      BY <2>2, AssessmentWrite DEF CatalogSets, GuardPasses
    <3>2. cur' = cur /\ epochOf' = epochOf /\ epochOf[cur] # 0
      BY <1>0, <2>1
    <3>5. WorkflowProgress'
      BY <2>1, <3>1, <3>2
    <3>6. AttemptProgress(cur)'
      BY <2>1, <3>1, <3>2
    <3>3. DisclosureOf(cur) = "consuming" /\ DisclosureOf(cur)' = "consuming"
      BY <1>0, <2>1 DEF Refusal
    <3>4. ResultOf(cur) = "none" /\ ResultOf(cur)' = "published"
      BY <1>0, <2>1, <3>1 DEF Refusal
    <3> HIDE DEF DisclosureOf, ResultOf
    <3> QED
      BY <3>3, <3>4, <3>5, <3>6
  <2>3. CASE UNCHANGED catalog /\ pc' = "recheck"
    BY <1>0, <2>1, <2>3
  <2> QED
    BY <1>12, <2>2, <2>3 DEF PublishAssessment
<1>13. CASE Recheck
  BY <1>0, <1>13 DEF Recheck, stores
<1>14. CASE SettleFailed
  BY <1>0, <1>14 DEF SettleFailed, stores, Refusal
<1>15. CASE Confirm
  BY <1>0, <1>15, LifecycleAnswer DEF Confirm, VaultSets, Raise, stores, Refusal
<1> QED
  BY <1>1, <1>2, <1>3, <1>4, <1>5, <1>6, <1>7, <1>8, <1>9, <1>10, <1>11,
     <1>12, <1>13, <1>14, <1>15 DEF Work

\* The attempts the step does not work on.
LEMMA OthersStay ==
  ASSUME TypeOK, Whole, Whole', NEW a \in Attempt, AttemptProgress(a),
         vault'.state[a] = vault.state[a], catalog'.state[a] = catalog.state[a],
         a \in catalog'.published <=> a \in catalog.published,
         epochOf'[a] = 0 => epochOf[a] = 0, a \in launches' => a \in launches
  PROVE  AttemptProgress(a)' /\ SameStatus(a)
BY DEF AttemptProgress, SameStatus, DisclosureOf, ResultOf, Restored, Whole

\* While both stores are whole, a step keeps the invariant and moves the status
\* of one attempt as OneUseDisclosure allows.
LEMMA WholeStep ==
  ASSUME TypeOK, BudgetInv, Whole, WorkflowProgress,
         \A a \in Attempt : AttemptProgress(a), [Next]_vars, Whole'
  PROVE  /\ WorkflowProgress' /\ \A a \in Attempt : AttemptProgress(a)'
         /\ \E b \in Attempt :
              /\ OneUseMove(DisclosureOf(b), ResultOf(b), DisclosureOf(b)', ResultOf(b)')
              /\ \A a \in Attempt \ {b} : SameStatus(a)
<1>0. cur \in Attempt
  BY DEF TypeOK
<1>1. CASE Work
  <2>1. /\ WorkflowProgress' /\ AttemptProgress(cur)'
        /\ OneUseMove(DisclosureOf(cur), ResultOf(cur), DisclosureOf(cur)', ResultOf(cur)')
    BY <1>0, <1>1, WorkProgress
  <2>2. \A a \in Attempt \ {cur} : AttemptProgress(a)' /\ SameStatus(a)
    BY <1>1, WorkTouchesOne, OthersStay
  <2>3. PICK b \in Attempt : b = cur
    BY <1>0
  <2>4. cur' = b
    BY <1>1, <2>3, WorkTouchesOne
  <2>5. /\ AttemptProgress(b)'
        /\ OneUseMove(DisclosureOf(b), ResultOf(b), DisclosureOf(b)', ResultOf(b)')
    BY <2>1, <2>3, <2>4 DEF AttemptProgress, DisclosureOf, ResultOf, Restored
  <2>6. \A a \in Attempt : AttemptProgress(a)'
    BY <2>2, <2>3, <2>5
  <2> QED
    BY <2>1, <2>2, <2>3, <2>5, <2>6
<1>2. ASSUME UNCHANGED <<vault, catalog>> \/ StartEpoch,
             \A a \in Attempt : epochOf'[a] = 0 => epochOf[a] = 0,
             launches' \subseteq launches, WorkflowProgress'
      PROVE  /\ WorkflowProgress' /\ \A a \in Attempt : AttemptProgress(a)'
             /\ \E b \in Attempt :
                  /\ OneUseMove(DisclosureOf(b), ResultOf(b), DisclosureOf(b)', ResultOf(b)')
                  /\ \A a \in Attempt \ {b} : SameStatus(a)
  <2>1. UNCHANGED catalog /\ vault'.state = vault.state
    BY <1>2 DEF StartEpoch, TypeOK, VaultDb
  <2>2. \A a \in Attempt : AttemptProgress(a)' /\ SameStatus(a)
    BY <1>2, <2>1, OthersStay
  <2> QED
    BY <1>0, <1>2, <2>2 DEF OneUseMove, SameStatus
<1>3. ASSUME NEW a \in Attempt, BeginMapping(a)
      PROVE  /\ UNCHANGED <<vault, catalog, launches>> /\ WorkflowProgress'
             /\ \A b \in Attempt : epochOf'[b] = 0 => epochOf[b] = 0
  <2>1. /\ UNCHANGED <<vault, catalog, launches>> /\ epochOf[a] = 0
        /\ cur' = a /\ pc' = "record" /\ epochOf'[a] = vault.epoch
        /\ \A b \in Attempt \ {a} : epochOf'[b] = epochOf[b]
    BY <1>3 DEF BeginMapping, Goto, stores, TypeOK
  <2>2. vault.epoch # 0
    BY DEF BudgetInv
  <2> QED
    BY <2>1, <2>2 DEF WorkflowProgress, AttemptProgress, Published
<1>4. ASSUME NEW a \in Attempt, BeginPublish(a)
      PROVE  UNCHANGED <<vault, catalog, launches, epochOf>> /\ WorkflowProgress'
  BY <1>4 DEF BeginPublish, Goto, stores, WorkflowProgress, AttemptProgress, Published
<1>5. ASSUME UNCHANGED <<vault, catalog, process, epochOf>> PROVE WorkflowProgress'
  BY <1>5 DEF process, WorkflowProgress, Published
<1>6. ASSUME NEW a \in Attempt, PassDeadline(a)
      PROVE  UNCHANGED <<vault, catalog, process, epochOf>>
  BY <1>6 DEF PassDeadline, stores
<1>7. CASE StartEpoch
  <2>1. WorkflowProgress'
    BY <1>7 DEF StartEpoch, process, WorkflowProgress
  <2> QED
    BY <1>2, <1>7, <2>1 DEF StartEpoch, process
<1>8. CASE CopyVault \/ CopyCatalog
  <2>1. UNCHANGED <<vault, catalog, process, epochOf>>
    BY <1>8 DEF CopyVault, CopyCatalog, stores
  <2> QED
    BY <1>2, <1>5, <2>1 DEF process
<1>9. CASE Crash
  <2>1. /\ UNCHANGED <<vault, catalog, epochOf>> /\ launches' = {} /\ pc' = "idle"
    BY <1>9 DEF Crash, stores
  <2>2. WorkflowProgress'
    BY <2>1 DEF WorkflowProgress
  <2> QED
    BY <1>2, <2>1, <2>2
<1>10. CASE UNCHANGED vars
  BY <1>2, <1>5, <1>10 DEF vars, stores, process
<1>11. ~RestoreVault /\ ~RestoreCatalog
  BY DEF Whole, RestoreVault, RestoreCatalog
<1>12. CASE \E a \in Attempt : BeginMapping(a)
  BY <1>2, <1>3, <1>12
<1>13. CASE \E a \in Attempt : BeginPublish(a)
  BY <1>2, <1>4, <1>13
<1>14. CASE \E a \in Attempt : PassDeadline(a)
  BY <1>2, <1>5, <1>6, <1>14 DEF process
<1> QED
  BY <1>1, <1>7, <1>8, <1>9, <1>10, <1>11, <1>12, <1>13, <1>14 DEF Next

\* A store that was restored stays marked so.
LEMMA RestoredStays == TypeOK /\ [Next]_vars /\ ~Whole => ~Whole'
<1> SUFFICES ASSUME TypeOK, [Next]_vars, ~Whole PROVE ~Whole'
  OBVIOUS
<1>1. CASE Work
  BY <1>1, WorkTouchesOne DEF Whole
<1>2. CASE Surroundings
  BY <1>2 DEF Surroundings, StartEpoch, CopyVault, CopyCatalog, RestoreVault,
     RestoreCatalog, Crash, copies, Whole, TypeOK
<1>3. CASE UNCHANGED <<vaultRestored, catalogRestored>>
  BY <1>3 DEF Whole
<1> QED
  BY <1>1, <1>2, <1>3 DEF Next, Surroundings, BeginMapping, BeginPublish,
     PassDeadline, vars, copies

LEMMA OneUseInvStep ==
  TypeOK /\ BudgetInv /\ OneUseInv /\ [Next]_vars => OneUseInv'
BY WholeStep, RestoredStays DEF OneUseInv, Whole, Restored

LEMMA OneUseInvariant == Spec => []OneUseInv
<1>1. Init => OneUseInv
  BY DEF Init, OneUseInv, WorkflowProgress, AttemptProgress, Published, Restored
<1> QED
  BY <1>1, OneUseInvStep, BudgetInvariant, TypeCorrect, PTL DEF Spec

\* A move of one attempt is a step of OneUseDisclosure.
LEMMA MoveIsOneUseStep ==
  ASSUME NEW b \in Attempt,
         OneUseMove(DisclosureOf(b), ResultOf(b), DisclosureOf(b)', ResultOf(b)'),
         \A a \in Attempt \ {b} : SameStatus(a)
  PROVE  [OneUse!Next]_(<<[a \in Attempt |-> DisclosureOf(a)], [a \in Attempt |-> ResultOf(a)]>>)
<1> DEFINE disclosure == [a \in Attempt |-> DisclosureOf(a)]
           result == [a \in Attempt |-> ResultOf(a)]
<1>1. disclosure' = [disclosure EXCEPT ![b] = DisclosureOf(b)'] /\ disclosure[b] = DisclosureOf(b)
  BY DEF SameStatus
<1>2. result' = [result EXCEPT ![b] = ResultOf(b)'] /\ result[b] = ResultOf(b)
  BY DEF SameStatus
<1>3. DisclosureOf(b)' = DisclosureOf(b) => disclosure' = disclosure
  BY <1>1
<1>4. ResultOf(b)' = ResultOf(b) => result' = result
  BY <1>2
<1> HIDE DEF disclosure, result
<1>5. CASE disclosure' = disclosure /\ result' = result
  BY <1>5 DEF disclosure, result
<1>6. ASSUME ResultOf(b)' = ResultOf(b), NEW from, NEW to,
             DisclosureOf(b) \in from, DisclosureOf(b)' = to
      PROVE  OneUse!DisclosureBecomes(b, from, to)
  BY <1>1, <1>4, <1>6 DEF OneUse!DisclosureBecomes, disclosure, result
<1>7. ASSUME DisclosureOf(b)' = DisclosureOf(b), ResultOf(b) = "none", NEW to, ResultOf(b)' = to
      PROVE  OneUse!ResultBecomes(b, to)
  BY <1>2, <1>3, <1>7 DEF OneUse!ResultBecomes, disclosure, result
<1>8. ASSUME ResultOf(b)' = ResultOf(b), DisclosureOf(b)' # DisclosureOf(b)
      PROVE  OneUse!Open(b) \/ OneUse!Consume(b) \/ OneUse!Confirm(b) \/ OneUse!RefuseDisclosure(b)
  BY <1>2, <1>6, <1>8 DEF OneUseMove, OneUse!Open, OneUse!Consume, OneUse!Confirm,
     OneUse!RefuseDisclosure, result
<1>9. ASSUME DisclosureOf(b)' = DisclosureOf(b), ResultOf(b)' # ResultOf(b)
      PROVE  OneUse!Publish(b) \/ OneUse!RefuseResult(b)
  BY <1>1, <1>7, <1>9 DEF OneUseMove, OneUse!Publish, OneUse!RefuseResult, disclosure
<1>10. \/ DisclosureOf(b)' = DisclosureOf(b) /\ ResultOf(b)' = ResultOf(b)
       \/ ResultOf(b)' = ResultOf(b) /\ DisclosureOf(b)' # DisclosureOf(b)
       \/ DisclosureOf(b)' = DisclosureOf(b) /\ ResultOf(b)' # ResultOf(b)
  BY DEF OneUseMove
<1> QED
  BY <1>3, <1>4, <1>5, <1>8, <1>9, <1>10 DEF OneUse!Next

\* Whatever crashes and fails, before or after a commit, until a store is restored
\* every step of either phase is one of the one-use disclosure: it is consumed once
\* and published once, and a refusal by either phase is final for both.
THEOREM MappingImplementsOneUse == Spec => ImplementsOneUse
<1> DEFINE disclosure == [a \in Attempt |-> DisclosureOf(a)]
           result == [a \in Attempt |-> ResultOf(a)]
<1>1. Init => OneUse!Init
  BY DEF Init, OneUse!Init, DisclosureOf, ResultOf, Restored, Refusal
<1>2. ASSUME TypeOK, BudgetInv, OneUseInv, [Next]_vars
      PROVE  [OneUse!Next]_(<<disclosure, result>>)
  <2>1. CASE Whole /\ Whole'
    <3>1. WorkflowProgress /\ \A a \in Attempt : AttemptProgress(a)
      BY <1>2, <2>1 DEF OneUseInv, Whole, Restored
    <3>2. PICK b \in Attempt :
            /\ OneUseMove(DisclosureOf(b), ResultOf(b), DisclosureOf(b)', ResultOf(b)')
            /\ \A a \in Attempt \ {b} : SameStatus(a)
      BY <1>2, <2>1, <3>1, WholeStep
    <3> QED
      BY <3>2, MoveIsOneUseStep
  <2>2. CASE ~Whole'
    <3>1. /\ disclosure' = [a \in Attempt |-> "unknown"]
          /\ result' = [a \in Attempt |-> "unknown"]
      BY <2>2 DEF Whole, DisclosureOf, ResultOf, Restored
    <3> QED
      BY <3>1 DEF OneUse!Next, OneUse!LoseTrack
  <2> QED
    BY <1>2, <2>1, <2>2, RestoredStays
<1> QED
  BY <1>1, <1>2, OneUseInvariant, BudgetInvariant, TypeCorrect, PTL
  DEF Spec, ImplementsOneUse, OneUse!Spec, OneUse!vars
=============================================================================

----------------------- MODULE AuthorityFence_proofs -----------------------
(***************************************************************************)
(* Proofs about AuthorityFence, for every set of workers and every bound.  *)
(*                                                                         *)
(* Types first, then three inductive invariants of AuthorityFence, each on *)
(* top of the types:                                                       *)
(*   VaultInv   the high water mark identifies the vault's facts           *)
(*   LockInv    a publishing transaction keeps the grant it checked        *)
(*   GrantInv   the activation generation identifies the active grant      *)
(* and from them the three properties of a publication; then HolderInv,    *)
(* the converse of LockInv: the mutex is held only where it is released.   *)
(***************************************************************************)
EXTENDS AuthorityFence, TLAPS

-----------------------------------------------------------------------------
(* Types *)

VaultTypes ==
  /\ vault \in Vault /\ vaultBackups \in SUBSET Vault
  /\ vaultRestore \in {"idle", "replaced"}
  /\ build \in Nat /\ lastContent \in Nat /\ vaultRestored \in BOOLEAN
CatalogTypes ==
  /\ catalog \in Catalog /\ catalogBackups \in SUBSET Catalog
  /\ catalogRestore \in {"idle", "read", "replaced", "bumped"}
  /\ prior \in Grant /\ replacements \in Nat /\ issued \in Nat
WorkerTypes ==
  /\ owner \in Worker \cup {Free, Operator}
  /\ pc \in [Worker -> Step] /\ stage \in [Worker -> Stage]
  /\ seen \in [Worker -> Grant] /\ held \in [Worker -> Authority]

LEMMA TypeParts == TypeOK <=> VaultTypes /\ CatalogTypes /\ WorkerTypes
BY DEF TypeOK, VaultTypes, CatalogTypes, WorkerTypes

\* What the records' fields are.
LEMMA FieldTypes ==
  /\ \A v \in Vault :
       v.content \in Nat /\ v.ready \in BOOLEAN /\ v.fence \in Fence
  /\ \A f \in Fence : f.hwm \in Nat /\ f.restoreGen \in Nat /\ f.profile \in Nat
  /\ \A c \in Catalog :
       c.grant \in Grant /\ c.actGen \in Nat /\ c.restoreGen \in Nat
  /\ \A g \in Grant : g.id \in Nat /\ g.inputs \in Fence
  /\ \A h \in Authority :
       h.inputs \in Fence /\ h.content \in Nat /\ h.actGen \in Nat
BY DEF Vault, Fence, Catalog, Grant, Authority

LEMMA InitialTypes ==
  /\ NoGrant \in Grant /\ NoAuthority \in Authority /\ AcceptedVault \in Vault
<1>1. FirstFence \in Fence
  BY DEF FirstFence, Fence, NoReceipt, Receipt
<1>2. NoGrant \in Grant /\ NoAuthority \in Authority
  BY <1>1 DEF NoGrant, NoAuthority, Grant, GrantState, Authority
<1>3. FirstVault \in Vault
  BY <1>1 DEF FirstVault, Vault
<1>4. AcceptedVault \in Vault
  BY <1>3 DEF AcceptedVault, Vault, Fence, Receipt
<1> QED
  BY <1>2, <1>4

\* Each step of the vault keeps its types and touches nothing else.
LEMMA VaultTypeStep ==
  ASSUME VaultTypes, VaultNext
  PROVE  VaultTypes' /\ UNCHANGED <<catalogVars, owner, workerVars>>
<1>0. lastContent + 1 \in Nat /\ vault \in Vault /\ vault.fence.hwm + 1 \in Nat
  BY FieldTypes DEF VaultTypes
<1> DEFINE Goal == VaultTypes' /\ UNCHANGED <<catalogVars, owner, workerVars>>
<1>1. ASSUME NEW v \in Vault, Run(v) PROVE Goal
  <2>1. [v EXCEPT !.content = lastContent + 1,
                  !.fence.hwm = vault.fence.hwm + 1] \in Vault
    BY <1>0 DEF Vault, Fence
  <2> QED
    BY <1>0, <1>1, <2>1 DEF Run, VaultTypes
<1>2. ReviewFacts => Goal
  <2>1. \A r \in BOOLEAN : [vault EXCEPT !.ready = r] \in Vault
    BY DEF VaultTypes, Vault
  <2> QED
    BY <1>1, <2>1 DEF ReviewFacts
<1>3. CommitImport => Goal
  <2>1. ASSUME NEW r \in BOOLEAN
        PROVE  [vault EXCEPT !.ready = r,
                             !.fence.import = lastContent + 1] \in Vault
    BY <1>0 DEF Vault, Fence
  <2> QED
    BY <1>1, <2>1 DEF CommitImport
<1>4. ConfirmProfileChange => Goal
  <2>1. [vault EXCEPT !.fence.profile = @ + 1] \in Vault
    BY DEF VaultTypes, Vault, Fence
  <2> QED
    BY <1>1, <2>1 DEF ConfirmProfileChange
<1>5. RecordAcceptance => Goal
  <2>1. [build |-> build, restoreGen |-> vault.fence.restoreGen] \in Receipt
    BY FieldTypes DEF VaultTypes, Receipt
  <2>2. [vault EXCEPT !.fence.receipt =
           [build |-> build, restoreGen |-> vault.fence.restoreGen]] \in Vault
    BY <2>1 DEF VaultTypes, Vault, Fence
  <2> QED
    BY <1>1, <2>2 DEF RecordAcceptance
<1>6. TouchRestored => Goal
  <2>1. vault.fence.restoreGen + 1 \in Nat
    BY <1>0, FieldTypes
  <2>2. [vault EXCEPT !.fence.hwm = @ + 1, !.fence.restoreGen = @ + 1] \in Vault
    BY <1>0, <2>1 DEF Vault, Fence
  <2> QED
    BY <2>2 DEF TouchRestored, VaultTypes
<1>7. ASSUME NEW b \in vaultBackups \cup {vault}, ReplaceVault(b) PROVE Goal
  BY <1>7 DEF ReplaceVault, VaultTypes
<1> QED
  BY <1>2, <1>3, <1>4, <1>5, <1>6, <1>7 DEF VaultNext

\* A suspension leaves a well-typed catalog, whatever grant was judged.
LEMMA SuspendTypes ==
  ASSUME CatalogTypes, NEW judged \in Grant, SuspendCurrent(judged)
  PROVE  catalog' \in Catalog /\ catalogBackups' \in SUBSET Catalog
<1> DEFINE source == IF catalog.grant.state = "inactive" THEN judged
                                                         ELSE catalog.grant
<1>1. catalog \in Catalog /\ source \in Grant
  BY FieldTypes DEF CatalogTypes
<1>2. [source EXCEPT !.state = "suspended"] \in Grant
  BY <1>1 DEF Grant, GrantState
<1>3. [catalog EXCEPT !.grant = [source EXCEPT !.state = "suspended"]]
        \in Catalog
  BY <1>1, <1>2 DEF Catalog
<1> QED
  BY <1>3 DEF SuspendCurrent, CatalogTypes

\* Each step of a worker keeps the types and leaves the vault alone.
LEMMA WorkerTypeStep ==
  ASSUME VaultTypes, CatalogTypes, WorkerTypes,
         NEW w \in Worker, WorkerNext(w)
  PROVE  WorkerTypes' /\ CatalogTypes' /\ UNCHANGED <<vaultVars, build>>
<1>1. ASSUME NEW s \in Stage, NEW p \in Step, Begin(w, s, p) PROVE WorkerTypes'
  BY <1>1 DEF Begin, Goto, WorkerTypes
<1>2. Leave(w) => WorkerTypes'
  BY InitialTypes DEF Leave, Goto, WorkerTypes, Step, Stage
<1>3. TakeInputs(w) => held' \in [Worker -> Authority]
  <2>1. vault.fence \in Fence /\ vault.content \in Nat
    BY FieldTypes DEF VaultTypes
  <2>2. [held EXCEPT ![w].inputs = vault.fence, ![w].content = vault.content]
          \in [Worker -> Authority]
    BY <2>1 DEF WorkerTypes, Authority
  <2> QED
    BY <2>2 DEF TakeInputs
<1>4. UNCHANGED catalogVars => CatalogTypes'
  BY DEF CatalogTypes, catalogVars
<1> DEFINE Goal == /\ WorkerTypes' /\ CatalogTypes'
                   /\ UNCHANGED <<vaultVars, build>>
<1>5. BeginPage(w) \/ BeginActivate(w) \/ BeginCapture(w) => Goal
  BY <1>1, <1>4
  DEF BeginPage, BeginActivate, BeginCapture, Begin, Step, Stage
<1>6. BeginPublish(w) => Goal
  BY <1>4 DEF BeginPublish, Goto, WorkerTypes, Step, Stage
<1>7. \/ Forget(w) \/ RefuseInputs(w) \/ Return(w) \/ AbortPublish(w)
      \/ RefuseIssue(w)
      => Goal
  BY <1>2, <1>4 DEF Forget, RefuseInputs, Return, AbortPublish, RefuseIssue
<1>8. ReadGrant(w) => Goal
  BY <1>2, <1>4, FieldTypes DEF ReadGrant, Goto, WorkerTypes, CatalogTypes, Step
<1>9. ReadReport(w) \/ ReadAuthority(w) => Goal
  BY <1>4 DEF ReadReport, ReadAuthority, Goto, WorkerTypes, Step
<1>10. ReadView(w) => Goal
  <2>1. ASSUME ReadView(w) PROVE held' \in [Worker -> Authority] \/ Leave(w)
    <3>1. /\ catalog.actGen \in Nat /\ catalog.restoreGen \in Nat
          /\ catalog.grant.id \in Nat
      BY FieldTypes DEF CatalogTypes
    <3>2. [held EXCEPT ![w].actGen = catalog.actGen,
                       ![w].restoreGen = catalog.restoreGen,
                       ![w].grant = catalog.grant.id] \in [Worker -> Authority]
      BY <3>1 DEF WorkerTypes, Authority
    <3> QED
      BY <2>1, <3>2 DEF ReadView, WorkerTypes
  <2>2. ReadView(w) => \/ Leave(w)
                       \/ /\ seen' \in [Worker -> Grant]
                          /\ pc' \in [Worker -> Step]
                          /\ UNCHANGED <<owner, stage>>
    BY InitialTypes DEF ReadView, Goto, WorkerTypes, Step
  <2> QED
    BY <1>2, <1>4, <2>1, <2>2 DEF ReadView, WorkerTypes
<1>11. Suspend(w) => Goal
  <2>1. seen[w] \in Grant
    BY DEF WorkerTypes
  <2> QED
    BY <1>2, <2>1, SuspendTypes DEF Suspend, CatalogTypes
<1>12. ReadInputsReport(w) => Goal
  BY <1>2, <1>4 DEF ReadInputsReport, Goto, WorkerTypes, Step
<1>13. ActivationInputs(w) \/ CaptureInputs(w) => Goal
  BY <1>3, <1>4
  DEF ActivationInputs, CaptureInputs, Goto, WorkerTypes, Step, Stage
<1>14. ConfirmCapture(w) => Goal
  BY <1>4 DEF ConfirmCapture, Goto, WorkerTypes, Step
<1>15. EnterTransaction(w) => Goal
  BY <1>4 DEF EnterTransaction, Goto, WorkerTypes, Step, Stage
<1>16. CheckInTransaction(w) \/ Publish(w) => Goal
  BY <1>4 DEF CheckInTransaction, Publish, Goto, WorkerTypes, Step
<1>17. Issue(w) => Goal
  <2> DEFINE grant == [state |-> "active", id |-> issued + 1,
                       inputs |-> held[w].inputs, replacement |-> replacements]
  <2>1. grant \in Grant
    BY FieldTypes DEF Grant, GrantState, CatalogTypes, WorkerTypes
  <2> HIDE DEF grant
  <2>2. [catalog EXCEPT !.actGen = @ + 1, !.grant = grant] \in Catalog
    <3>1. catalog \in Catalog /\ catalog.actGen + 1 \in Nat
      BY FieldTypes DEF CatalogTypes
    <3> QED
      BY <2>1, <3>1 DEF Catalog
  <2> QED
    BY <1>2, <2>2 DEF Issue, CatalogTypes, grant
<1> QED
  BY <1>5, <1>6, <1>7, <1>8, <1>9, <1>10, <1>11, <1>12, <1>13, <1>14, <1>15,
     <1>16, <1>17 DEF WorkerNext

\* Each step of a catalog restore keeps the types and leaves the vault alone.
LEMMA RestoreTypeStep ==
  ASSUME CatalogTypes, WorkerTypes, CatalogRestoreNext
  PROVE  /\ CatalogTypes' /\ WorkerTypes'
         /\ UNCHANGED <<vaultVars, build, workerVars>>
<1> DEFINE Goal == /\ CatalogTypes' /\ WorkerTypes'
                   /\ UNCHANGED <<vaultVars, build, workerVars>>
<1>1. ReadPrior => Goal
  BY FieldTypes DEF ReadPrior, CatalogTypes, WorkerTypes, workerVars
<1>2. ASSUME NEW b \in catalogBackups \cup {catalog}, ReplaceCatalog(b)
      PROVE  Goal
  BY <1>2 DEF ReplaceCatalog, CatalogTypes, WorkerTypes, workerVars
<1>3. BumpRestored => Goal
  <2>1. [catalog EXCEPT !.restoreGen = @ + 1] \in Catalog
    BY DEF CatalogTypes, Catalog
  <2> QED
    BY <2>1 DEF BumpRestored, CatalogTypes, WorkerTypes, workerVars
<1>4. SuspendRestored => Goal
  BY SuspendTypes, InitialTypes
  DEF SuspendRestored, CatalogTypes, WorkerTypes, workerVars
<1>5. AbortRestore => Goal
  BY InitialTypes DEF AbortRestore, CatalogTypes, WorkerTypes, workerVars
<1> QED
  BY <1>1, <1>2, <1>3, <1>4, <1>5 DEF CatalogRestoreNext

LEMMA TypeStep == TypeOK /\ [Next]_vars => TypeOK'
<1> SUFFICES ASSUME VaultTypes, CatalogTypes, WorkerTypes, [Next]_vars
             PROVE  VaultTypes' /\ CatalogTypes' /\ WorkerTypes'
  BY DEF TypeOK, VaultTypes, CatalogTypes, WorkerTypes
<1>1. UNCHANGED <<vaultVars, build>> => VaultTypes'
  BY DEF VaultTypes, vaultVars
<1>2. UNCHANGED catalogVars => CatalogTypes'
  BY DEF CatalogTypes, catalogVars
<1>3. UNCHANGED <<owner, workerVars>> => WorkerTypes'
  BY DEF WorkerTypes, workerVars
<1>4. CASE VaultNext
  BY <1>2, <1>3, <1>4, VaultTypeStep
<1>5. CASE \E w \in Worker : WorkerNext(w)
  BY <1>1, <1>5, WorkerTypeStep
<1>6. CASE CatalogRestoreNext
  BY <1>1, <1>6, RestoreTypeStep
<1>7. CASE Restart
  BY <1>7, InitialTypes
  DEF Restart, VaultTypes, CatalogTypes, WorkerTypes, Step, Stage
<1>8. CASE UNCHANGED vars
  BY <1>1, <1>2, <1>3, <1>8 DEF vars
<1> QED
  BY <1>4, <1>5, <1>6, <1>7, <1>8 DEF Next

\* Type correctness of the two stores and of every workflow over them.
THEOREM TypeCorrect == Spec => []TypeOK
<1>1. [grant |-> NoGrant, actGen |-> 0, restoreGen |-> 0] \in Catalog
  BY InitialTypes DEF Catalog
<1>2. Init => VaultTypes /\ CatalogTypes
  <2>1. Init => vault \in Vault /\ vaultBackups \in SUBSET Vault
    BY InitialTypes DEF Init
  <2>2. Init => build \in Nat /\ lastContent \in Nat
    BY DEF Init
  <2>3. Init => /\ vaultRestored \in BOOLEAN
                /\ vaultRestore \in {"idle", "replaced"}
    BY DEF Init
  <2>4. Init => CatalogTypes
    BY <1>1, InitialTypes DEF Init, CatalogTypes
  <2> QED
    BY <2>1, <2>2, <2>3, <2>4 DEF VaultTypes
<1>3. Init => WorkerTypes
  BY InitialTypes DEF Init, WorkerTypes, Step, Stage
<1>4. Init => TypeOK
  BY <1>2, <1>3, TypeParts
<1> QED
  BY <1>4, TypeStep, PTL DEF Spec

-----------------------------------------------------------------------------
(* What one step of a worker can do to the workers *)

\* The other workers keep their locals, whatever worker w does; and the step
\* ends w's workflow, or moves it on with the locals it keeps.
LEMMA OtherWorkers ==
  ASSUME WorkerTypes, NEW w \in Worker, WorkerNext(w),
         NEW u \in Worker, u # w
  PROVE  UNCHANGED <<pc[u], stage[u], seen[u], held[u]>>
BY DEF WorkerTypes, WorkerNext, BeginPage, BeginActivate, BeginCapture, Begin,
       BeginPublish, Forget, ReadGrant, ReadReport, ReadAuthority, ReadView,
       Suspend, ReadInputsReport, ActivationInputs, CaptureInputs, TakeInputs,
       ConfirmCapture, EnterTransaction, CheckInTransaction, RefuseInputs,
       Publish, Return, AbortPublish, Issue, RefuseIssue, Leave, Goto

LEMMA Left ==
  ASSUME WorkerTypes, NEW w \in Worker, Leave(w)
  PROVE  /\ pc'[w] = "idle" /\ stage'[w] = "page" /\ held'[w] = NoAuthority
         /\ owner' = IF owner = w THEN Free ELSE owner
BY DEF WorkerTypes, Leave, Goto

\* The steps that leave a worker's captured authority as it is.
LEMMA HeldSteps ==
  ASSUME WorkerTypes, NEW w \in Worker, WorkerNext(w)
  PROVE  \/ held'[w] = held[w]
         \/ Leave(w)
         \/ ReadView(w) /\ pc'[w] = "report2" /\ stage[w] = "capture"
         \/ ActivationInputs(w)
         \/ CaptureInputs(w)
BY DEF WorkerTypes, WorkerNext, BeginPage, BeginActivate, BeginCapture, Begin,
       BeginPublish, Forget, ReadGrant, ReadReport, ReadAuthority, ReadView,
       Suspend, ReadInputsReport, ConfirmCapture, EnterTransaction,
       CheckInTransaction, RefuseInputs, Publish, Return, AbortPublish, Issue,
       RefuseIssue, Goto

-----------------------------------------------------------------------------
(* The high water mark identifies the facts *)

\* What VaultInv says of one worker.
FencedWorker(w) ==
  /\ held[w].content <= vault.content
  /\ held[w].inputs.hwm = held[w].content + 1
  /\ pc[w] = "authority2" /\ held[w].content = vault.content => vault.ready

\* A career mutation makes the vault newer than every captured authority.
LEMMA RunFence ==
  ASSUME VaultTypes, CatalogTypes, WorkerTypes, VaultInv, NEW v \in Vault,
         Run(v)
  PROVE  VaultInv'
<1>1. SUFFICES ASSUME ~vaultRestored PROVE VaultInv'
  BY DEF VaultInv, Run
<1>2. /\ vault'.content = lastContent + 1
      /\ vault'.fence.hwm = vault.fence.hwm + 1
      /\ lastContent' = lastContent + 1
      /\ UNCHANGED <<vaultRestore, pc, held>>
  BY DEF Run, Vault, Fence, workerVars
<1>3. vault.content = lastContent /\ vault.fence.hwm = lastContent + 1
  BY <1>1 DEF VaultInv
<1>4. ASSUME NEW w \in Worker PROVE FencedWorker(w)'
  <2>1. held[w].content <= lastContent /\ held[w].content \in Nat
    BY <1>1, FieldTypes DEF VaultInv, WorkerTypes
  <2>2. held[w].inputs.hwm = held[w].content + 1
    BY <1>1 DEF VaultInv
  <2> QED
    BY <1>2, <2>1, <2>2 DEF FencedWorker, VaultTypes
<1> QED
  BY <1>1, <1>2, <1>3, <1>4 DEF VaultInv, FencedWorker, VaultTypes

LEMMA VaultFence ==
  ASSUME VaultTypes, CatalogTypes, WorkerTypes, VaultInv, VaultNext
  PROVE  VaultInv'
<1>0. vault \in Vault /\ lastContent + 1 \in Nat
  BY DEF VaultTypes
<1>1. ReviewFacts => VaultInv'
  <2>1. \A r \in BOOLEAN : [vault EXCEPT !.ready = r] \in Vault
    BY <1>0 DEF Vault
  <2> QED
    BY <2>1, RunFence DEF ReviewFacts
<1>2. CommitImport => VaultInv'
  <2>1. ASSUME NEW r \in BOOLEAN
        PROVE  [vault EXCEPT !.ready = r,
                             !.fence.import = lastContent + 1] \in Vault
    BY <1>0 DEF Vault, Fence
  <2> QED
    BY <2>1, RunFence DEF CommitImport
<1>3. ConfirmProfileChange => VaultInv'
  <2>1. [vault EXCEPT !.fence.profile = @ + 1] \in Vault
    BY DEF VaultTypes, Vault, Fence
  <2> QED
    BY <2>1, RunFence DEF ConfirmProfileChange
<1>4. RecordAcceptance => VaultInv'
  <2>1. [build |-> build, restoreGen |-> vault.fence.restoreGen] \in Receipt
    BY FieldTypes DEF VaultTypes, Receipt
  <2>2. [vault EXCEPT !.fence.receipt =
           [build |-> build, restoreGen |-> vault.fence.restoreGen]] \in Vault
    BY <2>1 DEF VaultTypes, Vault, Fence
  <2> QED
    BY <2>2, RunFence DEF RecordAcceptance
<1>5. TouchRestored => VaultInv'
  BY DEF TouchRestored, VaultInv
<1>6. ASSUME NEW b \in vaultBackups \cup {vault}, ReplaceVault(b)
      PROVE  VaultInv'
  BY <1>6 DEF ReplaceVault, VaultInv
<1> QED
  BY <1>1, <1>2, <1>3, <1>4, <1>5, <1>6 DEF VaultNext

LEMMA WorkerFence ==
  ASSUME VaultTypes, CatalogTypes, WorkerTypes, VaultInv,
         NEW w \in Worker, WorkerNext(w)
  PROVE  VaultInv'
<1>1. UNCHANGED <<vault, vaultRestore, lastContent, vaultRestored>>
  BY WorkerTypeStep DEF vaultVars
<1>2. SUFFICES ASSUME ~vaultRestored, NEW u \in Worker PROVE FencedWorker(u)'
  BY <1>1 DEF VaultInv, FencedWorker
<1>3. FencedWorker(u) /\ FencedWorker(w)
  BY <1>2 DEF VaultInv, FencedWorker
<1>4. CASE u # w
  BY <1>1, <1>3, <1>4, OtherWorkers DEF FencedWorker
<1>5. held'[w].content <= vault.content
      /\ held'[w].inputs.hwm = held'[w].content + 1
  <2>1. vault.content \in Nat /\ held[w].content \in Nat
    BY FieldTypes DEF VaultTypes, WorkerTypes
  <2>2. CASE held'[w] = held[w]
    BY <1>3, <2>2 DEF FencedWorker
  <2>3. CASE Leave(w)
    BY <2>1, <2>3, Left DEF NoAuthority, FirstFence
  <2>4. CASE ReadView(w) /\ pc'[w] = "report2"
    BY <1>3, <2>1, <2>4, Left DEF ReadView, WorkerTypes, FencedWorker, Authority
  <2>5. CASE ActivationInputs(w) \/ CaptureInputs(w)
    <3>1. /\ held'[w].inputs = vault.fence
          /\ held'[w].content = vault.content
      BY <2>5
      DEF ActivationInputs, CaptureInputs, TakeInputs, WorkerTypes, Authority
    <3> QED
      BY <1>2, <2>1, <3>1 DEF VaultInv
  <2> QED
    BY <2>2, <2>3, <2>4, <2>5, HeldSteps
<1>6. pc'[w] = "authority2" => ReadInputsReport(w) /\ vault.ready
  BY Left
  DEF WorkerTypes, WorkerNext, BeginPage, BeginActivate, BeginCapture, Begin,
      BeginPublish, Forget, ReadGrant, ReadReport, ReadAuthority, ReadView,
      Suspend, ReadInputsReport, ActivationInputs, CaptureInputs,
      ConfirmCapture, EnterTransaction, CheckInTransaction, RefuseInputs,
      Publish, Return, AbortPublish, Issue, RefuseIssue, Goto
<1> QED
  BY <1>1, <1>4, <1>5, <1>6 DEF FencedWorker

LEMMA VaultInvStep ==
  TypeOK /\ VaultInv /\ [Next]_vars => VaultInv'
<1> SUFFICES ASSUME VaultTypes, CatalogTypes, WorkerTypes, VaultInv,
                    [Next]_vars
             PROVE  VaultInv'
  BY TypeParts
<1>1. CASE VaultNext
  BY <1>1, VaultFence
<1>2. CASE \E w \in Worker : WorkerNext(w)
  BY <1>2, WorkerFence
<1>3. CASE CatalogRestoreNext
  BY <1>3, RestoreTypeStep DEF vaultVars, workerVars, VaultInv
<1>4. CASE Restart
  <2>1. vault.content \in Nat
    BY FieldTypes DEF VaultTypes
  <2> QED
    BY <1>4, <2>1 DEF Restart, VaultInv, NoAuthority, FirstFence
<1>5. CASE UNCHANGED vars
  BY <1>5 DEF vars, vaultVars, workerVars, VaultInv
<1> QED
  BY <1>1, <1>2, <1>3, <1>4, <1>5 DEF Next

LEMMA VaultInvariant == Spec => []VaultInv
<1>1. Init => VaultInv
  BY DEF Init, VaultInv, AcceptedVault, FirstVault, FirstFence, NoAuthority
<1> QED
  BY <1>1, TypeCorrect, VaultInvStep, PTL DEF Spec

\* The check a workflow makes inside its transaction passes only on a ready
\* vault holding the facts it captured, as long as no backup was installed
\* over the vault.  Phase II compares counters only; the invariant is what
\* makes equal counters mean equal facts, and it is lost by the first restore.
THEOREM CheckedFactsAreTheCapturedOnes == Spec => FenceIsSound
<1> DEFINE Sound(w) ==
      /\ pc[w] = "authority2" /\ pc'[w] = "commit" /\ ~vaultRestored
      => vault.ready /\ vault.content = held[w].content
<1>1. ASSUME TypeOK, VaultInv, [Next]_vars, NEW w \in Worker PROVE Sound(w)
  <2> SUFFICES ASSUME pc[w] = "authority2", pc'[w] = "commit", ~vaultRestored
               PROVE  vault.ready /\ vault.content = held[w].content
    OBVIOUS
  <2>1. VaultTypes /\ CatalogTypes /\ WorkerTypes
    BY <1>1, TypeParts
  <2>2. CheckInTransaction(w)
    <3>1. CASE \E u \in Worker : WorkerNext(u)
      <4>1. PICK u \in Worker : WorkerNext(u)
        BY <3>1
      <4>2. u = w
        BY <2>1, <4>1, OtherWorkers
      <4> QED
        BY <2>1, <4>1, <4>2, Left
        DEF WorkerTypes, WorkerNext, BeginPage, BeginActivate, BeginCapture,
            Begin, BeginPublish, Forget, ReadGrant, ReadReport, ReadAuthority,
            ReadView, Suspend, ReadInputsReport, ActivationInputs,
            CaptureInputs, ConfirmCapture, EnterTransaction, ReadsInputs,
            ReadsSameInputs, RefuseInputs, Publish, Return, AbortPublish,
            Issue, RefuseIssue, Goto
    <3>2. CASE VaultNext
      BY <2>1, <3>2, VaultTypeStep DEF workerVars
    <3>3. CASE CatalogRestoreNext
      BY <2>1, <3>3, RestoreTypeStep DEF workerVars
    <3>4. CASE Restart
      BY <3>4 DEF Restart
    <3>5. CASE UNCHANGED vars
      BY <3>5 DEF vars, workerVars
    <3> QED
      BY <1>1, <3>1, <3>2, <3>3, <3>4, <3>5 DEF Next
  <2>3. vault.fence = held[w].inputs
    BY <2>2 DEF CheckInTransaction, ReadsSameInputs
  <2>4. vault.fence.hwm = vault.content + 1 /\ FencedWorker(w)
    BY <1>1 DEF VaultInv, FencedWorker
  <2>5. vault.content \in Nat /\ held[w].content \in Nat
    BY <2>1, FieldTypes DEF VaultTypes, WorkerTypes
  <2> QED
    BY <2>3, <2>4, <2>5 DEF FencedWorker
<1>2. TypeOK /\ VaultInv /\ [Next]_vars => [\A w \in Worker : Sound(w)]_vars
  BY <1>1
<1> QED
  BY <1>2, TypeCorrect, VaultInvariant, PTL DEF Spec, FenceIsSound

-----------------------------------------------------------------------------
(* A publishing transaction keeps the grant it checked *)

\* What LockInv says of one worker.
LockedWorker(w) ==
  /\ pc[w] = "commit" => stage[w] = "publish"
  /\ stage[w] = "publish" /\ pc[w] # "committed" => owner = w
  /\ stage[w] = "publish" /\ pc[w] \in {"report2", "authority2", "commit"}
       => ViewMatches(w)

\* A step of a worker changes the grant only with the mutex in its own hands
\* or in nobody's, and takes the mutex from nobody else.
LEMMA MutexSteps ==
  ASSUME WorkerTypes, LockInv, NEW w \in Worker, WorkerNext(w)
  PROVE  /\ UNCHANGED catalogRestore
         /\ UNCHANGED catalog \/ owner \in {Free, w}
         /\ UNCHANGED owner \/ owner \in {Free, w}
BY FenceAssumption
DEF LockInv, WorkerTypes, WorkerNext, BeginPage, BeginActivate, BeginCapture,
    Begin, BeginPublish, Forget, ReadGrant, ReadReport, ReadAuthority,
    ReadView, Suspend, ReadInputsReport, ActivationInputs, CaptureInputs,
    ConfirmCapture, EnterTransaction, CheckInTransaction, RefuseInputs,
    Publish, Return, AbortPublish, Issue, RefuseIssue, Leave, MayLock,
    catalogVars

LEMMA WorkerLock ==
  ASSUME VaultTypes, CatalogTypes, WorkerTypes, LockInv,
         NEW w \in Worker, WorkerNext(w)
  PROVE  LockInv'
<1>1. /\ UNCHANGED catalogRestore
      /\ UNCHANGED catalog \/ owner \in {Free, w}
      /\ UNCHANGED owner \/ owner \in {Free, w}
  BY MutexSteps
<1>2. catalogRestore = "replaced" => owner' = Operator
  BY <1>1, FenceAssumption DEF LockInv
<1>3. ASSUME NEW u \in Worker, u # w PROVE LockedWorker(u)'
  <2>1. LockedWorker(u)
    BY DEF LockInv, LockedWorker
  <2>2. UNCHANGED <<pc[u], stage[u], held[u]>>
    BY <1>3, OtherWorkers
  <2>3. ASSUME stage[u] = "publish", pc[u] # "committed"
        PROVE  owner = u /\ UNCHANGED <<owner, catalog>>
    BY <1>1, <1>3, <2>1, <2>3, FenceAssumption DEF LockedWorker
  <2> QED
    BY <2>1, <2>2, <2>3 DEF LockedWorker, ViewMatches
<1>4. LockedWorker(w)'
  <2>1. LockedWorker(w)
    BY DEF LockInv, LockedWorker
  <2>2. CASE Leave(w)
    BY <2>2, Left DEF LockedWorker
  <2>3. CASE BeginPage(w) \/ BeginActivate(w) \/ BeginCapture(w)
             \/ BeginPublish(w)
    BY <2>3
    DEF BeginPage, BeginActivate, BeginCapture, Begin, BeginPublish, Goto,
        WorkerTypes, LockedWorker
  <2>4. CASE ReadGrant(w) \/ ReadReport(w) \/ ReadAuthority(w)
    BY <2>1, <2>2, <2>4
    DEF ReadGrant, ReadReport, ReadAuthority, Goto, WorkerTypes, LockedWorker
  <2>5. CASE ReadView(w)
    BY <2>1, <2>2, <2>5
    DEF ReadView, Goto, WorkerTypes, LockedWorker, ViewMatches, catalogVars
  <2>6. CASE ReadInputsReport(w)
    BY <2>1, <2>2, <2>6
    DEF ReadInputsReport, Goto, WorkerTypes, LockedWorker, ViewMatches,
        catalogVars
  <2>7. CASE ActivationInputs(w) \/ CaptureInputs(w)
    BY <2>1, <2>7
    DEF ActivationInputs, CaptureInputs, ReadsInputs, Goto, WorkerTypes,
        LockedWorker, ViewMatches
  <2>8. CASE ConfirmCapture(w) \/ EnterTransaction(w)
    BY <2>1, <2>8
    DEF ConfirmCapture, EnterTransaction, ReadsSameInputs, ReadsInputs, Goto,
        WorkerTypes, LockedWorker, ViewMatches
  <2>9. CASE CheckInTransaction(w)
    BY <2>1, <2>9
    DEF CheckInTransaction, ReadsSameInputs, ReadsInputs, Goto, WorkerTypes,
        LockedWorker, ViewMatches, catalogVars
  <2>10. CASE Publish(w)
    BY <2>10 DEF Publish, Goto, WorkerTypes, LockedWorker
  <2> QED
    BY <2>2, <2>3, <2>4, <2>5, <2>6, <2>7, <2>8, <2>9, <2>10
    DEF WorkerNext, Forget, RefuseInputs, Return, AbortPublish, RefuseIssue,
        Issue, Suspend
<1> QED
  BY <1>1, <1>2, <1>3, <1>4 DEF LockInv, LockedWorker

LEMMA LockInvStep ==
  TypeOK /\ LockInv /\ [Next]_vars => LockInv'
<1> SUFFICES ASSUME VaultTypes, CatalogTypes, WorkerTypes, LockInv,
                    [Next]_vars
             PROVE  LockInv'
  BY TypeParts
<1>1. CASE VaultNext
  BY <1>1, VaultTypeStep DEF catalogVars, workerVars, LockInv, ViewMatches
<1>2. CASE \E w \in Worker : WorkerNext(w)
  BY <1>2, WorkerLock
<1>3. CASE CatalogRestoreNext
  <2>1. UNCHANGED workerVars
    BY <1>3, RestoreTypeStep
  <2>2. CASE ReadPrior \/ AbortRestore
    BY <2>1, <2>2
    DEF ReadPrior, AbortRestore, workerVars, LockInv, ViewMatches
  <2>3. ASSUME owner \in {Free, Operator}, NEW w \in Worker
        PROVE  ~(stage[w] = "publish" /\ pc[w] # "committed")
    BY <2>3, FenceAssumption DEF LockInv
  <2>4. ASSUME NEW b, ReplaceCatalog(b) PROVE LockInv'
    BY <2>1, <2>3, <2>4 DEF ReplaceCatalog, workerVars, LockInv
  <2>5. CASE BumpRestored
    BY <2>1, <2>3, <2>5 DEF BumpRestored, workerVars, LockInv
  <2>6. CASE SuspendRestored
    BY <2>1, <2>3, <2>6 DEF SuspendRestored, workerVars, LockInv
  <2> QED
    BY <1>3, <2>2, <2>4, <2>5, <2>6 DEF CatalogRestoreNext
<1>4. CASE Restart
  BY <1>4 DEF Restart, LockInv
<1>5. CASE UNCHANGED vars
  BY <1>5 DEF vars, catalogVars, workerVars, LockInv, ViewMatches
<1> QED
  BY <1>1, <1>2, <1>3, <1>4, <1>5 DEF Next

LEMMA LockInvariant == Spec => []LockInv
<1>1. Init => LockInv
  BY DEF Init, LockInv
<1> QED
  BY <1>1, TypeCorrect, LockInvStep, PTL DEF Spec

\* A result is committed under an active grant of the generations captured.
THEOREM PublicationNeedsLiveGrant == Spec => PublishesUnderLiveGrant
<1> DEFINE Live(w) == Commits(w) =>
      /\ catalog.grant.state = "active"
      /\ catalog.actGen = held[w].actGen
      /\ catalog.restoreGen = held[w].restoreGen
<1>1. LockInv => \A w \in Worker : Live(w)
  BY DEF LockInv, Commits, ViewMatches
<1> QED
  BY <1>1, LockInvariant, PTL DEF PublishesUnderLiveGrant

-----------------------------------------------------------------------------
(* Whoever holds the mutex can go on *)

\* The converse of LockInv.
HolderInv ==
  /\ owner = Operator => catalogRestore = "replaced"
  /\ \A w \in Worker : owner = w =>
       /\ stage[w] = "publish"
       /\ pc[w] \in {"grant", "report", "authority", "suspend", "view", "report2",
                     "authority2", "commit"}

LEMMA WorkerHolds ==
  ASSUME VaultTypes, CatalogTypes, WorkerTypes, LockInv, HolderInv,
         NEW w \in Worker, WorkerNext(w)
  PROVE  HolderInv'
<1>1. /\ UNCHANGED catalogRestore
      /\ UNCHANGED owner \/ owner \in {Free, w}
  BY MutexSteps
<1>2. UNCHANGED owner \/ owner' \in {Free, w}
  BY DEF WorkerNext, BeginPage, BeginActivate, BeginCapture, Begin, BeginPublish,
         Forget, ReadGrant, ReadReport, ReadAuthority, ReadView, Suspend,
         ReadInputsReport, ActivationInputs, CaptureInputs, ConfirmCapture,
         EnterTransaction, CheckInTransaction, RefuseInputs, Publish, Return,
         AbortPublish, Issue, RefuseIssue, Leave
<1>3. owner' = Operator => catalogRestore' = "replaced"
  BY <1>1, <1>2, FenceAssumption DEF HolderInv
<1>4. ASSUME NEW u \in Worker, u # w, owner' = u
      PROVE  stage'[u] = stage[u] /\ pc'[u] = pc[u] /\ owner = u
  BY <1>2, <1>4, OtherWorkers, FenceAssumption
<1> DEFINE Holds == owner' = w =>
      /\ stage'[w] = "publish"
      /\ pc'[w] \in {"grant", "report", "authority", "suspend", "view", "report2",
                     "authority2", "commit"}
<1>5. Holds
  <2>1. CASE Leave(w)
    BY <2>1, Left, FenceAssumption
  <2>2. CASE EnterTransaction(w)
    BY <2>2 DEF EnterTransaction, Goto, WorkerTypes
  <2>3. CASE Publish(w)
    BY <2>3, FenceAssumption DEF Publish
  <2>4. ASSUME UNCHANGED owner, owner = w
        PROVE  stage[w] = "publish" /\ pc[w] \notin {"idle", "captured"}
    BY <2>4 DEF HolderInv
  <2>5. CASE BeginPage(w) \/ BeginActivate(w) \/ BeginCapture(w) \/ BeginPublish(w)
    BY <2>4, <2>5 DEF BeginPage, BeginActivate, BeginCapture, Begin, BeginPublish
  <2>6. CASE ReadGrant(w) \/ ReadReport(w) \/ ReadAuthority(w)
    BY <2>1, <2>4, <2>6 DEF ReadGrant, ReadReport, ReadAuthority, Goto, WorkerTypes
  <2>7. CASE ReadView(w) \/ ReadInputsReport(w)
    BY <2>1, <2>4, <2>7 DEF ReadView, ReadInputsReport, Goto, WorkerTypes
  <2>8. CASE ActivationInputs(w) \/ CaptureInputs(w) \/ ConfirmCapture(w)
    BY <2>4, <2>8 DEF ActivationInputs, CaptureInputs, ConfirmCapture, ReadsInputs,
       ReadsSameInputs
  <2>9. CASE CheckInTransaction(w)
    BY <2>4, <2>9 DEF CheckInTransaction, Goto, WorkerTypes
  <2> HIDE DEF Holds
  <2> QED
    BY <2>1, <2>2, <2>3, <2>5, <2>6, <2>7, <2>8, <2>9
    DEF WorkerNext, Forget, Suspend, RefuseInputs, Return, AbortPublish, Issue,
        RefuseIssue
<1> QED
  BY <1>3, <1>4, <1>5 DEF HolderInv

LEMMA HolderStep == TypeOK /\ LockInv /\ HolderInv /\ [Next]_vars => HolderInv'
<1> SUFFICES ASSUME VaultTypes, CatalogTypes, WorkerTypes, LockInv, HolderInv,
                    [Next]_vars
             PROVE  HolderInv'
  BY TypeParts
<1>1. CASE VaultNext
  BY <1>1, VaultTypeStep DEF catalogVars, workerVars, HolderInv
<1>2. CASE \E w \in Worker : WorkerNext(w)
  BY <1>2, WorkerHolds
<1>3. CASE CatalogRestoreNext
  <2>1. UNCHANGED workerVars
    BY <1>3, RestoreTypeStep
  <2>2. CASE ReadPrior \/ AbortRestore \/ SuspendRestored
    BY <2>1, <2>2, FenceAssumption
    DEF ReadPrior, AbortRestore, SuspendRestored, workerVars, HolderInv
  <2>3. ASSUME NEW b, ReplaceCatalog(b) PROVE HolderInv'
    BY <2>3, FenceAssumption DEF ReplaceCatalog, HolderInv
  <2>4. CASE BumpRestored
    BY <2>4, FenceAssumption DEF BumpRestored, HolderInv
  <2> QED
    BY <1>3, <2>2, <2>3, <2>4 DEF CatalogRestoreNext
<1>4. CASE Restart
  BY <1>4, FenceAssumption DEF Restart, HolderInv
<1>5. CASE UNCHANGED vars
  BY <1>5 DEF vars, catalogVars, workerVars, HolderInv
<1> QED
  BY <1>1, <1>2, <1>3, <1>4, <1>5 DEF Next

\* The guards of the steps a publishing transaction can take next.
CanGoOn(w) ==
  \/ pc[w] \in {"grant", "report", "authority", "view", "report2", "commit"}
  \/ pc[w] = "suspend" /\ MayLock(w)
  \/ pc[w] = "authority2" /\ ~(ReceiptIsCurrent /\ vault.fence = held[w].inputs)
  \/ ReadsSameInputs(w, "publish")

\* The mutex of the catalog is never left held: its holder is a transaction whose
\* next step waits for nobody, also when it suspends the grant from inside itself,
\* or a restore that has replaced the file (phase2/mutation.py, run and
\* restore under the reentrant lock; phase2/assessment.py, publish;
\* phase2/activation.py, suspend).
THEOREM MutexIsNeverAbandoned ==
  Spec => [](/\ owner = Operator => catalogRestore = "replaced"
             /\ \A w \in Worker : owner = w => CanGoOn(w))
<1>1. Init => HolderInv
  BY FenceAssumption DEF Init, HolderInv
<1>2. HolderInv =>
        /\ owner = Operator => catalogRestore = "replaced"
        /\ \A w \in Worker : owner = w => CanGoOn(w)
  BY DEF HolderInv, CanGoOn, MayLock, ReadsSameInputs, ReadsInputs
<1> QED
  BY <1>1, <1>2, HolderStep, TypeCorrect, LockInvariant, PTL DEF Spec

-----------------------------------------------------------------------------
(* The activation generation identifies the grant *)

LEMMA GrantInvStep ==
  TypeOK /\ GrantInv /\ [Next]_vars => GrantInv'
<1> SUFFICES ASSUME VaultTypes, CatalogTypes, WorkerTypes, GrantInv,
                    [Next]_vars
             PROVE  GrantInv'
  BY TypeParts
<1>0. /\ catalog \in Catalog /\ catalog.actGen \in Nat /\ catalog.grant \in Grant
      /\ replacements \in Nat /\ issued \in Nat
  BY FieldTypes DEF CatalogTypes
<1> DEFINE GrantPart == /\ catalog.actGen = issued
                        /\ catalog.grant.state = "active" =>
                             catalog.grant.id = issued
<1>1. ASSUME NEW judged \in Grant, SuspendCurrent(judged), GrantPart,
             UNCHANGED issued
      PROVE  GrantPart'
  BY <1>0, <1>1 DEF SuspendCurrent, Catalog, Grant
<1>2. CASE VaultNext
  BY <1>2, VaultTypeStep DEF catalogVars, workerVars, GrantInv
<1>3. ASSUME NEW w \in Worker, WorkerNext(w) PROVE GrantInv'
  <2>1. UNCHANGED replacements
    BY <1>3
    DEF WorkerNext, BeginPage, BeginActivate, BeginCapture, Begin,
        BeginPublish, Forget, ReadGrant, ReadReport, ReadAuthority, ReadView,
        Suspend, ReadInputsReport, ActivationInputs, CaptureInputs,
        ConfirmCapture, EnterTransaction, CheckInTransaction, RefuseInputs,
        Publish, Return, AbortPublish, Issue, RefuseIssue, catalogVars
  <2> SUFFICES ASSUME replacements = 0
               PROVE  GrantPart' /\ \A u \in Worker :
                        held'[u].grant = held'[u].actGen
    BY <2>1 DEF GrantInv
  <2>2. GrantPart /\ \A u \in Worker : held[u].grant = held[u].actGen
    BY DEF GrantInv
  <2>3. GrantPart'
    <3>1. CASE Suspend(w)
      BY <1>1, <2>2, <3>1 DEF Suspend, WorkerTypes
    <3>2. CASE Issue(w)
      BY <1>0, <2>2, <3>2 DEF Issue, Catalog
    <3>3. CASE ~Suspend(w) /\ ~Issue(w)
      BY <1>3, <2>2, <3>3
      DEF WorkerNext, BeginPage, BeginActivate, BeginCapture, Begin,
          BeginPublish, Forget, ReadGrant, ReadReport, ReadAuthority,
          ReadView, ReadInputsReport, ActivationInputs, CaptureInputs,
          ConfirmCapture, EnterTransaction, CheckInTransaction, RefuseInputs,
          Publish, Return, AbortPublish, RefuseIssue, catalogVars
    <3> QED
      BY <3>1, <3>2, <3>3
  <2>4. held'[w].grant = held'[w].actGen
    <3>1. CASE held'[w] = held[w]
      BY <2>2, <3>1
    <3>2. CASE Leave(w)
      BY <3>2, Left DEF NoAuthority
    <3>3. CASE ReadView(w) /\ pc'[w] = "report2" /\ stage[w] = "capture"
      BY <2>2, <3>3, Left DEF ReadView, ViewMatches, WorkerTypes, Authority
    <3>4. CASE ActivationInputs(w) \/ CaptureInputs(w)
      BY <2>2, <3>4
      DEF ActivationInputs, CaptureInputs, TakeInputs, WorkerTypes, Authority
    <3> QED
      BY <1>3, <3>1, <3>2, <3>3, <3>4, HeldSteps
  <2> QED
    BY <1>3, <2>2, <2>3, <2>4, OtherWorkers
<1>4. CASE CatalogRestoreNext
  <2>1. UNCHANGED held
    BY <1>4, RestoreTypeStep DEF workerVars
  <2>2. ReadPrior \/ AbortRestore => GrantInv'
    BY <2>1 DEF ReadPrior, AbortRestore, GrantInv
  <2>3. ASSUME NEW b, ReplaceCatalog(b) PROVE GrantInv'
    BY <1>0, <2>3 DEF ReplaceCatalog, GrantInv
  <2>4. BumpRestored => GrantInv'
    BY <1>0, <2>1 DEF BumpRestored, GrantInv, Catalog
  <2>5. SuspendRestored => GrantInv'
    BY <1>1, <2>1 DEF SuspendRestored, GrantInv, CatalogTypes
  <2> QED
    BY <1>4, <2>2, <2>3, <2>4, <2>5 DEF CatalogRestoreNext
<1>5. CASE Restart
  BY <1>5 DEF Restart, GrantInv, NoAuthority
<1>6. CASE UNCHANGED vars
  BY <1>6 DEF vars, catalogVars, workerVars, GrantInv
<1> QED
  BY <1>2, <1>3, <1>4, <1>5, <1>6 DEF Next

LEMMA GrantInvariant == Spec => []GrantInv
<1>1. Init => GrantInv
  BY DEF Init, GrantInv, NoGrant, NoAuthority
<1> QED
  BY <1>1, TypeCorrect, GrantInvStep, PTL DEF Spec

\* As long as the catalog was not restored, a result is committed under the
\* very grant that was active when the workflow captured its authority: the
\* generations the lock keeps identify the grant.
THEOREM PublicationNeedsCapturedGrant == Spec => PublishesUnderCapturedGrant
<1> DEFINE Captured(w) == Commits(w) /\ replacements = 0 =>
                            catalog.grant.id = held[w].grant
<1>1. LockInv /\ GrantInv => \A w \in Worker : Captured(w)
  BY DEF LockInv, GrantInv, Commits, ViewMatches
<1> QED
  BY <1>1, LockInvariant, GrantInvariant, PTL DEF PublishesUnderCapturedGrant
=============================================================================

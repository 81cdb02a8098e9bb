------------------------- MODULE VaultServices_proofs -------------------------
(***************************************************************************)
(* Proofs about VaultServices, for any threads, previews, permissions and  *)
(* bounds.                                                                 *)
(*                                                                         *)
(* AppliedAtMostOnce needs ApplyInv: a preview that can still be taken has *)
(* no run, in the vault or its safety copy, and no thread at work on it.   *)
(* OutcomesAreTrue and LedgerIsReconciled need OutcomeInv: the attempts of *)
(* the vault, of its safety copy, of the ledger and of the threads at work *)
(* all have identifiers of their own, so a record is of one attempt.  The  *)
(* permissions need their types only: what makes their properties hard is  *)
(* the order of the two sessions, which the proof by actions covers.       *)
(***************************************************************************)
EXTENDS VaultServices, TLAPS

USE DEF history

Numbered(c) == \A p \in Permission : c[p].version = 0 <=> c[p].kind = "none"

TypeInv == TypeOK /\ Numbered(copy.chain)

-----------------------------------------------------------------------------
(* Imports *)

\* The fields of what a thread records.
LEMMA RecordType ==
  ASSUME ImportTypeOK, NEW t \in Thread, pc[t] # "idle"
  PROVE  /\ attempt[t] \in 1 .. MaxAttempt
         /\ Record(t) \in Attempt
         /\ [id |-> attempt[t], preview |-> preview[t]] \in Run
         /\ Record(t).id = attempt[t] /\ Record(t).outcome = outcome[t]
<1>1. attempt[t] \in 1 .. MaxAttempt /\ preview[t] \in Preview /\ outcome[t] \in Outcome
  BY ImportAssumption DEF ImportTypeOK
<1> QED
  BY <1>1 DEF Record, Attempt, Run

\* A step of a thread disturbs no other thread.
ThreadFrame(t) ==
  /\ \A u \in Thread \ {t} : pc'[u] = pc[u] /\ preview'[u] = preview[u]
                             /\ outcome'[u] = outcome[u] /\ attempt'[u] = attempt[u]

LEMMA ImportType ==
  ASSUME ImportTypeOK, ImportStep
  PROVE  ImportTypeOK'
<1>0. MaxAttempt \in Nat
  BY ImportAssumption
<1>1. ASSUME NEW p \in Preview, MakePreview(p) \/ ExpirePreview(p)
      PROVE  ImportTypeOK'
  BY <1>1 DEF MakePreview, ExpirePreview, ImportTypeOK, request
<1>2. ASSUME NEW t \in Thread, NEW p \in Preview, Consume(t, p) PROVE ImportTypeOK'
  <2>1. PICK step \in {"check", "record"} : Enter(t, p, step)
    BY <1>2 DEF Consume
  <2>2. lastAttempt' \in 1 .. MaxAttempt
    BY <1>0, <2>1 DEF Enter, ImportTypeOK
  <2>3. /\ pc' \in [Thread -> {"idle", "check", "commit", "record", "append"}]
        /\ preview' \in [Thread -> Preview] /\ outcome' \in [Thread -> Outcome]
        /\ attempt' \in [Thread -> 0 .. MaxAttempt]
        /\ \A u \in Thread : pc'[u] # "idle" => attempt'[u] # 0
    BY <1>0, <2>1, <2>2 DEF Enter, ImportTypeOK, Outcome
  <2> QED
    BY <1>0, <1>2, <2>2, <2>3 DEF Consume, ImportTypeOK
<1>3. ASSUME NEW t \in Thread, Revalidate(t) PROVE ImportTypeOK'
  BY <1>3 DEF Revalidate, Finish, Goto, ImportTypeOK, Outcome
<1>4. ASSUME NEW t \in Thread, Commit(t) PROVE ImportTypeOK'
  <2>1. attempt[t] \in 1 .. MaxAttempt /\ [id |-> attempt[t], preview |-> preview[t]] \in Run
    BY <1>4, RecordType DEF Commit
  <2>2. /\ runs' \subseteq Run /\ committed' \subseteq 1 .. MaxAttempt
        /\ raised' \subseteq committed'
    BY <1>4, <2>1 DEF Commit, CommitRun, ImportTypeOK
  <2>3. /\ pc' = [pc EXCEPT ![t] = "record"]
        /\ outcome' = [outcome EXCEPT ![t] = "committed"]
           \/ outcome' = [outcome EXCEPT ![t] = "failed"]
        /\ UNCHANGED <<previews, preview, attempt, lastAttempt, attempts, ledger>>
        /\ pc[t] = "commit"
    BY <1>4 DEF Commit, Finish, Goto
  <2> QED
    BY <2>1, <2>2, <2>3 DEF ImportTypeOK, Outcome
<1>5. ASSUME NEW t \in Thread, RecordAttempt(t) PROVE ImportTypeOK'
  <2>1. /\ pc[t] # "idle" /\ UNCHANGED <<previews, lastAttempt, runs, history>>
        /\ Leave(t) \/ Refuse(t)
        /\ attempts' \subseteq attempts \cup {Record(t)}
        /\ ledger' \subseteq ledger \cup {Record(t)}
    BY <1>5 DEF RecordAttempt, RecordInVault, AppendToLedger
  <2>2. attempts' \subseteq Attempt /\ ledger' \subseteq Attempt
    BY <2>1, RecordType DEF ImportTypeOK
  <2>3. CASE Leave(t)
    BY <1>0, <2>1, <2>2, <2>3 DEF Leave, ImportTypeOK, Outcome
  <2>4. CASE Refuse(t)
    BY <2>1, <2>2, <2>4 DEF Refuse, Goto, ImportTypeOK
  <2> QED
    BY <2>1, <2>3, <2>4
<1> QED
  BY <1>1, <1>2, <1>3, <1>4, <1>5 DEF ImportStep

-----------------------------------------------------------------------------
(* Permissions *)

LEMMA NextEventType ==
  ASSUME NEW p \in Permission, chain \in [Permission -> Event],
         NEW kind \in Kind, NEW expires \in BOOLEAN, NEW actor \in {"owner", "system"}
  PROVE  /\ NextEvent(p, kind, expires, actor) \in Event
         /\ NextEvent(p, kind, expires, actor).version # 0
         /\ NextEvent(p, kind, expires, actor).kind = kind /\ kind # "none"
         /\ NextEvent(p, kind, expires, actor).actor = actor
<1>1. chain[p].version \in Nat
  BY DEF Event
<1> QED
  BY <1>1 DEF NextEvent, Event, Kind

LEMMA OwnerType ==
  ASSUME PermissionTypeOK, OwnerStep
  PROVE  /\ PermissionTypeOK'
         /\ \A p \in Permission :
              chain'[p] = chain[p]
              \/ (chain[p].kind \in {"none", "grant", "supersede"} /\ chain'[p].actor = "owner")
<1>1. ASSUME NEW p \in Permission, NEW kind \in Kind, NEW expires \in BOOLEAN,
             Append(p, kind, expires)
      PROVE  /\ PermissionTypeOK'
             /\ chain'[p].actor = "owner"
             /\ \A q \in Permission \ {p} : chain'[q] = chain[q]
  <2>1. chain' = [chain EXCEPT ![p] = NextEvent(p, kind, expires, "owner")]
        /\ late' \subseteq late /\ due' = due
    BY <1>1 DEF Append
  <2>2. /\ NextEvent(p, kind, expires, "owner") \in Event
        /\ NextEvent(p, kind, expires, "owner").version # 0
        /\ NextEvent(p, kind, expires, "owner").kind # "none"
        /\ NextEvent(p, kind, expires, "owner").actor = "owner"
    BY NextEventType DEF PermissionTypeOK
  <2> QED
    BY <2>1, <2>2 DEF PermissionTypeOK
<1>2. ASSUME NEW p \in Permission, PassTime(p)
      PROVE  PermissionTypeOK' /\ chain' = chain
  <2>1. <<p, chain[p].version>> \in Permission \X Nat
    BY DEF PermissionTypeOK, Event
  <2> QED
    BY <1>2, <2>1 DEF PassTime, PermissionTypeOK
<1>3. \/ \E p \in Permission, kind \in Kind, expires \in BOOLEAN :
           Append(p, kind, expires) /\ chain[p].kind \in {"none", "grant", "supersede"}
      \/ \E p \in Permission : PassTime(p)
  <2>1. ASSUME NEW p \in Permission, NEW kind, NEW expires,
               \/ kind = "revoke" /\ expires = FALSE /\ Revoke(p)
               \/ kind = "expire" /\ expires = FALSE /\ Expire(p)
               \/ kind = "grant" /\ expires \in BOOLEAN /\ Grant(p, expires)
               \/ kind = "supersede" /\ expires \in BOOLEAN /\ Supersede(p, expires)
        PROVE  /\ kind \in Kind /\ expires \in BOOLEAN
               /\ Append(p, kind, expires) /\ chain[p].kind \in {"none", "grant", "supersede"}
    BY <2>1 DEF Revoke, Expire, Grant, Supersede, Running, Kind
  <2> QED
    BY <2>1 DEF OwnerStep
<1>4. ASSUME NEW p \in Permission, NEW kind \in Kind, NEW expires \in BOOLEAN,
             Append(p, kind, expires), chain[p].kind \in {"none", "grant", "supersede"},
             NEW q \in Permission
      PROVE  chain'[q] = chain[q]
             \/ (chain[q].kind \in {"none", "grant", "supersede"} /\ chain'[q].actor = "owner")
  BY <1>1, <1>4
<1> QED
  BY <1>1, <1>2, <1>3, <1>4

LEMMA FindType ==
  ASSUME PermissionTypeOK, NEW k, FindDue(k)
  PROVE  PermissionTypeOK' /\ chain' = chain
<1> DEFINE found == {<<p, chain[p].version>> : p \in {q \in Permission : Due(q)}}
<1>1. \A p \in Permission : <<p, chain[p].version>> \in Permission \X Nat
  BY DEF PermissionTypeOK, Event
<1>2. found \in SUBSET (Permission \X Nat)
  BY <1>1
<1>3. due' = [due EXCEPT ![k] = found] /\ UNCHANGED <<chain, late>>
  BY DEF FindDue
<1> HIDE DEF found
<1> QED
  BY <1>2, <1>3 DEF PermissionTypeOK

LEMMA RecordDueType ==
  ASSUME PermissionTypeOK, NEW k, RecordDue(k)
  PROVE  PermissionTypeOK' /\ \A p \in Permission : chain'[p] = chain[p] \/ Due(p)
<1>1. PICK ended \in SUBSET {p \in Found(k) : Due(p)} : End(k, ended)
  BY DEF RecordDue
<1>2. \A p \in Permission :
        /\ NextEvent(p, "expire", FALSE, "system") \in Event
        /\ NextEvent(p, "expire", FALSE, "system").version # 0
        /\ NextEvent(p, "expire", FALSE, "system").kind # "none"
  BY NextEventType DEF PermissionTypeOK, Kind
<1> QED
  BY <1>1, <1>2 DEF End, PermissionTypeOK

-----------------------------------------------------------------------------
(* The vault *)

\* The steps of the services, one kind at a time.
LEMMA Steps ==
  ASSUME [Next]_vars
  PROVE  \/ /\ service = "up" /\ ImportStep
            /\ UNCHANGED <<permissionVars, service, starts, restores, copy, told>>
         \/ /\ service = "up" /\ OwnerStep
            /\ UNCHANGED <<importVars, service, starts, restores, copy, told>>
         \/ /\ service = "up" /\ (FindDue(Home) \/ RecordDue(Home))
            /\ UNCHANGED <<importVars, service, starts, restores, copy, told>>
         \/ TakeCopy \/ Crash \/ Reconcile \/ ExpireAtStart \/ Restore
         \/ UNCHANGED vars
BY DEF Next, Serve

LEMMA TypeStep == TypeInv /\ [Next]_vars => TypeInv'
<1> SUFFICES ASSUME TypeInv, [Next]_vars PROVE TypeInv'
  OBVIOUS
<1>0. /\ ImportTypeOK /\ PermissionTypeOK /\ Home \in Keeper /\ Launcher \in Keeper
      /\ MaxStart \in Nat /\ MaxRestore \in Nat
  BY ServiceAssumption DEF TypeInv, TypeOK
<1>1. ASSUME ImportTypeOK', PermissionTypeOK',
             UNCHANGED <<service, starts, restores, copy, told>>
      PROVE  TypeInv'
  BY <1>1 DEF TypeInv, TypeOK
<1>2. ASSUME UNCHANGED importVars PROVE ImportTypeOK'
  BY <1>0, <1>2 DEF importVars, request, ImportTypeOK
<1>3. ASSUME UNCHANGED permissionVars PROVE PermissionTypeOK'
  BY <1>0, <1>3 DEF permissionVars, PermissionTypeOK
<1>4. /\ Vault \in [runs : SUBSET Run, attempts : SUBSET Attempt, chain : [Permission -> Event]]
      /\ Numbered(Vault.chain)
  BY <1>0 DEF Vault, ImportTypeOK, PermissionTypeOK, Numbered
<1>5. CASE TakeCopy
  BY <1>2, <1>3, <1>4, <1>5 DEF TakeCopy, TypeInv, TypeOK
<1>7. CASE Crash
  <2>1. ImportTypeOK'
    <3>1. previews' \in [Preview -> {"none", "fresh", "used", "gone"}]
      BY <1>0, <1>7, ImportAssumption DEF Crash, ForgetRequests, ImportTypeOK
    <3> QED
      BY <1>0, <1>7, <3>1, ImportAssumption DEF Crash, ForgetRequests, ImportTypeOK, Outcome
  <2>2. PermissionTypeOK'
    BY <1>0, <1>7 DEF Crash, ForgetDue, PermissionTypeOK
  <2>3. /\ starts' \in 0 .. MaxStart /\ service' = "reconcile"
        /\ UNCHANGED <<restores, copy, told>>
    BY <1>0, <1>7 DEF Crash, TypeInv, TypeOK
  <2> QED
    BY <2>1, <2>2, <2>3 DEF TypeInv, TypeOK
<1>8. CASE Reconcile
  <2>1. ImportTypeOK' /\ told' \subseteq Attempt
    BY <1>0, <1>8 DEF Reconcile, ReconcileAttempts, Unreconciled, ImportTypeOK, request
  <2>2. PermissionTypeOK'
    BY <1>0, <1>8, FindType DEF Reconcile
  <2> QED
    BY <1>8, <2>1, <2>2 DEF Reconcile, TypeInv, TypeOK
<1>9. CASE ExpireAtStart
  <2>1. PermissionTypeOK'
    BY <1>0, <1>3, <1>9, RecordDueType DEF ExpireAtStart
  <2> QED
    BY <1>2, <1>9, <2>1 DEF ExpireAtStart, TypeInv, TypeOK
<1>10. CASE Restore
  <2>1. /\ copy.runs \subseteq Run /\ copy.attempts \subseteq Attempt
        /\ copy.chain \in [Permission -> Event] /\ Numbered(copy.chain)
    BY DEF TypeInv, TypeOK
  <2>2. ImportTypeOK'
    BY <1>0, <1>10, <2>1 DEF Restore, ImportTypeOK, request
  <2>3. PermissionTypeOK'
    BY <1>0, <1>10, <2>1 DEF Restore, PermissionTypeOK, Numbered
  <2>4. /\ restores' \in 0 .. MaxRestore /\ told' \subseteq Attempt
        /\ copy' \in {copy, Vault} /\ UNCHANGED <<service, starts>>
    BY <1>0, <1>10 DEF Restore, TypeInv, TypeOK
  <2> QED
    BY <1>4, <2>2, <2>3, <2>4 DEF TypeInv, TypeOK
<1>11. CASE UNCHANGED vars
  BY <1>1, <1>2, <1>3, <1>11 DEF vars
<1> QED
  BY <1>0, <1>1, <1>2, <1>3, <1>5, <1>7, <1>8, <1>9, <1>10, <1>11, Steps,
     ImportType, OwnerType, FindType, RecordDueType

LEMMA TypeInit == Init => TypeInv
<1> SUFFICES ASSUME Init PROVE TypeInv
  OBVIOUS
<1>1. ImportTypeOK
  BY ImportAssumption DEF Init, ImportInit, ImportTypeOK, Outcome
<1>2. PermissionTypeOK /\ Numbered(chain)
  BY DEF Init, PermissionInit, PermissionTypeOK, Event, None, Kind, Numbered
<1>3. copy = Vault /\ Vault.chain = chain
      /\ Vault \in [runs : SUBSET Run, attempts : SUBSET Attempt, chain : [Permission -> Event]]
  BY <1>1, <1>2 DEF Init, Vault, ImportTypeOK, PermissionTypeOK
<1> QED
  BY <1>1, <1>2, <1>3, ServiceAssumption DEF Init, TypeInv, TypeOK

-----------------------------------------------------------------------------
(* Previews are applied once *)

AllRuns == runs \cup copy.runs

Applying(t) == pc[t] \in {"check", "commit"}

\* A preview that can still be taken has no run and no thread, and one that a
\* thread is about to apply has no run and no other thread.
ApplyInv ==
  /\ \A r, s \in AllRuns : r.preview = s.preview => r.id = s.id
  /\ \A p \in Preview : previews[p] \in {"none", "fresh"} =>
       /\ \A r \in AllRuns : r.preview # p
       /\ \A t \in Thread : Applying(t) => preview[t] # p
  /\ \A t \in Thread : Applying(t) =>
       /\ \A r \in AllRuns : r.preview # preview[t]
       /\ \A u \in Thread \ {t} : Applying(u) => preview[u] # preview[t]

LEMMA ApplyImport ==
  ASSUME ImportTypeOK, ApplyInv, ImportStep, copy' = copy
  PROVE  ApplyInv'
<1>1. ASSUME NEW p \in Preview, MakePreview(p) \/ ExpirePreview(p)
      PROVE  ApplyInv'
  <2>1. /\ UNCHANGED <<pc, preview, runs>>
        /\ \A q \in Preview : previews'[q] \in {"none", "fresh"} =>
             previews[q] \in {"none", "fresh"}
    BY <1>1 DEF MakePreview, ExpirePreview, request, ImportTypeOK
  <2> QED
    BY <2>1 DEF ApplyInv, AllRuns, Applying
<1>2. ASSUME NEW t \in Thread, NEW p \in Preview, Consume(t, p) PROVE ApplyInv'
  <2>1. /\ runs' = runs /\ pc[t] = "idle" /\ preview'[t] = p
        /\ pc'[t] \in {"check", "record"}
        /\ Applying(t)' => previews[p] = "fresh" /\ pc'[t] = "check"
        /\ \A u \in Thread \ {t} : pc'[u] = pc[u] /\ preview'[u] = preview[u]
    BY <1>2 DEF Consume, Enter, ImportTypeOK, Applying
  <2>2. /\ pc'[t] = "check" => previews'[p] \notin {"none", "fresh"}
        /\ \A q \in Preview : previews'[q] \in {"none", "fresh"} =>
             previews[q] \in {"none", "fresh"}
    BY <1>2 DEF Consume, Enter, ImportTypeOK
  <2>3. AllRuns' = AllRuns
    BY <2>1 DEF AllRuns
  <2>4. \A u \in Thread \ {t} : Applying(u)' <=> Applying(u)
    BY <2>1 DEF Applying
  <2>5. Applying(t)' => previews[p] = "fresh"
    BY <2>1 DEF Applying
  <2>6. ASSUME NEW q \in Preview, previews'[q] \in {"none", "fresh"}
        PROVE  /\ \A r \in AllRuns : r.preview # q
               /\ \A u \in Thread : Applying(u)' => preview'[u] # q
    BY <2>1, <2>2, <2>4, <2>6 DEF ApplyInv
  <2>7. ASSUME NEW u \in Thread, Applying(u)'
        PROVE  /\ \A r \in AllRuns : r.preview # preview'[u]
               /\ \A v \in Thread \ {u} : Applying(v)' => preview'[v] # preview'[u]
    BY <2>1, <2>4, <2>5, <2>7 DEF ApplyInv
  <2> QED
    BY <2>3, <2>6, <2>7 DEF ApplyInv
<1>3. ASSUME NEW t \in Thread, Revalidate(t) \/ RecordAttempt(t) PROVE ApplyInv'
  <2>1. /\ UNCHANGED <<previews, runs>>
        /\ \A u \in Thread : preview'[u] = preview[u] /\ (Applying(u)' => Applying(u))
    BY <1>3 DEF Revalidate, RecordAttempt, RecordInVault, AppendToLedger, Refuse, Leave,
       Finish, Goto, Applying, ImportTypeOK
  <2> QED
    BY <2>1 DEF ApplyInv, AllRuns
<1>4. ASSUME NEW t \in Thread, Commit(t) PROVE ApplyInv'
  <2> DEFINE new == [id |-> attempt[t], preview |-> preview[t]]
  <2>1. /\ UNCHANGED <<previews, preview>> /\ Applying(t) /\ ~Applying(t)'
        /\ \A u \in Thread \ {t} : Applying(u)' <=> Applying(u)
        /\ AllRuns' \subseteq AllRuns \cup {new}
    BY <1>4 DEF Commit, CommitRun, Finish, Goto, Applying, ImportTypeOK, AllRuns
  <2>2. \A p \in Preview : previews[p] \in {"none", "fresh"} => preview[t] # p
    BY <2>1 DEF ApplyInv
  <2>3. \A r \in AllRuns : r.preview # new.preview
    BY <2>1 DEF ApplyInv
  <2>4. \A u \in Thread \ {t} : Applying(u) => preview[u] # new.preview
    BY <2>1 DEF ApplyInv
  <2>5. new.preview = preview[t]
    OBVIOUS
  <2> HIDE DEF new
  <2>6. \A r, s \in AllRuns' : r.preview = s.preview => r.id = s.id
    BY <2>1, <2>3 DEF ApplyInv
  <2>7. ASSUME NEW p \in Preview, previews'[p] \in {"none", "fresh"}
        PROVE  /\ \A r \in AllRuns' : r.preview # p
               /\ \A u \in Thread : Applying(u)' => preview'[u] # p
    BY <2>1, <2>2, <2>5, <2>7 DEF ApplyInv
  <2>8. ASSUME NEW u \in Thread, Applying(u)'
        PROVE  /\ \A r \in AllRuns' : r.preview # preview'[u]
               /\ \A v \in Thread \ {u} : Applying(v)' => preview'[v] # preview'[u]
    BY <2>1, <2>4, <2>8 DEF ApplyInv
  <2> QED
    BY <2>6, <2>7, <2>8 DEF ApplyInv
<1> QED
  BY <1>1, <1>2, <1>3, <1>4 DEF ImportStep

LEMMA ApplyStep ==
  ASSUME TypeInv, ApplyInv, [Next]_vars
  PROVE  ApplyInv'
<1>1. ASSUME UNCHANGED <<previews, pc, preview>>, AllRuns' \subseteq AllRuns PROVE ApplyInv'
  BY <1>1 DEF ApplyInv, Applying
<1>2. CASE UNCHANGED <<importVars, copy>>
  BY <1>1, <1>2 DEF importVars, request, AllRuns
<1>3. CASE TakeCopy \/ Restore
  BY <1>1, <1>3 DEF TakeCopy, Restore, Vault, importVars, request, AllRuns
<1>4. CASE Crash
  <2>1. /\ AllRuns' = AllRuns /\ \A t \in Thread : ~Applying(t)'
        /\ \A p \in Preview : previews'[p] \in {"none", "fresh"} =>
             previews[p] \in {"none", "fresh"}
    BY <1>4 DEF Crash, ForgetRequests, Applying, AllRuns
  <2> QED
    BY <2>1 DEF ApplyInv
<1>5. CASE Reconcile
  BY <1>1, <1>5 DEF Reconcile, ReconcileAttempts, request, AllRuns
<1>6. CASE ExpireAtStart \/ UNCHANGED vars
  BY <1>2, <1>6 DEF ExpireAtStart, vars
<1> QED
  BY <1>2, <1>3, <1>4, <1>5, <1>6, Steps, ApplyImport DEF TypeInv, TypeOK

-----------------------------------------------------------------------------
(* Outcomes are true *)

AllAttempts == attempts \cup ledger \cup copy.attempts

\* The attempts that know of their run.
Known == committed \ raised
USE DEF Known

\* What is recorded of an attempt is what became of it; a thread has an attempt
\* of its own, of which nothing is recorded yet.
OutcomeInv ==
  /\ committed \subseteq 1 .. lastAttempt /\ raised \subseteq committed
  /\ \A a \in AllAttempts :
       a.id <= lastAttempt /\ (a.outcome = "committed" <=> a.id \in Known)
  /\ \A a, b \in AllAttempts : a.id = b.id => a = b
  /\ \A t \in Thread : pc[t] # "idle" =>
       /\ attempt[t] <= lastAttempt
       /\ \A a \in AllAttempts : a.id # attempt[t]
       /\ \A u \in Thread \ {t} : pc[u] # "idle" => attempt[u] # attempt[t]
       /\ Applying(t) => attempt[t] \notin committed
       /\ ~Applying(t) => (outcome[t] = "committed" <=> attempt[t] \in Known)

LEMMA OutcomeImport ==
  ASSUME ImportTypeOK, OutcomeInv, ImportStep, UNCHANGED copy, AllAttempts \subseteq Attempt
  PROVE  OutcomeInv'
<1>0. /\ lastAttempt \in Nat /\ MaxAttempt \in Nat
      /\ \A a \in AllAttempts : a.id \in Nat
      /\ \A t \in Thread : attempt[t] \in Nat
  BY ImportAssumption DEF ImportTypeOK, Attempt
<1>1. ASSUME NEW p \in Preview, MakePreview(p) \/ ExpirePreview(p)
      PROVE  OutcomeInv'
  <2>1. UNCHANGED <<request, lastAttempt, attempts, ledger, history>>
    BY <1>1 DEF MakePreview, ExpirePreview
  <2> QED
    BY <2>1 DEF OutcomeInv, AllAttempts, Applying, request
<1>2. ASSUME NEW t \in Thread, NEW p \in Preview, Consume(t, p) PROVE OutcomeInv'
  <2>1. /\ UNCHANGED <<attempts, ledger, history>> /\ pc[t] = "idle"
        /\ lastAttempt' = lastAttempt + 1 /\ attempt'[t] = lastAttempt + 1
        /\ pc'[t] \in {"check", "record"} /\ outcome'[t] = "rejected"
        /\ \A u \in Thread \ {t} :
             /\ pc'[u] = pc[u] /\ outcome'[u] = outcome[u] /\ attempt'[u] = attempt[u]
    BY <1>2 DEF Consume, Enter, ImportTypeOK
  <2>2. AllAttempts' = AllAttempts /\ \A u \in Thread \ {t} : Applying(u)' <=> Applying(u)
    BY <2>1 DEF AllAttempts, Applying
  <2>3. /\ attempt'[t] \notin committed /\ attempt'[t] \notin raised
        /\ \A a \in AllAttempts : a.id # attempt'[t]
        /\ \A u \in Thread \ {t} : pc[u] # "idle" => attempt[u] # attempt'[t]
    BY <1>0, <2>1 DEF OutcomeInv
  <2>4. ASSUME NEW u \in Thread, pc'[u] # "idle"
        PROVE  /\ attempt'[u] <= lastAttempt'
               /\ \A a \in AllAttempts : a.id # attempt'[u]
               /\ \A v \in Thread \ {u} : pc'[v] # "idle" => attempt'[v] # attempt'[u]
               /\ Applying(u)' => attempt'[u] \notin committed
               /\ ~Applying(u)' => (outcome'[u] = "committed" <=> attempt'[u] \in Known)
    <3>1. CASE u = t
      BY <1>0, <2>1, <2>3, <3>1
    <3>2. CASE u # t
      BY <1>0, <2>1, <2>2, <2>3, <2>4, <3>2 DEF OutcomeInv
    <3> QED
      BY <3>1, <3>2
  <2>5. /\ committed' \subseteq 1 .. lastAttempt'
        /\ \A a \in AllAttempts' :
             a.id <= lastAttempt' /\ (a.outcome = "committed" <=> a.id \in Known')
        /\ \A a, b \in AllAttempts' : a.id = b.id => a = b
    BY <1>0, <2>1, <2>2 DEF OutcomeInv
  <2> QED
    BY <2>1, <2>2, <2>4, <2>5 DEF OutcomeInv
<1>3. ASSUME NEW t \in Thread, Revalidate(t) PROVE OutcomeInv'
  <2>1. /\ UNCHANGED <<attempts, ledger, history, lastAttempt, attempt>> /\ pc[t] = "check"
        /\ pc'[t] = "commit" \/ (pc'[t] = "record" /\ outcome'[t] \in {"rejected", "failed"})
        /\ \A u \in Thread \ {t} : pc'[u] = pc[u] /\ outcome'[u] = outcome[u]
    BY <1>3 DEF Revalidate, Finish, Goto, ImportTypeOK
  <2>2. AllAttempts' = AllAttempts /\ \A u \in Thread \ {t} : Applying(u)' <=> Applying(u)
    BY <2>1 DEF AllAttempts, Applying
  <2> QED
    BY <2>1, <2>2 DEF OutcomeInv, Applying
<1>4. ASSUME NEW t \in Thread, Commit(t) PROVE OutcomeInv'
  <2>1. /\ UNCHANGED <<attempts, ledger, lastAttempt, attempt>> /\ Applying(t)
        /\ pc[t] # "idle" /\ pc'[t] = "record"
        /\ \/ /\ outcome'[t] = "committed" /\ raised' = raised
              /\ committed' = committed \cup {attempt[t]}
           \/ /\ outcome'[t] = "failed" /\ raised' = raised \cup {attempt[t]}
              /\ committed' = committed \cup {attempt[t]}
           \/ outcome'[t] = "failed" /\ UNCHANGED <<committed, raised>>
        /\ \A u \in Thread \ {t} : pc'[u] = pc[u] /\ outcome'[u] = outcome[u]
    BY <1>4 DEF Commit, CommitRun, Finish, Goto, ImportTypeOK, Applying
  <2>2. AllAttempts' = AllAttempts /\ \A u \in Thread \ {t} : Applying(u)' <=> Applying(u)
    BY <2>1 DEF AllAttempts, Applying
  <2>3. attempt[t] \in 1 .. lastAttempt /\ attempt[t] \notin committed
    BY <1>0, <2>1 DEF OutcomeInv, ImportTypeOK
  <2> QED
    BY <2>1, <2>2, <2>3 DEF OutcomeInv, Applying
<1>5. ASSUME NEW t \in Thread, RecordAttempt(t) PROVE OutcomeInv'
  <2>1. /\ UNCHANGED <<history, lastAttempt>> /\ pc[t] \in {"record", "append"}
        /\ \A u \in Thread \ {t} :
             /\ pc'[u] = pc[u] /\ outcome'[u] = outcome[u] /\ attempt'[u] = attempt[u]
        /\ \/ pc'[t] = "idle" /\ AllAttempts' \subseteq AllAttempts \cup {Record(t)}
           \/ /\ pc'[t] = "append" /\ outcome'[t] = outcome[t] /\ attempt'[t] = attempt[t]
              /\ AllAttempts' = AllAttempts
    BY <1>5 DEF RecordAttempt, RecordInVault, AppendToLedger, Refuse, Leave, Goto,
       ImportTypeOK, AllAttempts
  <2>2. \A u \in Thread \ {t} : Applying(u)' <=> Applying(u)
    BY <2>1 DEF Applying
  <2>3. Record(t).id = attempt[t] /\ Record(t).outcome = outcome[t] /\ ~Applying(t)
    BY <2>1 DEF Record, Applying
  <2>4. CASE pc'[t] = "idle" /\ AllAttempts' \subseteq AllAttempts \cup {Record(t)}
    <3>1. \A a \in AllAttempts' :
            a.id <= lastAttempt /\ (a.outcome = "committed" <=> a.id \in Known)
      BY <2>1, <2>3, <2>4 DEF OutcomeInv
    <3>2. \A a, b \in AllAttempts' : a.id = b.id => a = b
      BY <2>1, <2>3, <2>4 DEF OutcomeInv
    <3>3. ASSUME NEW u \in Thread \ {t}, pc[u] # "idle"
          PROVE  \A a \in AllAttempts' : a.id # attempt[u]
      BY <2>1, <2>3, <2>4, <3>3 DEF OutcomeInv
    <3> QED
      BY <2>1, <2>2, <2>4, <3>1, <3>2, <3>3 DEF OutcomeInv
  <2>5. CASE /\ pc'[t] = "append" /\ outcome'[t] = outcome[t] /\ attempt'[t] = attempt[t]
             /\ AllAttempts' = AllAttempts
    <3>1. ~Applying(t)'
      BY <2>5 DEF Applying
    <3> QED
      BY <2>1, <2>2, <2>3, <2>5, <3>1 DEF OutcomeInv
  <2> QED
    BY <2>1, <2>4, <2>5
<1> QED
  BY <1>1, <1>2, <1>3, <1>4, <1>5 DEF ImportStep

LEMMA OutcomeStep ==
  ASSUME TypeInv, OutcomeInv, [Next]_vars
  PROVE  OutcomeInv'
<1>0. ImportTypeOK /\ AllAttempts \subseteq Attempt
  BY DEF TypeInv, TypeOK, ImportTypeOK, AllAttempts
<1>1. ASSUME UNCHANGED <<request, lastAttempt, history>>, AllAttempts' \subseteq AllAttempts
      PROVE  OutcomeInv'
  BY <1>1 DEF OutcomeInv, Applying, request
<1>2. CASE UNCHANGED <<importVars, copy>>
  BY <1>1, <1>2 DEF importVars, AllAttempts
<1>3. CASE TakeCopy \/ Restore
  BY <1>1, <1>3 DEF TakeCopy, Restore, Vault, importVars, AllAttempts
<1>4. CASE Crash
  <2>1. /\ UNCHANGED <<lastAttempt, history>> /\ AllAttempts' = AllAttempts
        /\ \A t \in Thread : pc'[t] = "idle"
    BY <1>4 DEF Crash, ForgetRequests, AllAttempts
  <2> QED
    BY <2>1 DEF OutcomeInv
<1>5. CASE Reconcile
  BY <1>1, <1>5 DEF Reconcile, ReconcileAttempts, Unreconciled,
     AllAttempts
<1>6. CASE ExpireAtStart \/ UNCHANGED vars
  BY <1>2, <1>6 DEF ExpireAtStart, vars
<1> QED
  BY <1>0, <1>2, <1>3, <1>4, <1>5, <1>6, Steps, OutcomeImport

\* The launcher finds every outcome of the ledger in the vault, or adds it: one
\* with the same identifier is the same.
LEMMA LedgerStep ==
  ASSUME OutcomeInv, LedgerIsReconciled, [Next]_vars
  PROVE  LedgerIsReconciled'
<1>1. ASSUME attempts \subseteq attempts', told' = told,
             service' # "reconcile" => service # "reconcile"
      PROVE  LedgerIsReconciled'
  BY <1>1 DEF LedgerIsReconciled
<1>2. CASE Reconcile
  <2>1. \A a \in ledger : a \in Unreconciled \/ a \in attempts
    BY DEF Unreconciled, OutcomeInv, AllAttempts
  <2> QED
    BY <1>2, <2>1 DEF Reconcile, ReconcileAttempts, LedgerIsReconciled
<1>3. CASE Restore
  BY <1>3 DEF Restore, LedgerIsReconciled
<1>4. CASE Crash
  BY <1>4 DEF Crash, LedgerIsReconciled
<1>5. CASE ImportStep /\ UNCHANGED <<service, told>>
  <2>1. attempts \subseteq attempts'
    BY <1>5 DEF ImportStep, MakePreview, ExpirePreview, Consume, Revalidate, Commit,
       RecordAttempt, RecordInVault, AppendToLedger
  <2> QED
    BY <1>1, <1>5, <2>1
<1>6. CASE UNCHANGED <<attempts, told>> /\ (service' # "reconcile" => service # "reconcile")
  BY <1>1, <1>6
<1> QED
  BY <1>2, <1>3, <1>4, <1>5, <1>6, Steps DEF TakeCopy,
     ExpireAtStart, importVars, vars

-----------------------------------------------------------------------------
(* Theorems *)

ServiceInv == TypeInv /\ ApplyInv /\ OutcomeInv /\ LedgerIsReconciled

LEMMA ServiceInvariance == Spec => []ServiceInv
<1>1. Init => ServiceInv
  <2> SUFFICES ASSUME Init PROVE ServiceInv
    OBVIOUS
  <2>1. /\ runs = {} /\ copy.runs = {} /\ attempts = {} /\ ledger = {} /\ copy.attempts = {}
        /\ committed = {} /\ raised = {} /\ told = {} /\ \A t \in Thread : pc[t] = "idle"
    BY DEF Init, ImportInit, Vault
  <2>2. ApplyInv /\ OutcomeInv /\ LedgerIsReconciled
    BY <2>1 DEF ApplyInv, OutcomeInv, AllRuns, AllAttempts, Applying, LedgerIsReconciled
  <2> QED
    BY <2>2, TypeInit DEF ServiceInv
<1>2. ServiceInv /\ [Next]_vars => ServiceInv'
  BY TypeStep, ApplyStep, OutcomeStep, LedgerStep DEF ServiceInv
<1> QED
  BY <1>1, <1>2, PTL DEF Spec

\* Every variable of the imports and permissions keeps its type, also across
\* crashes and restored copies.
THEOREM ServicesTypeCorrect == Spec => []TypeOK
BY ServiceInvariance, PTL DEF ServiceInv, TypeInv

\* A preview is applied at most once, however many threads post it and whatever
\* a restored vault forgot (imports/service.py, _consume_preview and apply).
THEOREM PreviewIsAppliedOnce == Spec => []AppliedAtMostOnce
<1>1. ServiceInv => AppliedAtMostOnce
  BY DEF ServiceInv, ApplyInv, AllRuns, AppliedAtMostOnce
<1> QED
  BY ServiceInvariance, <1>1, PTL

\* What is recorded of an import, in the vault or in the ledger, is what became
\* of it, save for a run whose call raised after its commit
\* (imports/service.py, _record_attempt and apply).
THEOREM RecordedOutcomesAreTrue == Spec => []OutcomesAreTrue
<1>1. ServiceInv => OutcomesAreTrue
  BY DEF ServiceInv, OutcomeInv, AllAttempts, OutcomesAreTrue
<1> QED
  BY ServiceInvariance, <1>1, PTL

\* A started application has every outcome the ledger had in its vault
\* (storage/mutation.py, reconcile_import_attempt_events; launcher.py,
\* prepare_vault).
THEOREM VaultCatchesUp == Spec => []LedgerIsReconciled
BY ServiceInvariance, PTL DEF ServiceInv

\* What any step does to a permission.
LEMMA PermissionStep ==
  ASSUME TypeInv, [Next]_vars, restores' = restores, NEW p \in Permission
  PROVE  \/ chain'[p] = chain[p] \/ Due(p)
         \/ /\ chain[p].kind \in {"none", "grant", "supersede"}
            /\ chain'[p].actor = "owner"
<1>0. PermissionTypeOK /\ restores \in Nat
  BY ServiceAssumption DEF TypeInv, TypeOK
<1>1. ~Restore
  BY <1>0 DEF Restore
<1>2. CASE OwnerStep
  BY <1>0, <1>2, OwnerType
<1>3. ASSUME NEW k, FindDue(k) \/ RecordDue(k) PROVE chain'[p] = chain[p] \/ Due(p)
  BY <1>0, <1>3, FindType, RecordDueType
<1>4. CASE chain' = chain
  BY <1>4
<1> QED
  BY <1>1, <1>2, <1>3, <1>4, Steps DEF TakeCopy, Crash, ForgetDue, Reconcile,
     ExpireAtStart, permissionVars, vars

\* An ended permission stays as it is, unless an older vault is restored
\* (facts/permissions.py).
THEOREM EndedPermissionsStayEnded == Spec => EndedStaysEnded
<1>1. TypeInv /\ [Next]_vars =>
        [restores' = restores =>
           \A p \in Permission :
             chain[p].kind \in {"revoke", "expire"} => chain'[p] = chain[p]]_vars
  BY PermissionStep DEF Due, Running
<1> QED
  BY ServiceInvariance, <1>1, PTL DEF Spec, ServiceInv, EndedStaysEnded

\* The application ends only what is due when it ends it (facts/permissions.py,
\* expire_due).
THEOREM OnlyTheDueIsExpired == Spec => OnlyDueExpires
<1>1. TypeInv /\ [Next]_vars =>
        [restores' = restores =>
           \A p \in Permission :
             chain'[p].actor = "system" /\ chain'[p] # chain[p] => Due(p)]_vars
  BY PermissionStep
<1> QED
  BY ServiceInvariance, <1>1, PTL DEF Spec, ServiceInv, OnlyDueExpires

=============================================================================

--------------------------- MODULE ImportAttempts ---------------------------
(***************************************************************************)
(* The import of the curated sources as a protocol.  A preview reads the   *)
(* sources and is kept in memory; applying it takes the preview, compares  *)
(* the sources with it, commits a run in one transaction and records the   *)
(* outcome of the attempt in another.  An outcome the vault refuses goes   *)
(* to the recovery ledger, a file outside the vault, and from there into   *)
(* the vault when the application starts.  What a run writes is the        *)
(* business of FactReview.                                                 *)
(*                                                                         *)
(* Requests run on threads; any call to the vault or to the ledger fails   *)
(* when it likes.                                                          *)
(***************************************************************************)
EXTENDS Naturals, FiniteSets

CONSTANTS
  Thread,
  Preview,
  MaxAttempt   \* bound: applications of a preview

ASSUME ImportAssumption == MaxAttempt \in Nat

VARIABLES
  previews,    \* the previews in memory
  pc, preview, outcome, attempt, \* each thread: step, preview, outcome, attempt id
  lastAttempt,
  runs,        \* committed import runs: the preview and the attempt of each
  attempts,    \* the outcomes recorded in the vault
  ledger,      \* the outcomes recorded in the recovery ledger
  committed,   \* history: the attempts whose run was committed
  raised       \* history: those of them whose call raised after its commit

request    == <<pc, preview, outcome, attempt>>
history    == <<committed, raised>>
importVars == <<previews, request, lastAttempt, runs, attempts, ledger, history>>

Outcome == {"rejected", "failed", "committed"}
Attempt == [id : 1 .. MaxAttempt, preview : Preview, outcome : Outcome]
Run     == [id : 1 .. MaxAttempt, preview : Preview]

ImportTypeOK ==
  /\ previews \in [Preview -> {"none", "fresh", "used", "gone"}]
  /\ pc \in [Thread -> {"idle", "check", "commit", "record", "append"}]
  /\ preview \in [Thread -> Preview] /\ outcome \in [Thread -> Outcome]
  /\ attempt \in [Thread -> 0 .. MaxAttempt] /\ lastAttempt \in 0 .. MaxAttempt
  /\ \A t \in Thread : pc[t] # "idle" => attempt[t] # 0
  /\ runs \subseteq Run /\ committed \subseteq 1 .. MaxAttempt /\ raised \subseteq committed
  /\ attempts \subseteq Attempt /\ ledger \subseteq Attempt

ImportInit ==
  /\ previews = [p \in Preview |-> "none"]
  /\ pc = [t \in Thread |-> "idle"] /\ preview \in [Thread -> Preview]
  /\ outcome = [t \in Thread |-> "rejected"] /\ attempt = [t \in Thread |-> 0]
  /\ lastAttempt = 0
  /\ runs = {} /\ attempts = {} /\ ledger = {} /\ committed = {} /\ raised = {}

\* preview.  Its identifier is random, so it is made once.
MakePreview(p) ==
  /\ previews[p] = "none"
  /\ previews' = [previews EXCEPT ![p] = "fresh"]
  /\ UNCHANGED <<request, lastAttempt, runs, attempts, ledger, history>>

\* Ten minutes pass.  An expired preview is refused like a forgotten one.
ExpirePreview(p) ==
  /\ previews[p] = "fresh"
  /\ previews' = [previews EXCEPT ![p] = "gone"]
  /\ UNCHANGED <<request, lastAttempt, runs, attempts, ledger, history>>

\* Thread t goes on at step; with an outcome, where the step decides one.
Goto(t, step) == pc' = [pc EXCEPT ![t] = step] /\ UNCHANGED <<preview, attempt>>
Finish(t, step, o) == Goto(t, step) /\ outcome' = [outcome EXCEPT ![t] = o]

Leave(t) ==
  /\ pc' = [pc EXCEPT ![t] = "idle"] /\ attempt' = [attempt EXCEPT ![t] = 0]
  /\ outcome' = [outcome EXCEPT ![t] = "rejected"] /\ UNCHANGED preview

Enter(t, p, step) ==
  /\ pc[t] = "idle" /\ lastAttempt < MaxAttempt
  /\ lastAttempt' = lastAttempt + 1
  /\ attempt' = [attempt EXCEPT ![t] = lastAttempt']
  /\ preview' = [preview EXCEPT ![t] = p]
  /\ outcome' = [outcome EXCEPT ![t] = "rejected"]
  /\ pc' = [pc EXCEPT ![t] = step]

\* Mutant: a preview that is taken is not marked as used.
ConsumeLate(t, p) ==
  /\ previews[p] # "none"
  /\ Enter(t, p, IF previews[p] = "fresh" THEN "check" ELSE "record")
  /\ UNCHANGED <<previews, runs, attempts, ledger, history>>

\* _consume_preview, under the lock of the previews.  A preview that is unknown,
\* used, expired or another session's is refused and stays as it is; an incomplete
\* one that was not confirmed is taken and refused.
Consume(t, p) ==
  /\ \/ /\ previews[p] = "fresh"
        /\ \E step \in {"check", "record"} : Enter(t, p, step)
        /\ previews' = [previews EXCEPT ![p] = "used"]
     \/ previews[p] # "none" /\ Enter(t, p, "record") /\ UNCHANGED previews
  /\ UNCHANGED <<runs, attempts, ledger, history>>

\* _revalidate_sources.  The owner may have edited the sources at any moment since
\* the preview read them; a run commits what the preview read.
Revalidate(t) ==
  /\ pc[t] = "check"
  /\ \/ Goto(t, "commit") /\ UNCHANGED outcome
     \/ \E o \in {"rejected", "failed"} : Finish(t, "record", o)
  /\ UNCHANGED <<previews, lastAttempt, runs, attempts, ledger, history>>

CommitRun(t) ==
  /\ runs' = runs \cup {[id |-> attempt[t], preview |-> preview[t]]}
  /\ committed' = committed \cup {attempt[t]}

\* _apply_snapshot.  A call that raises after its commit is taken for one that
\* committed nothing.
Commit(t) ==
  /\ pc[t] = "commit"
  /\ \/ CommitRun(t) /\ Finish(t, "record", "committed") /\ UNCHANGED raised
     \/ /\ CommitRun(t) /\ Finish(t, "record", "failed")
        /\ raised' = raised \cup {attempt[t]}
     \/ Finish(t, "record", "failed") /\ UNCHANGED <<runs, history>>
  /\ UNCHANGED <<previews, lastAttempt, attempts, ledger>>

Record(t) == [id |-> attempt[t], preview |-> preview[t], outcome |-> outcome[t]]

\* Mutant: recording a success is one of the calls whose failure is recorded.
RefuseInsideTry(t) == Finish(t, "append", "failed")

Refuse(t) == Goto(t, "append") /\ UNCHANGED outcome

\* _record_attempt: the vault, or else the ledger, or else nothing; both, if the
\* vault's call raises after its commit.
RecordInVault(t) ==
  /\ pc[t] = "record" /\ Leave(t)
  /\ attempts' = attempts \cup {Record(t)}
  /\ ledger' \in {ledger, ledger \cup {Record(t)}}

AppendToLedger(t) ==
  /\ pc[t] = "append" /\ Leave(t)
  /\ ledger' = ledger \cup {Record(t)} /\ UNCHANGED attempts

RecordAttempt(t) ==
  /\ \/ RecordInVault(t) \/ AppendToLedger(t)
     \/ pc[t] = "record" /\ Refuse(t) /\ UNCHANGED <<attempts, ledger>>
     \/ pc[t] = "append" /\ Leave(t) /\ UNCHANGED <<attempts, ledger>>
  /\ UNCHANGED <<previews, lastAttempt, runs, history>>

ImportStep ==
  \/ \E p \in Preview : MakePreview(p) \/ ExpirePreview(p)
  \/ \E t \in Thread : (\E p \in Preview : Consume(t, p)) \/ Revalidate(t) \/ Commit(t)
                         \/ RecordAttempt(t)

\* What a crash leaves of it.
ForgetRequests ==
  /\ pc' = [t \in Thread |-> "idle"] /\ attempt' = [t \in Thread |-> 0]
  /\ outcome' = [t \in Thread |-> "rejected"]
  /\ previews' = [p \in Preview |->
       IF previews[p] = "none" THEN "none" ELSE "gone"]
  /\ UNCHANGED <<preview, lastAttempt, runs, attempts, ledger, history>>

\* reconcile_import_attempt_events: what the vault lacks of the ledger.
Unreconciled == {a \in ledger : \A b \in attempts : b.id # a.id}

ReconcileAttempts ==
  /\ attempts' = attempts \cup Unreconciled
  /\ UNCHANGED <<previews, request, lastAttempt, runs, ledger, history>>
=============================================================================

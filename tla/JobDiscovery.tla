----------------------------- MODULE JobDiscovery -----------------------------
(***************************************************************************)
(* A discovery run: ask each provider in turn, then merge what they list   *)
(* into the catalog in one transaction.  A run is bound to the Phase I     *)
(* inputs and the grant it starts with; it runs on the event loop while    *)
(* Phase I changes on other threads, providers change what they list, and  *)
(* the process may die.  The catalog keeps every text it has seen of a     *)
(* listing; the newest revision of its job is the one that is shown,       *)
(* mapped and verified.                                                    *)
(***************************************************************************)
EXTENDS Naturals, Sequences, FiniteSets, SequencesExt

CONSTANTS
  Plan,        \* the providers, in the order they are asked
  Listing,     \* what the providers list, and who lists it: a job each, since
  From,        \* a listing that moves to another URL counts as another
  Text,        \* what a listing can say
  Nothing,
  MaxPhase1,   \* bound: changes of facts, profile or acceptance
  MaxGrant,    \* bound: grants
  MaxRun       \* bound: merged runs

Provider == ToSet(Plan)

ASSUME DiscoveryAssumption ==
  /\ Plan \in Seq(Provider) /\ Plan # <<>> /\ IsInjective(Plan)
  /\ From \in [Listing -> Provider]
  /\ Nothing \notin Text
  /\ MaxPhase1 \in Nat /\ MaxGrant \in Nat /\ MaxRun \in Nat

VARIABLES
  phase1,        \* generation of everything activation_inputs binds
  grant,         \* the current grant: generation, state, inputs
  listed,        \* what each listing says today
  run,           \* the run on the event loop
  failures,      \* _last_provider_failures, in memory
  runs,          \* the rows of merged runs
  observations,  \* rows: a listing, its text, the run that saw it
  revisions,     \* of each listing's job, oldest first
  fetched        \* history: what merged runs were told, newest last

catalog == <<runs, observations, revisions>>
vars == <<phase1, grant, listed, run, failures, catalog, fetched>>

Grant == [generation : Nat, active : BOOLEAN, inputs : Nat]
RunRow == [inputs : Nat, generation : Nat, late : Nat]
Observation == [listing : Listing, text : Text, run : Nat]

\* late counts the providers asked after the run's authority had moved.
Step == {"idle", "capture", "check", "ask", "enter", "merge"}
RunState ==
  [step : Step, generation : Nat, inputs : Nat, next : 1 .. Len(Plan) + 1,
   told : [Listing -> Text \cup {Nothing}], failed : SUBSET Provider, late : Nat]
Idle == [step |-> "idle", generation |-> 0, inputs |-> 0, next |-> 1,
         told |-> [l \in Listing |-> Nothing], failed |-> {}, late |-> 0]

TypeOK ==
  /\ phase1 \in Nat /\ grant \in Grant
  /\ listed \in [Listing -> Text \cup {Nothing}]
  /\ run \in RunState
  /\ run.step \in {"enter", "merge"} \/ run.next <= Len(Plan)
  /\ failures \subseteq Provider
  /\ runs \in Seq(RunRow)
  /\ observations \subseteq Observation
  /\ revisions \in [Listing -> Seq(Text)]
  /\ fetched \in [Listing -> Seq(Text)]

Init ==
  /\ phase1 = 0 /\ grant = [generation |-> 0, active |-> FALSE, inputs |-> 0]
  /\ listed \in [Listing -> Text]
  /\ run = Idle /\ failures = {}
  /\ runs = <<>> /\ observations = {} /\ revisions = [l \in Listing |-> <<>>]
  /\ fetched = [l \in Listing |-> <<>>]

-----------------------------------------------------------------------------
(* Around the run *)

ChangePhase1 ==
  /\ phase1 < MaxPhase1 /\ phase1' = phase1 + 1
  /\ UNCHANGED <<grant, listed, run, failures, catalog, fetched>>

ChangeListing(l, text) ==
  /\ text # listed[l] /\ listed' = [listed EXCEPT ![l] = text]
  /\ UNCHANGED <<phase1, grant, run, failures, catalog, fetched>>

\* The confirmation form is a coroutine too: no run is under way.
Activate ==
  /\ run.step = "idle" /\ ~grant.active /\ grant.generation < MaxGrant
  /\ grant' = [generation |-> grant.generation + 1, active |-> TRUE, inputs |-> phase1]
  /\ UNCHANGED <<phase1, listed, run, failures, catalog, fetched>>

\* validate_current, called by any page or by the run itself, suspends a grant
\* whose inputs have changed.
Suspend ==
  /\ grant.active /\ grant.inputs # phase1
  /\ grant' = [grant EXCEPT !.active = FALSE]
  /\ UNCHANGED <<phase1, listed, run, failures, catalog, fetched>>

\* revalidate_before(DISCOVERY) returns.
Live == grant.active /\ grant.inputs = phase1

\* The tests between two steps of a run.  The fourth, of the catalog's restore
\* generation, always passes: no catalog is restored here.
StillHolds == Live /\ grant.generation = run.generation /\ phase1 = run.inputs

-----------------------------------------------------------------------------
(* _run *)

Keep == UNCHANGED <<phase1, grant, listed, failures, catalog, fetched>>

Start ==
  /\ run.step = "idle" /\ Live /\ Len(runs) < MaxRun
  /\ run' = [Idle EXCEPT !.step = "capture", !.generation = grant.generation]
  /\ Keep

CaptureInputs ==
  /\ run.step = "capture"
  /\ run' = [run EXCEPT !.step = "check", !.inputs = phase1]
  /\ Keep

\* Mutant: one check, before the first provider.
CheckOnce ==
  /\ run.step = "check" /\ (run.next > 1 \/ StillHolds)
  /\ run' = [run EXCEPT !.step = "ask"]
  /\ Keep

Check ==
  /\ run.step = "check" /\ StillHolds
  /\ run' = [run EXCEPT !.step = "ask"]
  /\ Keep

Asked == Plan[run.next]

\* Mutant: the loop does not see its end.
AdvancePastEnd(told, failed, late) ==
  run' = [run EXCEPT !.step = "check",
                     !.next = @ + 1, !.told = told, !.failed = failed, !.late = late]

\* The run goes on with the next provider, or to the transaction after the last.
Advance(told, failed, late) ==
  run' = [run EXCEPT !.step = IF run.next = Len(Plan) THEN "enter" ELSE "check",
                     !.next = @ + 1, !.told = told, !.failed = failed, !.late = late]

Drifted == ~grant.active \/ phase1 # run.inputs

\* fetch: what the provider lists now.
Fetched == [l \in Listing |-> IF From[l] = Asked THEN listed[l] ELSE run.told[l]]

\* A provider answers with its listings, or raises ProviderResponseError.
Ask ==
  /\ run.step = "ask"
  /\ LET late == run.late + IF Drifted THEN 1 ELSE 0
     IN \/ Advance(Fetched, run.failed, late)
        \/ Advance(run.told, run.failed \cup {Asked}, late)
  /\ Keep

\* A provider without a credential is not asked.
Skip ==
  /\ run.step = "ask" /\ Advance(run.told, run.failed \cup {Asked}, run.late)
  /\ Keep

\* Mutant: the transaction trusts the last check.
EnterUnchecked ==
  /\ run.step = "enter" /\ run' = [run EXCEPT !.step = "merge"]
  /\ Keep

EnterTransaction ==
  /\ run.step = "enter" /\ StillHolds
  /\ run' = [run EXCEPT !.step = "merge"]
  /\ Keep

\* A check fails, a provider raises something else, or the database does.
Abort ==
  /\ run.step # "idle" /\ run' = Idle
  /\ Keep

-----------------------------------------------------------------------------
(* persist *)

Known(l, text) == \E o \in observations : o.listing = l /\ o.text = text

Told == {l \in Listing : run.told[l] # Nothing}

\* _persist_listing: a text of the listing that is on record changes nothing;
\* a new one is observed, and a revision of the job unless it has it already.
New == {l \in Told : ~Known(l, run.told[l])}

\* Mutant: a job that is on record is not revised.
RevisedOnce(l) ==
  IF l \in New /\ revisions[l] = <<>> THEN Append(revisions[l], run.told[l]) ELSE revisions[l]

Revised(l) ==
  IF l \in New /\ run.told[l] \notin ToSet(revisions[l])
  THEN Append(revisions[l], run.told[l]) ELSE revisions[l]

Merge ==
  /\ run.step = "merge"
  /\ runs' = Append(runs, [inputs |-> run.inputs, generation |-> run.generation,
                           late |-> run.late])
  /\ observations' = observations \cup
       {[listing |-> l, text |-> run.told[l], run |-> Len(runs) + 1] : l \in New}
  /\ revisions' = [l \in Listing |-> Revised(l)]
  /\ failures' = run.failed /\ run' = Idle
  /\ fetched' = [l \in Listing |-> IF l \in Told THEN Append(fetched[l], run.told[l])
                                   ELSE fetched[l]]
  /\ UNCHANGED <<phase1, grant, listed>>

Crash ==
  /\ run' = Idle /\ failures' = {}
  /\ UNCHANGED <<phase1, grant, listed, catalog, fetched>>

Next ==
  \/ ChangePhase1 \/ Activate \/ Suspend
  \/ \E l \in Listing, text \in Text \cup {Nothing} : ChangeListing(l, text)
  \/ Start \/ CaptureInputs \/ Check \/ Ask \/ Skip
  \/ EnterTransaction \/ Merge \/ Abort \/ Crash

Spec == Init /\ [][Next]_vars

-----------------------------------------------------------------------------
(* Properties *)

\* When facts, profile or grant move under a run, at most the provider whose
\* check had already passed is asked, and what it says is never merged.
DriftIsContained ==
  /\ run.late <= 1
  /\ \A i \in DOMAIN runs : runs[i].late = 0

\* Whatever a merged run was told is on record as an observation of its listing
\* and as a revision of its job, once, and nothing else is, whichever runs
\* failed, died or were told the same before.
CatalogueMatchesWhatWasSeen ==
  /\ {<<o.listing, o.text>> : o \in observations}
       = UNION {{<<l, text>> : text \in ToSet(fetched[l])} : l \in Listing}
  /\ \A o, p \in observations : o.listing = p.listing /\ o.text = p.text => o = p
  /\ \A o \in observations : o.run \in DOMAIN runs
  /\ \A l \in Listing :
       /\ IsInjective(revisions[l])
       /\ ToSet(revisions[l]) = ToSet(fetched[l])

\* The newest revision of a job is the text its listing had when it was last
\* seen: "Changed or closed listings create new observations/revisions".
LatestSeenIsCurrent ==
  \A l \in Listing :
    fetched[l] # <<>> => Last(revisions[l]) = Last(fetched[l])
=============================================================================

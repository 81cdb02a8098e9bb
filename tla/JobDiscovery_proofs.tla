------------------------- MODULE JobDiscovery_proofs -------------------------
(***************************************************************************)
(* Proofs about JobDiscovery, for any providers, listings, texts and       *)
(* bounds.  That drift is contained follows from DriftInv: once the        *)
(* authority of a run has moved it cannot come back while the run lasts,   *)
(* since a grant is made only when no run is under way, so the next check  *)
(* fails.                                                                  *)
(***************************************************************************)
EXTENDS JobDiscovery, TLAPS

LEMMA PlanIsNotEmpty ==
  Len(Plan) \in Nat /\ Len(Plan) >= 1 /\ \A i \in 1 .. Len(Plan) : Plan[i] \in Provider
<1>1. Plan \in Seq(Provider) /\ Plan # <<>>
  BY DiscoveryAssumption
<1> QED
  BY <1>1

LEMMA IdleType ==
  /\ Idle \in RunState /\ Idle.next <= Len(Plan)
  /\ Idle.step = "idle" /\ Idle.late = 0 /\ Idle.inputs = 0
BY PlanIsNotEmpty DEF Idle, Step, RunState

LEMMA TypeInit == Init => TypeOK
<1> SUFFICES ASSUME Init PROVE TypeOK
  OBVIOUS
<1>1. /\ runs \in Seq(RunRow) /\ revisions \in [Listing -> Seq(Text)]
      /\ fetched \in [Listing -> Seq(Text)] /\ observations \subseteq Observation
  BY DEF Init
<1> QED
  BY <1>1, IdleType DEF Init, TypeOK, Grant

\* The provider that was asked has answered or failed.
LEMMA AdvanceType ==
  ASSUME TypeOK, run.step = "ask",
         NEW told \in [Listing -> Text \cup {Nothing}], NEW failed \in SUBSET Provider,
         NEW late \in Nat, Advance(told, failed, late)
  PROVE  /\ run' \in RunState /\ run'.step \in {"check", "enter"} /\ run'.late = late
         /\ run'.step = "enter" \/ run'.next <= Len(Plan)
         /\ run'.inputs = run.inputs /\ run'.generation = run.generation
<1>1. /\ run \in RunState /\ run.next \in Nat /\ run.next <= Len(Plan)
      /\ run.next + 1 \in 1 .. Len(Plan) + 1
  BY PlanIsNotEmpty DEF TypeOK, RunState
<1>2. run' = [step |-> IF run.next = Len(Plan) THEN "enter" ELSE "check",
              generation |-> run.generation, inputs |-> run.inputs, next |-> run.next + 1,
              told |-> told, failed |-> failed, late |-> late]
  BY <1>1 DEF Advance, RunState
<1>3. run.generation \in Nat /\ run.inputs \in Nat
  BY <1>1 DEF RunState
<1>4. run'.step \in {"check", "enter"} /\ (run'.step = "enter" \/ run'.next <= Len(Plan))
  BY <1>1, <1>2, PlanIsNotEmpty
<1>5. run' \in RunState
  BY <1>1, <1>2, <1>3 DEF RunState, Step
<1> QED
  BY <1>2, <1>4, <1>5

LEMMA AskType ==
  ASSUME TypeOK, Ask \/ Skip
  PROVE  /\ run' \in RunState /\ run'.step \in {"check", "enter"}
         /\ run'.step = "enter" \/ run'.next <= Len(Plan)
         /\ run'.late = run.late \/ (run'.late = run.late + 1 /\ Drifted)
         /\ run'.inputs = run.inputs /\ run'.generation = run.generation
<1>1. /\ run.told \in [Listing -> Text \cup {Nothing}] /\ run.failed \in SUBSET Provider
      /\ run.late \in Nat /\ run.step = "ask"
  BY DEF TypeOK, RunState, Ask, Skip
<1>2. Asked \in Provider
  BY <1>1, PlanIsNotEmpty DEF TypeOK, RunState, Asked
<1>3. Fetched \in [Listing -> Text \cup {Nothing}]
  BY <1>1 DEF Fetched, TypeOK
<1> QED
  BY <1>1, <1>2, <1>3, AdvanceType DEF Ask, Skip

LEMMA TypeStep == TypeOK /\ [Next]_vars => TypeOK'
<1> SUFFICES ASSUME TypeOK, [Next]_vars PROVE TypeOK'
  OBVIOUS
<1>1. ASSUME Keep, run' \in RunState, 
             run'.step \in {"enter", "merge"} \/ run'.next <= Len(Plan)
      PROVE  TypeOK'
  BY <1>1 DEF Keep, TypeOK, catalog
<1>2. CASE ChangePhase1 \/ Activate \/ Suspend
  <2>1. grant \in Grant /\ phase1 \in Nat
    BY DEF TypeOK
  <2>2. phase1' \in Nat
    BY <1>2, <2>1 DEF ChangePhase1, Activate, Suspend
  <2>3. grant' \in Grant
    <3>1. CASE ChangePhase1
      BY <2>1, <3>1 DEF ChangePhase1
    <3>2. CASE Activate
      BY <2>1, <3>2 DEF Activate, Grant
    <3>3. CASE Suspend
      BY <2>1, <3>3 DEF Suspend, Grant
    <3> QED
      BY <1>2, <3>1, <3>2, <3>3
  <2>4. UNCHANGED <<listed, run, failures, catalog, fetched>>
    BY <1>2 DEF ChangePhase1, Activate, Suspend
  <2> QED
    BY <2>2, <2>3, <2>4 DEF TypeOK, catalog
<1>3. ASSUME NEW l \in Listing, NEW text \in Text \cup {Nothing}, ChangeListing(l, text)
      PROVE  TypeOK'
  BY <1>3 DEF ChangeListing, TypeOK, catalog
<1>4. CASE Start
  <2>1. grant.generation \in Nat
    BY DEF TypeOK, Grant
  <2>2. run' \in RunState /\ run'.next = Idle.next
    BY <1>4, <2>1, IdleType DEF Start, RunState, Step
  <2> QED
    BY <1>1, <1>4, <2>2, IdleType DEF Start
<1>5. CASE CaptureInputs
  BY <1>1, <1>5 DEF CaptureInputs, TypeOK, RunState, Step
<1>6. CASE Check
  BY <1>1, <1>6 DEF Check, TypeOK, RunState, Step
<1>7. CASE Ask \/ Skip
  BY <1>1, <1>7, AskType DEF Ask, Skip
<1>8. CASE EnterTransaction
  BY <1>1, <1>8 DEF EnterTransaction, TypeOK, RunState, Step
<1>9. CASE Abort
  BY <1>1, <1>9, IdleType DEF Abort
<1>10. CASE Merge
  <2>1. \A l \in Told : run.told[l] \in Text
    BY DEF Told, TypeOK, RunState
  <2>2. [inputs |-> run.inputs, generation |-> run.generation, late |-> run.late] \in RunRow
        /\ run.failed \subseteq Provider
    BY DEF TypeOK, RunState, RunRow
  <2>3. runs \in Seq(RunRow) /\ runs' \in Seq(RunRow) /\ Len(runs) + 1 \in Nat
    BY <1>10, <2>2 DEF Merge, TypeOK
  <2>4. \A l \in New : [listing |-> l, text |-> run.told[l], run |-> Len(runs) + 1]
                         \in Observation
    BY <2>1, <2>3 DEF New, Told, Observation
  <2>5. observations' \subseteq Observation
    BY <1>10, <2>4 DEF Merge, TypeOK
  <2>6. ASSUME NEW l \in Listing
        PROVE  /\ Revised(l) \in Seq(Text)
               /\ l \in Told => Append(fetched[l], run.told[l]) \in Seq(Text)
    BY <2>1 DEF Revised, New, TypeOK
  <2>7. revisions' \in [Listing -> Seq(Text)] /\ fetched' \in [Listing -> Seq(Text)]
    BY <1>10, <2>6 DEF Merge, TypeOK
  <2> QED
    BY <1>10, <2>2, <2>3, <2>5, <2>7, IdleType DEF Merge, TypeOK
<1>11. CASE Crash
  BY <1>11, IdleType DEF Crash, TypeOK, catalog
<1>12. CASE UNCHANGED vars
  BY <1>12 DEF vars, catalog, TypeOK
<1> QED
  BY <1>2, <1>3, <1>4, <1>5, <1>6, <1>7, <1>8, <1>9, <1>10, <1>11, <1>12 DEF Next

\* Every variable of the discovery keeps its type.
THEOREM DiscoveryTypeCorrect == Spec => []TypeOK
BY TypeInit, TypeStep, PTL DEF Spec

-----------------------------------------------------------------------------
(* Drift *)

DriftInv ==
  /\ grant.inputs <= phase1 /\ run.inputs <= phase1
  /\ run.late # 0 => run.step \in {"check", "enter"} /\ Drifted

LEMMA DriftStep ==
  ASSUME TypeOK, DriftInv, DriftIsContained, [Next]_vars
  PROVE  DriftInv' /\ DriftIsContained'
<1>1. /\ phase1 \in Nat /\ run.inputs \in Nat /\ run.late \in Nat /\ grant.inputs \in Nat
      /\ run.generation \in Nat /\ grant.active \in BOOLEAN
  BY DEF TypeOK, RunState, Grant
<1>2. ASSUME UNCHANGED <<phase1, grant, runs>>, run'.late = 0, run'.inputs <= phase1
      PROVE  DriftInv' /\ DriftIsContained'
  BY <1>1, <1>2 DEF DriftInv, DriftIsContained
<1>3. CASE ChangePhase1
  BY <1>1, <1>3 DEF ChangePhase1, DriftInv, DriftIsContained, Drifted, catalog
<1>4. CASE Activate
  <2>1. run.late = 0
    BY <1>4 DEF Activate, DriftInv
  <2> QED
    BY <1>1, <1>4, <2>1 DEF Activate, DriftInv, DriftIsContained, catalog
<1>5. CASE Suspend
  <2>1. grant'.inputs = grant.inputs /\ ~grant'.active
    BY <1>1, <1>5 DEF Suspend, TypeOK, Grant
  <2> QED
    BY <1>1, <1>5, <2>1 DEF Suspend, DriftInv, DriftIsContained, Drifted, catalog
<1>6. CASE UNCHANGED <<phase1, grant, run, runs>>
  BY <1>6 DEF DriftInv, DriftIsContained, Drifted
<1>7. CASE Start
  <2>1. run'.late = 0 /\ run'.inputs = 0
    BY <1>7, IdleType DEF Start, Idle
  <2> QED
    BY <1>1, <1>2, <1>7, <2>1 DEF Start, Keep, catalog
<1>8. CASE CaptureInputs
  <2>1. run.late = 0
    BY <1>8 DEF CaptureInputs, DriftInv
  <2>2. run'.late = 0 /\ run'.inputs = phase1
    BY <1>8, <2>1 DEF CaptureInputs, TypeOK, RunState
  <2> QED
    BY <1>1, <1>2, <1>8, <2>2 DEF CaptureInputs, Keep, catalog
<1>9. CASE Check \/ EnterTransaction
  <2>1. ~Drifted
    BY <1>9 DEF Check, EnterTransaction, StillHolds, Live, Drifted
  <2>2. run'.late = 0 /\ run'.inputs = run.inputs
    BY <1>9, <2>1 DEF Check, EnterTransaction, DriftInv, TypeOK, RunState
  <2> QED
    BY <1>2, <1>9, <2>2 DEF Check, EnterTransaction, Keep, catalog, DriftInv
<1>10. CASE Ask \/ Skip
  <2>1. run.late = 0 /\ UNCHANGED <<phase1, grant, runs>>
    BY <1>10 DEF Ask, Skip, Keep, catalog, DriftInv
  <2>2. /\ run'.late = 0 \/ (run'.late = 1 /\ Drifted)
        /\ run'.inputs = run.inputs /\ run'.step \in {"check", "enter"}
    BY <1>10, <2>1, AskType
  <2>3. Drifted' <=> Drifted
    BY <2>1, <2>2 DEF Drifted
  <2> QED
    BY <2>1, <2>2, <2>3 DEF DriftInv, DriftIsContained
<1>11. CASE Abort
  BY <1>1, <1>2, <1>11, IdleType DEF Abort, Keep, catalog
<1>12. CASE Crash
  BY <1>1, <1>2, <1>12, IdleType DEF Crash, catalog
<1>13. CASE Merge
  <2>1. run.late = 0 /\ runs \in Seq(RunRow)
    BY <1>13 DEF Merge, DriftInv, TypeOK
  <2>2. runs' = Append(runs, [inputs |-> run.inputs, generation |-> run.generation, late |-> 0])
    BY <1>13, <2>1 DEF Merge
  <2>3. \A i \in DOMAIN runs' : runs'[i].late = 0
    BY <2>1, <2>2 DEF DriftIsContained
  <2> QED
    BY <1>1, <1>13, <2>3, IdleType DEF Merge, DriftInv, DriftIsContained
<1>14. ASSUME NEW l \in Listing, NEW text \in Text \cup {Nothing}, ChangeListing(l, text)
       PROVE  UNCHANGED <<phase1, grant, run, runs>>
  BY <1>14 DEF ChangeListing, catalog
<1>15. CASE UNCHANGED vars
  BY <1>6, <1>15 DEF vars, catalog
<1> QED
  BY <1>3, <1>4, <1>5, <1>6, <1>7, <1>8, <1>9, <1>10, <1>11, <1>12, <1>13, <1>14, <1>15
     DEF Next

\* However Phase I and the grant change while a run asks its providers, at most
\* one of them is asked too late, and nothing of such a run is merged
\* (discovery.py, _run).
THEOREM DriftStaysContained == Spec => []DriftIsContained
<1>1. Init => DriftInv /\ DriftIsContained
  BY IdleType DEF Init, DriftInv, DriftIsContained
<1> QED
  BY <1>1, TypeInit, TypeStep, DriftStep, PTL DEF Spec

-----------------------------------------------------------------------------
(* The catalogue *)

LEMMA ToSetAppend ==
  ASSUME NEW S, NEW s \in Seq(S), NEW e \in S
  PROVE  ToSet(Append(s, e)) = ToSet(s) \cup {e}
<1>1. /\ Append(s, e) \in Seq(S) /\ Len(s) \in Nat /\ Len(Append(s, e)) = Len(s) + 1
      /\ Append(s, e)[Len(s) + 1] = e
      /\ \A i \in 1 .. Len(s) : Append(s, e)[i] = s[i]
  OBVIOUS
<1>2. ToSet(s) = {s[i] : i \in 1 .. Len(s)}
      /\ ToSet(Append(s, e)) = {Append(s, e)[i] : i \in 1 .. Len(s) + 1}
  BY <1>1 DEF ToSet
<1> QED
  BY <1>1, <1>2

LEMMA InjectiveAppend ==
  ASSUME NEW S, NEW s \in Seq(S), NEW e \in S, IsInjective(s), e \notin ToSet(s)
  PROVE  IsInjective(Append(s, e))
<1>1. /\ Append(s, e) \in Seq(S) /\ Len(s) \in Nat /\ Len(Append(s, e)) = Len(s) + 1
      /\ Append(s, e)[Len(s) + 1] = e
      /\ \A i \in 1 .. Len(s) : Append(s, e)[i] = s[i]
  OBVIOUS
<1>2. \A i \in 1 .. Len(s) : s[i] # e
  BY <1>1 DEF ToSet
<1>3. \A i, j \in 1 .. Len(s) : s[i] = s[j] => i = j
  BY <1>1 DEF IsInjective
<1> QED
  BY <1>1, <1>2, <1>3 DEF IsInjective

\* What the set equality of the invariant says of each text.
LEMMA SeenIsKnown ==
  ASSUME NEW seen, NEW told, \A o \in seen : o.listing \in Listing
  PROVE  {<<o.listing, o.text>> : o \in seen}
           = UNION {{<<l, text>> : text \in ToSet(told[l])} : l \in Listing}
         <=> /\ \A o \in seen : o.text \in ToSet(told[o.listing])
             /\ \A l \in Listing : \A text \in ToSet(told[l]) :
                  \E o \in seen : o.listing = l /\ o.text = text
<1> DEFINE Has(l, text) == \E o \in seen : o.listing = l /\ o.text = text
           Seen == {<<o.listing, o.text>> : o \in seen}
           Was  == UNION {{<<l, text>> : text \in ToSet(told[l])} : l \in Listing}
<1>1. Seen \subseteq Was <=> \A o \in seen : o.text \in ToSet(told[o.listing])
  <2>1. ASSUME Seen \subseteq Was, NEW o \in seen
        PROVE  o.text \in ToSet(told[o.listing])
    <3>1. <<o.listing, o.text>> \in Was
      BY <2>1
    <3>2. PICK l \in Listing : <<o.listing, o.text>> \in {<<l, text>> : text \in ToSet(told[l])}
      BY <3>1
    <3> QED
      BY <3>2
  <2>2. ASSUME \A o \in seen : o.text \in ToSet(told[o.listing]), NEW x \in Seen
        PROVE  x \in Was
    <3>1. PICK o \in seen : x = <<o.listing, o.text>>
      OBVIOUS
    <3> QED
      BY <2>2, <3>1
  <2> QED
    BY <2>1, <2>2
<1>2. Was \subseteq Seen <=> \A l \in Listing : \A text \in ToSet(told[l]) : Has(l, text)
  <2>1. ASSUME Was \subseteq Seen, NEW l \in Listing, NEW text \in ToSet(told[l])
        PROVE  Has(l, text)
    <3>1. <<l, text>> \in Was
      OBVIOUS
    <3>2. PICK o \in seen : <<l, text>> = <<o.listing, o.text>>
      BY <2>1, <3>1
    <3> QED
      BY <3>2
  <2>2. ASSUME \A l \in Listing : \A text \in ToSet(told[l]) : Has(l, text), NEW x \in Was
        PROVE  x \in Seen
    <3>1. PICK l \in Listing : x \in {<<l, text>> : text \in ToSet(told[l])}
      OBVIOUS
    <3>2. PICK text \in ToSet(told[l]) : x = <<l, text>>
      BY <3>1
    <3>3. PICK o \in seen : o.listing = l /\ o.text = text
      BY <2>2
    <3> QED
      BY <3>2, <3>3
  <2> QED
    BY <2>1, <2>2
<1> QED
  BY <1>1, <1>2

LEMMA MergeKeepsCatalogue ==
  ASSUME TypeOK, CatalogueMatchesWhatWasSeen, Merge, TypeOK'
  PROVE  CatalogueMatchesWhatWasSeen'
<1> DEFINE Row(l) == [listing |-> l, text |-> run.told[l], run |-> Len(runs) + 1]
<1>1. /\ observations' = observations \cup {Row(l) : l \in New}
      /\ revisions' = [l \in Listing |-> Revised(l)]
      /\ \A l \in Listing :
           fetched'[l] = IF l \in Told THEN Append(fetched[l], run.told[l]) ELSE fetched[l]
  BY DEF Merge
<1>2. \A o \in observations \cup observations' : o.listing \in Listing
  BY DEF TypeOK, Observation
<1>3. /\ \A o \in observations : o.text \in ToSet(fetched[o.listing])
      /\ \A l \in Listing : \A text \in ToSet(fetched[l]) : Known(l, text)
  BY <1>2, SeenIsKnown DEF CatalogueMatchesWhatWasSeen, Known
<1>4. /\ \A l \in Told : l \in Listing /\ run.told[l] \in Text
      /\ \A l \in Listing : fetched[l] \in Seq(Text) /\ revisions[l] \in Seq(Text)
      /\ New \subseteq Told
  BY DEF Told, New, TypeOK, RunState
<1>5. /\ \A l \in Told : ToSet(fetched'[l]) = ToSet(fetched[l]) \cup {run.told[l]}
      /\ \A l \in Listing \ Told : ToSet(fetched'[l]) = ToSet(fetched[l])
  BY <1>1, <1>4, ToSetAppend
<1>6. \A l \in Told \ New : run.told[l] \in ToSet(fetched[l])
  BY <1>3 DEF New, Known
<1>7. \A o \in observations' : o.text \in ToSet(fetched'[o.listing])
  <2>1. ASSUME NEW o \in observations PROVE o.text \in ToSet(fetched'[o.listing])
    BY <1>3, <1>5, <1>2
  <2>2. ASSUME NEW l \in New PROVE Row(l).text \in ToSet(fetched'[Row(l).listing])
    BY <1>4, <1>5
  <2> QED
    BY <1>1, <2>1, <2>2
<1>8. ASSUME NEW l \in Listing, NEW text \in ToSet(fetched'[l])
      PROVE  Known(l, text)'
  <2>1. CASE text \in ToSet(fetched[l])
    BY <1>1, <1>3, <2>1 DEF Known
  <2>2. CASE l \in New /\ text = run.told[l]
    <3>1. Row(l) \in observations' /\ Row(l).listing = l /\ Row(l).text = text
      BY <1>1, <2>2
    <3> QED
      BY <3>1 DEF Known
  <2> QED
    BY <1>5, <1>6, <2>1, <2>2
<1>9. \A o, p \in observations' : o.listing = p.listing /\ o.text = p.text => o = p
  <2>1. \A o, p \in observations : o.listing = p.listing /\ o.text = p.text => o = p
    BY DEF CatalogueMatchesWhatWasSeen
  <2>2. \A l \in New : \A o \in observations : o.listing # l \/ o.text # run.told[l]
    BY DEF New, Known
  <2> QED
    BY <1>1, <2>1, <2>2
<1>10. \A o \in observations' : o.run \in DOMAIN runs'
  <2>1. runs \in Seq(RunRow) /\ runs' \in Seq(RunRow) /\ Len(runs') = Len(runs) + 1
    BY DEF Merge, TypeOK
  <2>2. \A o \in observations : o.run \in 1 .. Len(runs)
    BY <2>1 DEF CatalogueMatchesWhatWasSeen
  <2> QED
    BY <1>1, <2>1, <2>2
<1>11. ASSUME NEW l \in Listing
       PROVE  IsInjective(revisions'[l]) /\ ToSet(revisions'[l]) = ToSet(fetched'[l])
  <2>1. IsInjective(revisions[l]) /\ ToSet(revisions[l]) = ToSet(fetched[l])
    BY DEF CatalogueMatchesWhatWasSeen
  <2>2. CASE l \in New /\ run.told[l] \notin ToSet(revisions[l])
    <3>1. revisions'[l] = Append(revisions[l], run.told[l])
      BY <1>1, <2>2 DEF Revised
    <3>2. l \in Told /\ revisions[l] \in Seq(Text) /\ run.told[l] \in Text
      BY <1>4, <2>2
    <3>3. IsInjective(Append(revisions[l], run.told[l]))
      BY <2>1, <2>2, <3>2, InjectiveAppend
    <3>4. ToSet(Append(revisions[l], run.told[l])) = ToSet(revisions[l]) \cup {run.told[l]}
      BY <3>2, ToSetAppend
    <3> QED
      BY <1>5, <2>1, <2>2, <3>1, <3>2, <3>3, <3>4
  <2>3. CASE ~(l \in New /\ run.told[l] \notin ToSet(revisions[l]))
    <3>1. revisions'[l] = revisions[l]
      BY <1>1, <2>3 DEF Revised
    <3>2. l \in Told => run.told[l] \in ToSet(fetched[l])
      BY <1>6, <2>1, <2>3
    <3>3. ToSet(fetched'[l]) = ToSet(fetched[l])
      BY <1>5, <3>2
    <3> QED
      BY <2>1, <3>1, <3>3
  <2> QED
    BY <2>2, <2>3
<1>12. {<<o.listing, o.text>> : o \in observations'}
         = UNION {{<<l, text>> : text \in ToSet(fetched'[l])} : l \in Listing}
  BY <1>2, <1>7, <1>8, SeenIsKnown DEF Known
<1> QED
  BY <1>9, <1>10, <1>11, <1>12 DEF CatalogueMatchesWhatWasSeen

\* The catalog holds exactly what merged runs were told: each text of a listing
\* as one observation and one revision, whatever failed or was told again
\* (discovery.py, persist and _persist_listing).
THEOREM CatalogueStaysTrue == Spec => []CatalogueMatchesWhatWasSeen
<1>1. Init => CatalogueMatchesWhatWasSeen
  BY DEF Init, CatalogueMatchesWhatWasSeen, ToSet, IsInjective
<1>2. TypeOK /\ CatalogueMatchesWhatWasSeen /\ [Next]_vars => CatalogueMatchesWhatWasSeen'
  <2> SUFFICES ASSUME TypeOK, CatalogueMatchesWhatWasSeen, [Next]_vars
               PROVE  CatalogueMatchesWhatWasSeen'
    OBVIOUS
  <2>1. Merge \/ UNCHANGED <<catalog, fetched>>
    BY DEF Next, vars, ChangePhase1, Activate, Suspend, ChangeListing, Start, CaptureInputs,
           Check, Ask, Skip, EnterTransaction, Abort, Crash, Keep
  <2>2. CASE UNCHANGED <<catalog, fetched>>
    BY <2>2 DEF CatalogueMatchesWhatWasSeen, catalog
  <2> QED
    BY <2>1, <2>2, TypeStep, MergeKeepsCatalogue
<1> QED
  BY <1>1, <1>2, TypeInit, TypeStep, PTL DEF Spec
=============================================================================

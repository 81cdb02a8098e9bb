---------------------- MODULE ResumeFinalisation_proofs ----------------------
(***************************************************************************)
(* Proofs about ResumeFinalisation, for any jobs and bounds: every         *)
(* invariant that its run checks holds of the specification.               *)
(*                                                                         *)
(* They rest on three facts.  Identifiers are given out in order, so no    *)
(* two authorizations share one (IdsInv).  What is no longer current never *)
(* becomes current again (StaysStale).  And a review under way has no      *)
(* artifact yet, in the catalog or in a copy of it that could be restored  *)
(* (PipelineInv), so that what it publishes or takes back is its own.      *)
(***************************************************************************)
EXTENDS ResumeFinalisation, TLAPS

USE DEF history, InsertArtifact

Issued == attempts \cup {verification[j] : j \in Job}

IdsInv ==
  /\ \A v \in Issued :
       /\ v.id <= lastId /\ v.assessment <= lastId
       /\ v.authority <= authority /\ v.listing <= listing[v.job]
  /\ \A v \in attempts : v.id # 0
  /\ \A v, w \in Issued : v.id = w.id /\ v.id # 0 => v = w
  /\ \A j \in Job : assessment[j].id <= lastId

\* The file of a kind that the review under way has put in place.
Whole(kind) ==
  [name |-> name, kind |-> kind, attempt |-> attempt.id, whole |-> TRUE]

PipelineInv ==
  /\ pc = "idle" => published = {}
  /\ pc # "idle" =>
       /\ \A a \in artifacts \cup copy :
            a.attempt # attempt \/ (pc = "undo" /\ a.attempt.id \in torn)
       /\ \A f \in published : f.attempt = attempt.id /\ f.name = name
  /\ pc \in {"pdf", "settle", "record"} => Whole("docx") \in files
  /\ pc \in {"settle", "record"} => Whole("pdf") \in files
  /\ \A a \in artifacts \cup copy : a.attempt \in attempts
  /\ \A a \in copy : a \in artifacts \/ ~Current(a.attempt)

StaleInv ==
  /\ \A i \in stale : \E v \in attempts : v.id = i
  /\ \A v \in attempts : v.id \in stale => ~Current(v)
  /\ pc = "record" => attempt.id \notin stale
  /\ \A a \in artifacts \cup copy : a.attempt.id \notin stale

-----------------------------------------------------------------------------
(* Types *)

LEMMA TypeInit == Init => TypeOK
BY NoReviewAssumption, FinalisationAssumption
   DEF Init, TypeOK, Name, Assessment, Verification

LEMMA TypeStep == TypeOK /\ [Next]_vars => TypeOK'
<1> SUFFICES ASSUME TypeOK, [Next]_vars PROVE TypeOK'
  OBVIOUS
<1> USE DEF TypeOK
<1>1. CASE ChangeAuthority
  BY <1>1 DEF ChangeAuthority, handler
<1>2. CASE RestoreCatalog
  <2>1. ASSUME NEW a \in artifacts PROVE a.attempt.id \in Nat
    <3>1. a.attempt \in Verification
      BY DEF Artifact
    <3> QED
      BY <3>1 DEF Verification
  <2>2. lost' \subseteq Nat
    <3>1. lost \subseteq Nat
      OBVIOUS
    <3> HIDE DEF TypeOK
    <3> QED
      BY <1>2, <2>1, <3>1 DEF RestoreCatalog
  <2>3. copy' \subseteq Artifact /\ artifacts' \subseteq Artifact
    BY <1>2 DEF RestoreCatalog
  <2>4. /\ authority' \in Nat
        /\ UNCHANGED <<expired, listing, assessment, verification, lastId,
                       attempts, files, handler, stale, torn>>
    BY <1>2 DEF RestoreCatalog
  <2> QED
    BY <2>2, <2>3, <2>4 DEF handler
<1>3. CASE Crash
  BY <1>3, FinalisationAssumption DEF Crash, Leave, world, Name, Verification
<1>4. ASSUME NEW id \in 1 .. lastId, Expire(id) PROVE TypeOK'
  BY <1>4 DEF Expire, handler
<1>5. ASSUME NEW j \in Job, Discover(j) PROVE TypeOK'
  BY <1>5 DEF Discover, handler
<1>6. ASSUME NEW j \in Job, Assess(j) PROVE TypeOK'
  BY <1>6 DEF Assess, NewId, handler, Assessment
<1>7. ASSUME NEW j \in Job, Verify(j) PROVE TypeOK'
  BY <1>7 DEF Verify, NewId, handler, Verification, Assessment
<1>8. ASSUME NEW j \in Job, StartReview(j) PROVE TypeOK'
  BY <1>8 DEF StartReview, RecordAttempt, handler, world
<1>9. ASSUME NEW v \in attempts, Finalise(v) PROVE TypeOK'
  BY <1>9, NoReviewAssumption DEF Finalise, FilenameStem, Name, Verification, world
<1>10. CASE Render
  BY <1>10 DEF Render, Goto, world
<1>11. CASE CopyFile
  <2>1. pc \in Kind /\ attempt \in Verification /\ attempt.id \in Nat
    BY <1>11 DEF CopyFile, Kind, Verification
  <2>2. NewFile(TRUE) \in File /\ NewFile(FALSE) \in File
    BY <2>1 DEF NewFile, File
  <2>3. UNCHANGED <<world, attempts, attempt, name, artifacts, copy, lost, torn>>
    BY <1>11 DEF CopyFile, Goto
  <2>4. pc' \in {"pdf", "settle", "undo"}
    BY <1>11 DEF CopyFile, Goto
  <2>5. files' \subseteq File /\ published' \subseteq files'
    <3>1. published \subseteq files /\ files \subseteq File
      OBVIOUS
    <3> HIDE DEF TypeOK
    <3> QED
      BY <1>11, <2>2, <3>1 DEF CopyFile
  <2>6. stale' \subseteq Nat
    BY <1>11, <2>1 DEF CopyFile
  <2> QED
    BY <2>1, <2>3, <2>4, <2>5, <2>6 DEF world, Kind
<1>12. CASE Settle
  BY <1>12 DEF Settle, Goto, world
<1>13. CASE RecordArtifact
  <2>1. [attempt |-> attempt, name |-> name] \in Artifact
    BY <1>13 DEF RecordArtifact, Artifact
  <2>2. artifacts' \subseteq Artifact /\ copy' \subseteq Artifact
    BY <1>13, <2>1 DEF RecordArtifact
  <2>3. torn' \subseteq Nat
    <3>1. attempt.id \in Nat
      BY <1>13 DEF RecordArtifact, Verification
    <3> QED
      BY <1>13, <3>1 DEF RecordArtifact
  <2> QED
    BY <1>13, <2>2, <2>3, FinalisationAssumption DEF RecordArtifact, Goto, Leave, world, Name
<1>14. CASE UnlinkPublished
  BY <1>14, FinalisationAssumption DEF UnlinkPublished, Goto, Leave, world, Name
<1>15. CASE UNCHANGED vars
  BY <1>15 DEF vars, world, handler
<1> QED
  BY <1>1, <1>2, <1>3, <1>4, <1>5, <1>6, <1>7, <1>8, <1>9, <1>10, <1>11, <1>12,
     <1>13, <1>14, <1>15 DEF Next

-----------------------------------------------------------------------------
(* Identifiers *)

\* The steps of a finalisation leave the world as it is.
LEMMA Steps ==
  ASSUME [Next]_vars
  PROVE  \/ ChangeAuthority \/ RestoreCatalog
         \/ \E id \in 1 .. lastId : Expire(id)
         \/ \E j \in Job : Discover(j) \/ Assess(j) \/ Verify(j)
         \/ UNCHANGED world
BY DEF Next, vars, StartReview, Finalise, Render, CopyFile, Settle, RecordArtifact,
       UnlinkPublished, Crash, Goto

LEMMA IdsStep ==
  ASSUME TypeOK, IdsInv, [Next]_vars
  PROVE  IdsInv'
<1>1. ASSUME NEW j \in Job, Verify(j) PROVE IdsInv'
  <2> DEFINE fresh == verification'[j]
  <2>1. /\ fresh.id = lastId + 1 /\ lastId' = lastId + 1
        /\ fresh.authority = authority /\ fresh.job = j /\ fresh.listing = listing[j]
        /\ fresh.assessment = assessment[j].id
        /\ UNCHANGED <<authority, listing, assessment, attempts>>
    BY <1>1 DEF Verify, NewId, TypeOK
  <2>2. \A k \in Job : k # j => verification'[k] = verification[k]
    BY <1>1 DEF Verify, TypeOK
  <2>3. \A v \in Issued' : v \in Issued \/ v = fresh
    BY <2>1, <2>2 DEF Issued
  <2>4. \A v \in Issued : v.id \in Nat /\ v.assessment \in Nat
    BY DEF TypeOK, Issued, Verification
  <2>5. assessment[j].id <= lastId /\ assessment[j].id \in Nat /\ lastId \in Nat
        /\ authority \in Nat /\ listing[j] \in Nat
    BY DEF IdsInv, TypeOK, Assessment
  <2> HIDE DEF fresh
  <2>6. \A v \in Issued' :
          /\ v.id <= lastId' /\ v.assessment <= lastId'
          /\ v.authority <= authority' /\ v.listing <= listing'[v.job]
    BY <2>1, <2>3, <2>4, <2>5 DEF IdsInv
  <2>7. \A v, w \in Issued' : v.id = w.id /\ v.id # 0 => v = w
    BY <2>1, <2>3, <2>4, <2>5 DEF IdsInv
  <2>8. \A k \in Job : assessment'[k].id <= lastId'
    BY <2>1, <2>5 DEF IdsInv, TypeOK, Assessment
  <2> QED
    BY <2>1, <2>6, <2>7, <2>8 DEF IdsInv
<1>2. ASSUME NEW j \in Job, Assess(j) PROVE IdsInv'
  <2>1. /\ lastId' = lastId + 1 /\ assessment'[j].id = lastId + 1
        /\ \A k \in Job : k # j => assessment'[k] = assessment[k]
        /\ UNCHANGED <<authority, listing, verification, attempts>>
    BY <1>2 DEF Assess, NewId, TypeOK
  <2>2. lastId \in Nat /\ \A k \in Job : assessment[k].id \in Nat
    BY DEF TypeOK, Assessment
  <2>3. Issued' = Issued /\ \A v \in Issued : v.id \in Nat /\ v.assessment \in Nat
    BY <2>1 DEF TypeOK, Issued, Verification
  <2> QED
    BY <2>1, <2>2, <2>3 DEF IdsInv
<1>3. ASSUME NEW j \in Job, Discover(j) PROVE IdsInv'
  <2>1. /\ UNCHANGED <<authority, lastId, assessment, verification, attempts>>
        /\ \A k \in Job : listing[k] \in Nat /\ listing[k] <= listing'[k] /\ listing'[k] \in Nat
    BY <1>3 DEF Discover, TypeOK
  <2>2. Issued' = Issued
        /\ \A v \in Issued : v.listing \in Nat /\ v.job \in Job
    BY <2>1 DEF TypeOK, Issued, Verification
  <2> QED
    BY <2>1, <2>2 DEF IdsInv
<1>4. CASE ChangeAuthority \/ RestoreCatalog
  <2>1. /\ authority' = authority + 1 /\ authority \in Nat
        /\ UNCHANGED <<lastId, listing, assessment, verification, attempts>>
    BY <1>4 DEF ChangeAuthority, RestoreCatalog, TypeOK
  <2>2. Issued' = Issued /\ \A v \in Issued : v.authority \in Nat
    BY <2>1 DEF TypeOK, Issued, Verification
  <2> QED
    BY <2>1, <2>2 DEF IdsInv
<1>5. ASSUME UNCHANGED <<authority, listing, assessment, verification, lastId>>
      PROVE  IdsInv'
  <2>1. CASE attempts' = attempts
    BY <1>5, <2>1 DEF IdsInv, Issued
  <2>2. ASSUME NEW j \in Job, StartReview(j) PROVE IdsInv'
    <3>1. /\ attempts' = attempts \cup {verification[j]} /\ verification[j].id # 0
          /\ Issued' = Issued
      BY <1>5, <2>2 DEF StartReview, RecordAttempt, Current, Bound, Issued
    <3> QED
      BY <1>5, <3>1 DEF IdsInv, Issued
  <2>3. attempts' = attempts \/ \E j \in Job : StartReview(j)
    BY DEF Next, vars, ChangeAuthority, RestoreCatalog, Crash, Expire, Discover, Assess,
           Verify, Finalise, Render, CopyFile, Settle, RecordArtifact, UnlinkPublished, Goto
  <2> QED
    BY <2>1, <2>2, <2>3
<1>6. ASSUME NEW id \in 1 .. lastId, Expire(id)
      PROVE  UNCHANGED <<authority, listing, assessment, verification, lastId>>
  BY <1>6 DEF Expire
<1>7. ASSUME UNCHANGED world
      PROVE  UNCHANGED <<authority, listing, assessment, verification, lastId>>
  BY <1>7 DEF world
<1> QED
  BY <1>1, <1>2, <1>3, <1>4, <1>5, <1>6, <1>7, Steps

\* Whatever happens, an authorization that is no longer current stays so.
LEMMA StaysStale ==
  ASSUME TypeOK, IdsInv, [Next]_vars, NEW v \in attempts, Current(v)'
  PROVE  Current(v)
<1>1. /\ v \in Issued /\ v.job \in Job
      /\ v.id \in Nat /\ v.authority \in Nat /\ v.assessment \in Nat /\ v.listing \in Nat
  BY DEF Issued, TypeOK, Verification
<1>2. /\ v.id <= lastId /\ v.assessment <= lastId /\ v.authority <= authority
      /\ v.listing <= listing[v.job] /\ lastId \in Nat /\ authority \in Nat
  BY <1>1 DEF IdsInv, TypeOK
<1> USE DEF Current, Bound, Unexpired, SameFacts, SameLedger, Assessed, CurrentVerification
<1>3. CASE ChangeAuthority \/ RestoreCatalog
  <2>1. authority' = authority + 1 /\ v.authority = authority'
    BY <1>3 DEF ChangeAuthority, RestoreCatalog
  <2> QED
    BY <1>1, <1>2, <2>1
<1>4. ASSUME NEW id \in 1 .. lastId, Expire(id) PROVE Current(v)
  BY <1>4 DEF Expire
<1>5. ASSUME NEW j \in Job, Discover(j) PROVE Current(v)
  <2>1. v.listing = listing'[v.job]
    OBVIOUS
  <2>2. CASE j = v.job
    <3>1. listing'[v.job] = listing[v.job] + 1 /\ listing[v.job] \in Nat
      BY <1>1, <1>5, <2>2 DEF Discover, TypeOK
    <3> QED
      BY <1>1, <1>2, <2>1, <3>1
  <2>3. CASE j # v.job
    <3>1. listing'[v.job] = listing[v.job]
      BY <1>1, <1>5, <2>3 DEF Discover, TypeOK
    <3> QED
      BY <1>5, <3>1 DEF Discover
  <2> QED
    BY <2>2, <2>3
<1>6. ASSUME NEW j \in Job, Assess(j) PROVE Current(v)
  <2>1. CASE j = v.job
    <3>1. assessment'[v.job].id = lastId + 1
      BY <1>1, <1>6, <2>1 DEF Assess, NewId, TypeOK
    <3> QED
      BY <1>1, <1>2, <3>1
  <2>2. CASE j # v.job
    <3>1. assessment'[v.job] = assessment[v.job]
      BY <1>1, <1>6, <2>2 DEF Assess, TypeOK
    <3> QED
      BY <1>6, <3>1 DEF Assess
  <2> QED
    BY <2>1, <2>2
<1>7. ASSUME NEW j \in Job, Verify(j) PROVE Current(v)
  <2>1. CASE j = v.job
    <3>1. verification'[v.job].id = lastId + 1
      BY <1>1, <1>7, <2>1 DEF Verify, NewId, TypeOK
    <3> QED
      BY <1>1, <1>2, <3>1
  <2>2. CASE j # v.job
    <3>1. verification'[v.job] = verification[v.job]
      BY <1>1, <1>7, <2>2 DEF Verify, TypeOK
    <3> QED
      BY <1>7, <3>1 DEF Verify
  <2> QED
    BY <2>1, <2>2
<1>8. CASE UNCHANGED world
  BY <1>8 DEF world
<1> QED
  BY <1>3, <1>4, <1>5, <1>6, <1>7, <1>8, Steps

-----------------------------------------------------------------------------
(* The review under way *)

LEMMA Attempts ==
  ASSUME [Next]_vars
  PROVE  attempts \subseteq attempts' /\ torn \subseteq torn'
BY DEF Next, vars, world, handler, ChangeAuthority, RestoreCatalog, Crash, Expire, Discover,
       Assess, Verify, StartReview, RecordAttempt, Finalise, Render, CopyFile, Settle,
       RecordArtifact, UnlinkPublished, Goto, Leave

LEMMA PipelineStep ==
  ASSUME TypeOK, IdsInv, PipelineInv, [Next]_vars
  PROVE  PipelineInv'
<1>1. \A a \in copy : a \in artifacts \/ ~Current(a.attempt)'
  BY StaysStale DEF PipelineInv
<1>2. \A a \in artifacts \cup copy : a.attempt \in attempts /\ a.attempt \in attempts'
  BY Attempts DEF PipelineInv
<1>3. CASE UNCHANGED <<artifacts, copy, files, handler>>
  BY <1>1, <1>2, <1>3, Attempts DEF PipelineInv, handler, Whole
<1>4. CASE RestoreCatalog
  <2>1. \A a \in artifacts : ~Current(a.attempt)'
    <3> SUFFICES ASSUME NEW a \in artifacts, Current(a.attempt)' PROVE FALSE
      OBVIOUS
    <3>1. /\ a.attempt \in Issued /\ a.attempt.authority \in Nat
      BY <1>2 DEF Issued, TypeOK, Verification
    <3>2. a.attempt.authority <= authority /\ authority \in Nat
      BY <3>1 DEF IdsInv, TypeOK
    <3>3. a.attempt.authority = authority'
      BY DEF Current, SameFacts
    <3> QED
      BY <1>4, <3>1, <3>2, <3>3 DEF RestoreCatalog
  <2>2. pc' = "idle" /\ published' = {}
    BY <1>4 DEF RestoreCatalog, PipelineInv, handler
  <2> QED
    BY <1>2, <1>4, <2>1, <2>2 DEF RestoreCatalog, PipelineInv
<1>5. ASSUME Leave, artifacts' = artifacts, copy' = copy PROVE PipelineInv'
  BY <1>1, <1>2, <1>5 DEF Leave, PipelineInv
<1>6. ASSUME NEW v \in attempts, Finalise(v) PROVE PipelineInv'
  <2>1. \A a \in artifacts \cup copy : a.attempt # v
    BY <1>6 DEF Finalise, Finalised, PipelineInv
  <2> QED
    BY <1>1, <1>2, <1>6, <2>1 DEF Finalise, PipelineInv
<1>7. ASSUME UNCHANGED <<artifacts, copy, attempt, name>>, pc \notin {"idle", "undo"},
             \/ pc' = "docx" \/ pc' = "undo"
             \/ pc' = "record" /\ pc = "settle",
             files' = files, published' \subseteq published
      PROVE  PipelineInv'
  BY <1>1, <1>2, <1>7, Attempts DEF PipelineInv, Whole
<1>8. CASE Render \/ Settle
  BY <1>7, <1>8 DEF Render, Settle, Goto
<1>9. CASE CopyFile
  <2>1. /\ pc \in Kind /\ pc # "idle"
        /\ UNCHANGED <<artifacts, copy, attempt, name>>
        /\ files \subseteq files'
        /\ published' \subseteq published \cup {NewFile(TRUE)}
    BY <1>9 DEF CopyFile, Goto, Kind
  <2>2. \A f \in published' : f.attempt = attempt.id /\ f.name = name
    BY <2>1 DEF PipelineInv, NewFile
  <2>3. /\ pc' \in {"pdf", "settle", "undo"}
        /\ pc' = "pdf" => pc = "docx" /\ NewFile(TRUE) \in files'
        /\ pc' = "settle" => pc = "pdf" /\ NewFile(TRUE) \in files'
    BY <1>9 DEF CopyFile, Goto, Kind
  <2>4. Whole("docx")' = Whole("docx") /\ Whole("pdf")' = Whole("pdf")
        /\ NewFile(TRUE) = Whole(pc)
    BY <2>1 DEF Whole, NewFile
  <2>5. /\ pc' \in {"pdf", "settle", "record"} => (Whole("docx") \in files)'
        /\ pc' \in {"settle", "record"} => (Whole("pdf") \in files)'
    BY <2>1, <2>3, <2>4 DEF PipelineInv
  <2>6. \A a \in artifacts \cup copy : a.attempt # attempt
    BY <2>1 DEF PipelineInv, Kind
  <2> QED
    BY <1>1, <1>2, <2>1, <2>2, <2>3, <2>5, <2>6 DEF PipelineInv
<1>10. CASE RecordArtifact
  <2>1. CASE pc' = "undo"
    <3>1. /\ UNCHANGED <<attempts, attempt, name, files, published>>
          /\ \/ UNCHANGED <<artifacts, copy>>
             \/ /\ artifacts' = artifacts \cup {[attempt |-> attempt, name |-> name]}
                /\ copy' \in {copy, artifacts} /\ attempt.id \in torn'
      BY <1>10, <2>1 DEF RecordArtifact, Goto, Leave
    <3>2. pc = "record" /\ attempt \in attempts
      BY <1>10 DEF RecordArtifact, TypeOK
    <3>3. \A a \in artifacts' \cup copy' :
            /\ a.attempt \in attempts'
            /\ a.attempt # attempt \/ a.attempt.id \in torn'
      BY <1>2, <3>1, <3>2 DEF PipelineInv
    <3>4. \A a \in copy' : a \in artifacts' \/ ~Current(a.attempt)'
      BY <1>1, <3>1
    <3>5. \A f \in published' : f.attempt = attempt'.id /\ f.name = name'
      BY <3>1, <3>2 DEF PipelineInv
    <3> QED
      BY <2>1, <3>1, <3>3, <3>4, <3>5 DEF PipelineInv
  <2>2. CASE pc' # "undo"
    <3>1. /\ Leave /\ copy' \in {copy, artifacts}
          /\ artifacts' = artifacts \cup {[attempt |-> attempt, name |-> name]}
      BY <1>10, <2>2 DEF RecordArtifact, Goto
    <3>2. attempt \in attempts'
      BY <1>10, Attempts DEF RecordArtifact, TypeOK
    <3> QED
      BY <1>1, <1>2, <3>1, <3>2 DEF Leave, PipelineInv
  <2> QED
    BY <2>1, <2>2
<1>11. CASE UnlinkPublished
  <2>1. CASE published = {} /\ Leave
    BY <1>5, <1>11, <2>1 DEF UnlinkPublished
  <2>2. CASE ~(published = {} /\ Leave)
    BY <1>1, <1>2, <1>11, <2>2 DEF UnlinkPublished, Goto, PipelineInv
  <2> QED
    BY <2>1, <2>2
<1>12. CASE Crash
  BY <1>5, <1>12 DEF Crash
<1>13. CASE UNCHANGED vars
  BY <1>3, <1>13 DEF vars
<1>14. ASSUME ChangeAuthority \/ (\E id \in 1 .. lastId : Expire(id))
              \/ \E j \in Job : Discover(j) \/ Assess(j) \/ Verify(j) \/ StartReview(j)
       PROVE  PipelineInv'
  BY <1>3, <1>14 DEF ChangeAuthority, Expire, Discover, Assess, Verify, StartReview
<1> QED
  BY <1>4, <1>6, <1>8, <1>9, <1>10, <1>11, <1>12, <1>13, <1>14 DEF Next

\* A review with an artifact is not the one under way, and has another identifier,
\* unless the call that recorded it has just raised.
LEMMA Apart ==
  ASSUME TypeOK, IdsInv, PipelineInv, pc # "idle", NEW a \in artifacts \cup copy,
         pc # "undo" \/ a.attempt.id \notin torn
  PROVE  a.attempt.id # attempt.id
<1>1. attempt \in attempts /\ a.attempt \in attempts /\ a.attempt # attempt
  BY DEF TypeOK, PipelineInv
<1> QED
  BY <1>1 DEF IdsInv, Issued

LEMMA WholeStep ==
  ASSUME TypeOK, IdsInv, PipelineInv, ArtifactsAreWhole, [Next]_vars
  PROVE  ArtifactsAreWhole'
<1>1. ASSUME files \subseteq files', artifacts' \cup copy' \subseteq artifacts \cup copy
      PROVE  ArtifactsAreWhole'
  BY <1>1, Attempts DEF ArtifactsAreWhole
<1>2. CASE UnlinkPublished
  <2>1. pc # "idle" /\ UNCHANGED <<artifacts, copy>>
    BY <1>2 DEF UnlinkPublished
  <2>2. \A f \in files \ files' : f.attempt = attempt.id
    BY <1>2, <2>1 DEF UnlinkPublished, PipelineInv
  <2>3. ASSUME NEW a \in artifacts \cup copy, NEW kind \in Kind, a.attempt.id \notin torn
        PROVE  [name |-> a.name, kind |-> kind, attempt |-> a.attempt.id,
                whole |-> TRUE] \in files'
    <3> DEFINE f == [name |-> a.name, kind |-> kind, attempt |-> a.attempt.id,
                     whole |-> TRUE]
    <3>1. f \in files
      BY <2>3 DEF ArtifactsAreWhole
    <3>2. f.attempt # attempt.id
      BY <2>1, <2>3, Apart
    <3> HIDE DEF f
    <3>3. f \in files'
      BY <2>2, <3>1, <3>2
    <3> QED
      BY <3>3 DEF f
  <2> QED
    BY <2>1, <2>3, Attempts DEF ArtifactsAreWhole
<1>3. CASE RecordArtifact
  <2>1. files' = files /\ pc = "record" /\ copy' \subseteq artifacts \cup copy
        /\ artifacts' \subseteq artifacts \cup {[attempt |-> attempt, name |-> name]}
    BY <1>3 DEF RecordArtifact
  <2>2. \A kind \in Kind : Whole(kind) \in files
    BY <2>1 DEF PipelineInv, Kind
  <2>3. ASSUME NEW a \in artifacts' \cup copy', NEW kind \in Kind, a.attempt.id \notin torn
        PROVE  [name |-> a.name, kind |-> kind, attempt |-> a.attempt.id,
                whole |-> TRUE] \in files
    <3>1. CASE a \in artifacts \cup copy
      BY <2>3, <3>1 DEF ArtifactsAreWhole
    <3>2. CASE a = [attempt |-> attempt, name |-> name]
      <4>1. a.name = name /\ a.attempt.id = attempt.id
        BY <3>2
      <4> QED
        BY <2>2, <4>1 DEF Whole
    <3> QED
      BY <2>1, <3>1, <3>2
  <2> QED
    BY <2>1, <2>3, Attempts DEF ArtifactsAreWhole
<1> QED
  BY <1>1, <1>2, <1>3 DEF Next, vars, world, handler, ChangeAuthority, RestoreCatalog, Crash,
     Expire, Discover, Assess, Verify, StartReview, Finalise, Render, CopyFile, Settle, Goto

LEMMA AccountedStep ==
  ASSUME TypeOK, PipelineInv, FilesAreAccountedFor, [Next]_vars
  PROVE  FilesAreAccountedFor'
<1>1. ASSUME files' = files, published \subseteq published', artifacts \subseteq artifacts',
             lost \subseteq lost'
      PROVE  FilesAreAccountedFor'
  BY <1>1 DEF FilesAreAccountedFor
<1>2. CASE RestoreCatalog
  <2>1. \A a \in artifacts : a \in artifacts' \/ a.attempt.id \in lost'
    BY <1>2 DEF RestoreCatalog
  <2>2. UNCHANGED <<files, published>> /\ lost \subseteq lost'
    BY <1>2 DEF RestoreCatalog, handler
  <2> QED
    BY <2>1, <2>2 DEF FilesAreAccountedFor
<1>3. CASE Crash
  <2>1. \A f \in published : f.attempt \in lost'
    BY <1>3 DEF Crash, PipelineInv
  <2>2. UNCHANGED <<files, artifacts>> /\ lost \subseteq lost'
    BY <1>3 DEF Crash
  <2> QED
    BY <2>1, <2>2 DEF FilesAreAccountedFor
<1>4. CASE CopyFile
  <2>1. \A f \in files' \ files : ~f.whole \/ f \in published'
    BY <1>4 DEF CopyFile, NewFile
  <2>2. published \subseteq published' /\ UNCHANGED <<artifacts, lost>>
    BY <1>4 DEF CopyFile
  <2> QED
    BY <2>1, <2>2 DEF FilesAreAccountedFor
<1>5. CASE RecordArtifact
  <2>1. CASE published' = published
    BY <1>1, <1>5, <2>1 DEF RecordArtifact
  <2>2. CASE published' # published
    <3>1. /\ artifacts' = artifacts \cup {[attempt |-> attempt, name |-> name]}
          /\ UNCHANGED <<files, lost>>
      BY <1>5, <2>2 DEF RecordArtifact, Goto
    <3>2. \A f \in published : f.attempt = attempt.id /\ f.name = name
      BY <1>5 DEF RecordArtifact, PipelineInv
    <3>3. [attempt |-> attempt, name |-> name] \in artifacts'
      BY <3>1
    <3>4. \A f \in published :
            \E a \in artifacts' : a.attempt.id = f.attempt /\ a.name = f.name
      BY <3>2, <3>3
    <3> QED
      BY <3>1, <3>4 DEF FilesAreAccountedFor
  <2> QED
    BY <2>1, <2>2
<1>6. CASE UnlinkPublished
  <2>1. files' \subseteq files /\ UNCHANGED <<artifacts, lost>>
        /\ \A f \in published : f \in published' \/ f \notin files'
    BY <1>6 DEF UnlinkPublished, Leave
  <2> QED
    BY <2>1 DEF FilesAreAccountedFor
<1>7. ASSUME UNCHANGED <<files, published, artifacts, lost>>
      PROVE  FilesAreAccountedFor'
  BY <1>1, <1>7
<1>8. CASE UNCHANGED vars
  BY <1>7, <1>8 DEF vars, handler
<1>9. ASSUME \/ ChangeAuthority \/ Render \/ Settle \/ \E id \in 1 .. lastId : Expire(id)
             \/ \E j \in Job : Discover(j) \/ Assess(j) \/ Verify(j) \/ StartReview(j)
             \/ \E v \in attempts : Finalise(v)
      PROVE  FilesAreAccountedFor'
  BY <1>7, <1>9 DEF ChangeAuthority, Render, Settle, Expire, Discover, Assess, Verify,
     StartReview, Finalise, handler
<1> QED
  BY <1>2, <1>3, <1>4, <1>5, <1>6, <1>8, <1>9 DEF Next

LEMMA StaleStep ==
  ASSUME TypeOK, IdsInv, PipelineInv, StaleInv, [Next]_vars
  PROVE  StaleInv'
<1>1. ASSUME NEW v \in attempts, v.id \in stale PROVE ~Current(v)'
  BY <1>1, StaysStale DEF StaleInv
<1>2. \A i \in stale : \E v \in attempts' : v.id = i
  BY Attempts DEF StaleInv
<1>3. ASSUME NEW j \in Job, StartReview(j) PROVE StaleInv'
  <2>1. /\ attempts' = attempts \cup {verification[j]}
        /\ UNCHANGED <<pc, attempt, artifacts, copy, stale>>
    BY <1>3 DEF StartReview, RecordAttempt, handler
  <2>2. verification[j].id \notin stale
    <3> SUFFICES ASSUME verification[j].id \in stale PROVE FALSE
      OBVIOUS
    <3>1. PICK v \in attempts : v.id = verification[j].id
      BY DEF StaleInv
    <3>2. v = verification[j]
      BY <3>1 DEF IdsInv, Issued
    <3> QED
      BY <1>3, <3>1, <3>2 DEF StartReview, StaleInv
  <2> QED
    BY <1>1, <1>2, <2>1, <2>2 DEF StaleInv
<1>4. ASSUME UNCHANGED <<stale, attempts>>,
             artifacts' \cup copy' \subseteq artifacts \cup copy,
             pc' = "record" => attempt'.id \notin stale
      PROVE  StaleInv'
  BY <1>1, <1>2, <1>4 DEF StaleInv
<1>5. CASE CopyFile
  <2>1. /\ UNCHANGED <<attempts, attempt, artifacts, copy>> /\ pc' # "record"
        /\ pc # "idle" /\ pc # "undo"
        /\ stale' = stale \/ (stale' = stale \cup {attempt.id} /\ ~Current(attempt))
    BY <1>5 DEF CopyFile, Goto, Kind
  <2>2. PICK u \in attempts : u = attempt
    BY <2>1 DEF TypeOK
  <2>3. ~Current(u) => ~Current(u)'
    BY StaysStale
  <2>4. \A v \in attempts : v.id = u.id => v = u
    BY DEF IdsInv, Issued
  <2>5. \A v \in attempts' : v.id \in stale' => ~Current(v)'
    BY <1>1, <2>1, <2>2, <2>3, <2>4
  <2>6. \A a \in artifacts' \cup copy' : a.attempt.id \notin stale'
    <3> SUFFICES ASSUME NEW a \in artifacts \cup copy PROVE a.attempt.id \notin stale'
      BY <2>1
    <3>1. a.attempt.id \notin stale
      BY DEF StaleInv
    <3>2. a.attempt.id # attempt.id
      BY <2>1, Apart
    <3> QED
      BY <2>1, <3>1, <3>2
  <2>7. \A i \in stale' : \E v \in attempts' : v.id = i
    BY <1>2, <2>1, <2>2
  <2> QED
    BY <2>1, <2>5, <2>6, <2>7 DEF StaleInv
<1>6. CASE Settle
  <2>1. /\ UNCHANGED <<attempts, attempt, artifacts, copy, stale>> /\ pc # "idle"
        /\ pc' = "record" => Current(attempt)
    BY <1>6 DEF Settle, Goto
  <2>2. pc' = "record" => attempt.id \notin stale
    BY <2>1 DEF StaleInv, TypeOK
  <2> QED
    BY <1>4, <2>1, <2>2
<1>7. CASE RecordArtifact
  <2>1. /\ UNCHANGED <<attempts, stale>> /\ pc' # "record" /\ attempt.id \notin stale
        /\ artifacts' \cup copy' \subseteq
             (artifacts \cup copy) \cup {[attempt |-> attempt, name |-> name]}
    BY <1>7 DEF RecordArtifact, Goto, Leave, StaleInv
  <2> QED
    BY <1>1, <1>2, <2>1 DEF StaleInv
<1>8. CASE RestoreCatalog
  BY <1>4, <1>8 DEF RestoreCatalog, handler, StaleInv
<1>9. CASE Crash \/ UnlinkPublished
  BY <1>4, <1>9 DEF Crash, UnlinkPublished, Goto, Leave
<1>10. CASE Render \/ \E v \in attempts : Finalise(v)
  BY <1>4, <1>10 DEF Render, Finalise, Goto
<1>11. ASSUME ChangeAuthority \/ (\E id \in 1 .. lastId : Expire(id))
              \/ \E j \in Job : Discover(j) \/ Assess(j) \/ Verify(j)
       PROVE  StaleInv'
  BY <1>4, <1>11 DEF ChangeAuthority, Expire, Discover, Assess, Verify, handler, StaleInv
<1>12. CASE UNCHANGED vars
  BY <1>4, <1>12 DEF vars, handler, StaleInv
<1> QED
  BY <1>3, <1>5, <1>6, <1>7, <1>8, <1>9, <1>10, <1>11, <1>12 DEF Next

-----------------------------------------------------------------------------
(* Theorems *)

\* Everything the steps preserve together.
FinalisationInv ==
  TypeOK /\ IdsInv /\ PipelineInv /\ StaleInv /\ ArtifactsAreWhole /\ FilesAreAccountedFor

LEMMA FinalisationInit == Init => FinalisationInv
<1> SUFFICES ASSUME Init PROVE FinalisationInv
  OBVIOUS
<1>1. TypeOK
  BY TypeInit
<1>2. IdsInv
  <2>1. attempts = {} /\ lastId = 0 /\ authority = 0 /\ \A j \in Job : assessment[j].id = 0
    BY DEF Init
  <2>2. \A v \in Issued : v.id = 0 /\ v.assessment = 0 /\ v.authority = 0
                          /\ v.listing = 0 /\ listing[v.job] = 0
    BY <2>1 DEF Init, Issued
  <2> QED
    BY <2>1, <2>2 DEF IdsInv
<1>3. PipelineInv /\ StaleInv /\ ArtifactsAreWhole /\ FilesAreAccountedFor
  BY DEF Init, PipelineInv, StaleInv, ArtifactsAreWhole, FilesAreAccountedFor
<1> QED
  BY <1>1, <1>2, <1>3 DEF FinalisationInv

LEMMA Invariance == Spec => []FinalisationInv
<1>1. FinalisationInv /\ [Next]_vars => FinalisationInv'
  BY TypeStep, IdsStep, PipelineStep, StaleStep, WholeStep, AccountedStep DEF FinalisationInv
<1> QED
  BY FinalisationInit, <1>1, PTL DEF Spec

\* Every variable of the finalisation keeps its type: a verification, a review,
\* an artifact and a file are what the catalog and the output directory hold.
THEOREM FinalisationTypeCorrect == Spec => []TypeOK
BY Invariance, PTL DEF FinalisationInv

\* However failures, crashes and restored catalogs fall, an artifact names two
\* complete files of its own: taking a failed pair back never removes those of
\* another review, though they may have had the same names.  An artifact is
\* excepted if the call that recorded it raised after its commit
\* (finalisation.py, _publish_pair_exclusively and finalise).
THEOREM ArtifactsStayWhole == Spec => []ArtifactsAreWhole
BY Invariance, PTL DEF FinalisationInv

\* A complete file in the output directory is being published, is recorded, or
\* was left by a crash or a restored catalog (finalisation.py, finalise).
THEOREM NoStrayFiles == Spec => []FilesAreAccountedFor
BY Invariance, PTL DEF FinalisationInv

\* A review that was stale once its pair was complete is never recorded: not by
\* its own finalisation, not by a later one and not by a restored catalog
\* (finalisation.py, finalise and its check once the pair is published).
THEOREM NothingStaleIsFinal == Spec => []StaleIsNeverFinal
<1>1. FinalisationInv => StaleIsNeverFinal
  BY DEF FinalisationInv, StaleInv, StaleIsNeverFinal
<1> QED
  BY Invariance, <1>1, PTL
=============================================================================

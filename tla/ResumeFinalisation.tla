-------------------------- MODULE ResumeFinalisation --------------------------
(***************************************************************************)
(* From the verification of an assessed job to a pair of resume files on   *)
(* disk.  A verification authorizes one review for fifteen minutes, bound  *)
(* to the facts, the grant, the listing and the assessment it was issued   *)
(* for.  Finalising the review renders the pair, copies it to names that   *)
(* must be free, and records it in the catalog.                            *)
(*                                                                         *)
(* All of this runs on the event loop, one request at a time; what Phase I *)
(* commits on its threads, the clock and a crash come between any two of   *)
(* its steps.  All jobs are of one company: files of others never collide. *)
(***************************************************************************)
EXTENDS Naturals, FiniteSets

CONSTANTS
  Job,
  FirstName,     \* the file name of a company's first pair, without a role
  NoReview,
  MaxAuthority,  \* bound: changes of facts, profile, grant, restores
  MaxListing,    \* bound: revisions of each job's listing
  MaxId          \* bound: assessments and verifications

ASSUME FinalisationAssumption ==
  /\ FirstName \notin Job
  /\ MaxAuthority \in Nat /\ MaxListing \in Nat /\ MaxId \in Nat

VARIABLES
  authority,    \* the generation of everything Phase I and the grant contribute
  expired,      \* verifications whose fifteen minutes are over
  listing, assessment, verification, \* the latest of each job, in the catalog
  attempts,     \* reviews, one for a verification at most
  artifacts,    \* the pairs recorded as final
  copy,         \* the artifacts in a safety copy of the catalog
  lastId,
  files,        \* the output directory
  pc, attempt, name, published, \* the handler: step, review, file name, files
  stale,        \* history: reviews no longer current when their pair was complete
  lost,         \* history: reviews whose files a crash or a restore left behind
  torn          \* history: reviews recorded by a call that raised after its commit

world   == <<authority, expired, listing, assessment, verification, lastId>>
handler == <<pc, attempt, name, published>>
history == <<stale, lost, torn>>
vars == <<world, attempts, artifacts, copy, files, handler, history>>

Kind == {"docx", "pdf"}
Name == Job \cup {FirstName}
File == [name : Name, kind : Kind, attempt : Nat, whole : BOOLEAN]

\* Id 0 stands for none.
Assessment   == [id : Nat, authority : Nat, listing : Nat]
Verification == [id : Nat, job : Job, authority : Nat, listing : Nat, assessment : Nat]
Artifact     == [attempt : Verification, name : Name]

ASSUME NoReviewAssumption == NoReview \notin Verification

TypeOK ==
  /\ authority \in Nat /\ lastId \in Nat
  /\ expired \subseteq 1 .. lastId
  /\ listing \in [Job -> Nat]
  /\ assessment \in [Job -> Assessment]
  /\ verification \in [Job -> Verification]
  /\ attempts \subseteq Verification
  /\ artifacts \subseteq Artifact /\ copy \subseteq Artifact
  /\ files \subseteq File /\ published \subseteq files
  /\ pc \in {"idle", "render", "docx", "pdf", "settle", "record", "undo"}
  /\ attempt \in attempts \cup {NoReview} /\ name \in Name
  /\ pc # "idle" => attempt # NoReview
  /\ stale \subseteq Nat /\ lost \subseteq Nat /\ torn \subseteq Nat

Init ==
  /\ authority = 0 /\ expired = {} /\ lastId = 0 /\ files = {}
  /\ listing = [j \in Job |-> 0]
  /\ assessment = [j \in Job |-> [id |-> 0, authority |-> 0, listing |-> 0]]
  /\ verification = [j \in Job |-> [id |-> 0, job |-> j, authority |-> 0,
                                    listing |-> 0, assessment |-> 0]]
  /\ attempts = {} /\ artifacts = {} /\ copy = {}
  /\ pc = "idle" /\ attempt = NoReview /\ name = FirstName /\ published = {}
  /\ stale = {} /\ lost = {} /\ torn = {}

-----------------------------------------------------------------------------
(* What an authorization is bound to *)

\* _validated_assessment_evidence: the job's latest assessment is of the facts
\* and the listing of today.
Assessed(j) ==
  /\ assessment[j].id # 0
  /\ assessment[j].authority = authority /\ assessment[j].listing = listing[j]

\* The job's latest verification is the one the review was bound to, and runs.
CurrentVerification(j) == verification[j]
Bound(v)     == v.id # 0 /\ v = CurrentVerification(v.job)
Unexpired(v) == v.id \notin expired

\* Facts, profile, readiness and grant are those of the verification, and its
\* ledger of requirements is the one of the latest assessment.
SameFacts(v)  == v.authority = authority
SameLedger(v) == v.assessment = assessment[v.job].id

\* revalidate_resume_authorization
Current(v) ==
  /\ Bound(v) /\ Unexpired(v) /\ SameFacts(v)
  /\ v.listing = listing[v.job] /\ Assessed(v.job) /\ SameLedger(v)

NewId == lastId < MaxId /\ lastId' = lastId + 1

\* A reviewed fact, a profile, a new grant, a restored vault.
ChangeAuthority ==
  /\ authority < MaxAuthority /\ authority' = authority + 1
  /\ UNCHANGED <<expired, listing, assessment, verification, lastId, attempts,
                 artifacts, copy, files, handler, history>>

\* Only a job's latest verification is ever current.
Expire(id) ==
  /\ \E j \in Job : CurrentVerification(j).id = id
  /\ id \notin expired /\ expired' = expired \cup {id}
  /\ UNCHANGED <<authority, listing, assessment, verification, lastId, attempts,
                 artifacts, copy, files, handler, history>>

Discover(j) ==
  /\ pc = "idle" /\ listing[j] < MaxListing
  /\ listing' = [listing EXCEPT ![j] = @ + 1]
  /\ UNCHANGED <<authority, expired, assessment, verification, lastId, attempts,
                 artifacts, copy, files, handler, history>>

Assess(j) ==
  /\ pc = "idle" /\ NewId
  /\ assessment' = [assessment EXCEPT ![j] =
       [id |-> lastId', authority |-> authority, listing |-> listing[j]]]
  /\ UNCHANGED <<authority, expired, listing, verification, attempts, artifacts,
                 copy, files, handler, history>>

Verify(j) ==
  /\ pc = "idle" /\ Assessed(j) /\ NewId
  /\ verification' = [verification EXCEPT ![j] =
       [id |-> lastId', job |-> j, authority |-> authority, listing |-> listing[j],
        assessment |-> assessment[j].id]]
  /\ UNCHANGED <<authority, expired, listing, assessment, attempts, artifacts,
                 copy, files, handler, history>>

\* The database refuses a second review of a verification.
RecordAttempt(v) == attempts' = attempts \cup {v}

StartReview(j) ==
  /\ pc = "idle" /\ Current(verification[j]) /\ RecordAttempt(verification[j])
  /\ UNCHANGED <<world, artifacts, copy, files, handler, history>>

-----------------------------------------------------------------------------
(* finalise *)

Goto(step) == pc' = step /\ UNCHANGED <<world, attempts, attempt, name>>

\* The end of a request.  The event a failure leaves is read by nothing.
Leave ==
  /\ pc' = "idle" /\ attempt' = NoReview /\ name' = FirstName /\ published' = {}

Finalised(v) == \E a \in artifacts : a.attempt = v

HasFinalResume == artifacts # {}

\* The company's first pair has its name; a later one has the job's role in it.
FilenameStem(v) == IF ~HasFinalResume THEN FirstName ELSE v.job

\* A review that is finalised already, or not current, ends here.
Finalise(v) ==
  /\ pc = "idle" /\ ~Finalised(v) /\ Current(v)
  /\ pc' = "render" /\ attempt' = v /\ name' = FilenameStem(v)
  /\ UNCHANGED <<world, attempts, artifacts, copy, files, published, history>>

\* Rendering, the comparison of the text and the check that follows it.
Render ==
  /\ pc = "render"
  /\ \/ Current(attempt) /\ Goto("docx")
     \/ Goto("undo")
  /\ UNCHANGED <<artifacts, copy, files, published, history>>

NewFile(whole) ==
  [name |-> name, kind |-> pc, attempt |-> attempt.id, whole |-> whole]
Taken == \E f \in files : f.name = name /\ f.kind = pc

\* _publish_pair_exclusively.  A copy that fails half way, or whose mode
\* cannot be set, has created its target; that is not among those removed.
CopyFile ==
  /\ pc \in Kind
  /\ \/ /\ ~Taken
        /\ files' = files \cup {NewFile(TRUE)}
        /\ published' = published \cup {NewFile(TRUE)}
        /\ Goto(IF pc = "docx" THEN "pdf" ELSE "settle")
        /\ stale' = IF pc = "pdf" /\ ~Current(attempt)
                    THEN stale \cup {attempt.id} ELSE stale
     \/ /\ ~Taken
        /\ files' = files \cup {NewFile(FALSE)} /\ Goto("undo")
        /\ UNCHANGED <<published, stale>>
     \/ Goto("undo") /\ UNCHANGED <<files, published, stale>>
  /\ UNCHANGED <<artifacts, copy, lost, torn>>

\* Mutant: the authorization is not checked again once the pair is there.
SettleUnchecked ==
  /\ pc = "settle" /\ Goto("record")
  /\ UNCHANGED <<artifacts, copy, files, published, history>>

Settle ==
  /\ pc = "settle" /\ Goto(IF Current(attempt) THEN "record" ELSE "undo")
  /\ UNCHANGED <<artifacts, copy, files, published, history>>

\* Every transaction first copies the catalog.
InsertArtifact ==
  /\ ~Finalised(attempt)
  /\ artifacts' = artifacts \cup {[attempt |-> attempt, name |-> name]}
  /\ copy' \in {copy, artifacts}

\* A call that raises after its commit is taken for one that failed.
RecordArtifact ==
  /\ pc = "record"
  /\ \/ InsertArtifact /\ Leave /\ UNCHANGED <<world, attempts, torn>>
     \/ /\ InsertArtifact /\ Goto("undo") /\ torn' = torn \cup {attempt.id}
        /\ UNCHANGED published
     \/ Goto("undo") /\ UNCHANGED <<artifacts, copy, published, torn>>
  /\ UNCHANGED <<files, stale, lost>>

\* Mutant: both targets are removed, whoever put them there.
UnlinkTargets ==
  /\ pc = "undo" /\ published = {} /\ Leave
  /\ files' = {f \in files : f.name # name}
  /\ UNCHANGED <<world, attempts, artifacts, copy, history>>

\* Mutant: what was removed is still taken for published.
UnlinkForgetful ==
  /\ pc = "undo" /\ published # {} /\ Goto("undo")
  /\ files' = files \ published /\ UNCHANGED <<artifacts, copy, published, history>>

\* Mutant: the published files are kept when finalisation fails.
KeepPublished ==
  /\ pc = "undo" /\ Leave
  /\ UNCHANGED <<world, attempts, artifacts, copy, files, history>>

UnlinkPublished ==
  \/ /\ pc = "undo" /\ Goto("undo")
     /\ \E f \in published : files' = files \ {f} /\ published' = published \ {f}
     /\ UNCHANGED <<artifacts, copy, history>>
  \/ /\ pc = "undo" /\ published = {} /\ Leave
     /\ UNCHANGED <<world, attempts, artifacts, copy, files, history>>

-----------------------------------------------------------------------------

Crash ==
  /\ pc # "idle" /\ Leave
  /\ lost' = lost \cup {attempt.id}
  /\ UNCHANGED <<world, attempts, artifacts, copy, files, stale, torn>>

\* A restored catalog counts as a new authority, so that nothing it brings back
\* is current; the files are not restored with it.
RestoreCatalog ==
  /\ pc = "idle" /\ authority < MaxAuthority /\ authority' = authority + 1
  /\ artifacts' = copy /\ copy' \in {copy, artifacts}
  /\ lost' = lost \cup {a.attempt.id : a \in artifacts \ copy}
  /\ UNCHANGED <<expired, listing, assessment, verification, lastId, attempts,
                 files, handler, stale, torn>>

Next ==
  \/ ChangeAuthority \/ RestoreCatalog \/ Crash
  \/ \E id \in 1 .. lastId : Expire(id)
  \/ \E j \in Job : Discover(j) \/ Assess(j) \/ Verify(j) \/ StartReview(j)
  \/ \E v \in attempts : Finalise(v)
  \/ Render \/ CopyFile \/ Settle \/ RecordArtifact \/ UnlinkPublished

Spec == Init /\ [][Next]_vars

-----------------------------------------------------------------------------
(* Properties *)

\* An artifact, in the catalog or in a copy of it, names two complete files of
\* its own: no failed attempt removes or replaces the files of another one.  The
\* exception is an artifact recorded by a call that then raised: its own
\* finalisation takes the pair back and leaves the row (finalisation.py:219).
ArtifactsAreWhole ==
  \A a \in artifacts \cup copy : \A kind \in Kind :
    a.attempt.id \notin torn =>
      [name |-> a.name, kind |-> kind, attempt |-> a.attempt.id, whole |-> TRUE] \in files

\* Does not hold: without the exception.
ArtifactsHaveTheirFiles ==
  \A a \in artifacts : \A kind \in Kind :
    pc = "idle" =>
      [name |-> a.name, kind |-> kind, attempt |-> a.attempt.id, whole |-> TRUE] \in files

\* A complete file is on its way, belongs to an artifact, or is what a crash or
\* a restored catalog left: a finalisation that fails takes its files back.
FilesAreAccountedFor ==
  \A f \in files :
    \/ ~f.whole \/ f \in published \/ f.attempt \in lost
    \/ \E a \in artifacts : a.attempt.id = f.attempt /\ a.name = f.name

\* A review whose facts, listing, grant or fifteen minutes had run out when its
\* pair was complete is never recorded as final.  What changes after that, in
\* the moment between the last check and the record, is not noticed.
StaleIsNeverFinal == \A a \in artifacts : a.attempt.id \notin stale
=============================================================================

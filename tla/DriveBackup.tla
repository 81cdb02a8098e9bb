----------------------------- MODULE DriveBackup -----------------------------
(***************************************************************************)
(* The backup of a finalised resume, a pair of files, to a private folder  *)
(* on Google Drive.  What has happened to a backup is an append-only list  *)
(* of events in the catalog; consents that are under way, and the set of   *)
(* operations some handler works on, are in memory.                        *)
(*                                                                         *)
(* A request and a retry run on the event loop, one at a time; the         *)
(* callback that ends a consent runs on a thread.  Before every call to    *)
(* Google the handler verifies the artifact again.  A call may be refused, *)
(* may fail, may take effect although its answer is lost, or later; any    *)
(* step of a handler may raise, and the process may die.                   *)
(***************************************************************************)
EXTENDS Naturals, FiniteSets

CONSTANTS
  Artifact,   \* finalised resumes
  Loop,       \* the handler on the event loop
  Callback,   \* handlers of consent callbacks, on threads
  MaxFaults   \* bound: failures, lost answers, crashes, deleted objects

ASSUME DriveAssumption ==
  /\ Loop \notin Callback
  /\ MaxFaults \in Nat

VARIABLES
  operations,   \* artifacts with an operation row
  events,       \* the kinds of the events of each operation
  reserved,     \* the identifiers recorded with ids_reserved, 0 for none
  usable,       \* artifacts that artifact_by_id still verifies
  token,        \* the grant whose refresh token the keychain holds, or 0
  awaiting,     \* artifacts with a consent under way
  active,       \* operations a handler works on
  pc, op, file, retrying, \* each handler: step, operation, file, whether a retry
  held,         \* what it holds: the token it loaded, or new identifiers
  cleared,      \* whether it verified the artifact for its next call
  grants, lastGrant,     \* Google: grants it honours, the last one given
  remote, late, lastId,  \* Drive: objects, uploads to arrive, identifiers
  faults,       \* what has gone wrong so far, counted
  seen,         \* history: the files Drive confirmed to a handler
  overrun       \* history: calls made for an artifact that had become unusable

catalog == <<operations, events, reserved>>
google  == <<grants, lastGrant, remote, late, lastId>>
handler == <<pc, op, file, retrying, held, cleared, seen>>
vars == <<catalog, usable, token, awaiting, active, handler, google, faults, overrun>>

Worker == Callback \cup {Loop}
File   == {"docx", "pdf"}
Object == [artifact : Artifact, kind : File \cup {"folder"}, id : Nat]

\* A verified file is recorded as an event of its own kind.
Event == File \cup
  {"requested", "authorization_required", "authorization_granted",
   "authorization_denied", "ids_reserved", "folder_verified", "pending",
   "permission_expired", "completed"}

\* Steps that end in a call to Google.
CallStep == {"refresh", "exchange", "reserve", "folder", "upload", "put",
             "lookup", "find_folder", "find_file"}
Step == CallStep \cup
  {"idle", "requested", "token", "require", "grant", "forget", "expire",
   "record_ids", "record_folder", "record_file", "complete", "pending"}

TypeOK ==
  /\ operations \subseteq Artifact
  /\ events \in [Artifact -> SUBSET Event]
  /\ reserved \in [Artifact -> Nat]
  /\ usable \subseteq Artifact
  /\ token \in Nat /\ grants \subseteq Nat /\ lastGrant \in Nat
  /\ awaiting \subseteq operations /\ active \subseteq operations
  /\ pc \in [Worker -> Step] /\ op \in [Worker -> Artifact]
  /\ file \in [Worker -> File] /\ retrying \in [Worker -> BOOLEAN]
  /\ held \in [Worker -> Nat] /\ cleared \in [Worker -> BOOLEAN]
  /\ remote \subseteq Object /\ late \subseteq Object
  /\ lastId \in Nat /\ faults \in Nat
  /\ seen \in [Worker -> SUBSET File]
  /\ overrun \in [Artifact -> Nat]

Init ==
  /\ operations = {} /\ events = [a \in Artifact |-> {}]
  /\ reserved = [a \in Artifact |-> 0]
  /\ usable = Artifact
  /\ token \in {0, 1} /\ lastGrant = token /\ grants = {token} \ {0}
  /\ awaiting = {} /\ active = {}
  /\ pc = [w \in Worker |-> "idle"] /\ op \in [Worker -> Artifact]
  /\ file = [w \in Worker |-> "docx"]
  /\ retrying = [w \in Worker |-> FALSE]
  /\ held = [w \in Worker |-> 0] /\ cleared = [w \in Worker |-> FALSE]
  /\ remote = {} /\ late = {} /\ lastId = 0 /\ faults = 0
  /\ seen = [w \in Worker |-> {}]
  /\ overrun = [a \in Artifact |-> 0]

-----------------------------------------------------------------------------
(* The event history *)

Status(a) ==
  LET Has(kinds) == events[a] \cap kinds # {} IN
  IF events[a] = {} THEN "not_requested"
  ELSE IF Has({"completed"}) THEN "backed_up"
  ELSE IF Has({"permission_expired", "authorization_denied"}) THEN "permission_expired"
  ELSE IF Has({"authorization_required"}) /\ ~Has({"pending"}) THEN "sign_in_required"
  ELSE "pending"

\* _assert_event_order
Allowed(a, e) ==
  /\ events[a] = {} <=> e = "requested"
  /\ "completed" \notin events[a]
  /\ e \in {"authorization_granted", "authorization_denied"} =>
       "authorization_required" \in events[a]
  /\ e = "ids_reserved" /\ "authorization_required" \in events[a] =>
       "authorization_granted" \in events[a]
  /\ e = "folder_verified" => "ids_reserved" \in events[a]
  /\ e \in File => "folder_verified" \in events[a] /\ e \notin events[a]
  /\ e = "completed" => File \subseteq events[a]

Append(w, e) ==
  /\ Allowed(op[w], e)
  /\ events' = [events EXCEPT ![op[w]] = @ \cup {e}]

Fault == faults < MaxFaults /\ faults' = faults + 1

Goto(w, step) == pc' = [pc EXCEPT ![w] = step]

\* The end of a handler, however it ends.
Leave(w) == Goto(w, "idle") /\ active' = active \ {op[w]}

\* A handler verifies the artifact, appends an event and goes on, or is done.
Records(w, step, e) ==
  /\ pc[w] = step /\ op[w] \in usable /\ Append(w, e)
  /\ UNCHANGED <<operations, usable, token, awaiting, op, retrying, cleared,
                 google, faults, overrun>>
RecordsAnd(w, step, e, next) ==
  /\ Records(w, step, e) /\ Goto(w, next) /\ UNCHANGED <<active, held, seen>>

-----------------------------------------------------------------------------
(* Calls to Google *)

\* before_request: artifact_by_id raises, and ends the handler, unless the
\* artifact still verifies.
Verify(w) ==
  /\ pc[w] \in CallStep /\ ~cleared[w] /\ op[w] \in usable
  /\ cleared' = [cleared EXCEPT ![w] = TRUE]
  /\ UNCHANGED <<catalog, usable, token, awaiting, active, pc, op, file,
                 retrying, held, seen, google, faults, overrun>>

\* Mutant: one verification serves all calls of a handler.
CallOnceVerified(w) ==
  /\ cleared[w] /\ UNCHANGED cleared
  /\ overrun' = IF op[w] \in usable THEN overrun
                ELSE [overrun EXCEPT ![op[w]] = @ + 1]

Call(w) ==
  /\ cleared[w] /\ cleared' = [cleared EXCEPT ![w] = FALSE]
  /\ overrun' = IF op[w] \in usable THEN overrun
                ELSE [overrun EXCEPT ![op[w]] = @ + 1]

Calls(w, step) ==
  /\ pc[w] = step /\ Call(w)
  /\ UNCHANGED <<catalog, usable, awaiting, active, op, retrying>>

\* Where a handler goes when what it looks for is not there; when Drive
\* refuses, fails or its answer proves nothing; and when all is well.
Absent(w) == Goto(w, "pending") /\ UNCHANGED <<file, seen, faults>>
Fails(w)  == Goto(w, "pending") /\ Fault /\ UNCHANGED <<file, seen>>
Answers(w, next) == Goto(w, next) /\ UNCHANGED <<file, seen, faults>>

\* A retry uses the recorded identifiers, an upload those it has just got.
RemoteObject(w, kind) ==
  [artifact |-> op[w], kind |-> kind,
   id |-> IF retrying[w] THEN reserved[op[w]] ELSE held[w]]

Confirmed(w, next) ==
  /\ seen' = [seen EXCEPT ![w] = @ \cup {file[w]}]
  /\ Goto(w, next) /\ UNCHANGED <<file, faults>>

-----------------------------------------------------------------------------
(* request_backup, complete_authorization, deny_authorization *)

Enter(w, a, step, retries) ==
  /\ pc[w] = "idle" /\ a \notin active
  /\ active' = active \cup {a}
  /\ op' = [op EXCEPT ![w] = a] /\ Goto(w, step)
  /\ retrying' = [retrying EXCEPT ![w] = retries]
  /\ file' = [file EXCEPT ![w] = "docx"]
  /\ seen' = [seen EXCEPT ![w] = {}] /\ held' = [held EXCEPT ![w] = 0]
  /\ cleared' = [cleared EXCEPT ![w] = FALSE]
  /\ UNCHANGED <<events, reserved, usable, token, google, faults, overrun>>

\* create_operation: the row is made once for an artifact.
CreateOperation(a) == operations' = operations \cup {a}

\* Mutant: the operation is entered before its row is committed.
RequestUncommitted(a) ==
  /\ a \in usable /\ Status(a) = "not_requested"
  /\ Enter(Loop, a, "requested", FALSE) /\ UNCHANGED <<operations, awaiting>>

\* An operation row may be there already, if no event follows it.
RequestBackup(a) ==
  /\ a \in usable /\ Status(a) = "not_requested"
  /\ CreateOperation(a)
  /\ Enter(Loop, a, "requested", FALSE) /\ UNCHANGED awaiting

RecordRequested(w) ==
  /\ pc[w] = "requested" /\ Append(w, "requested") /\ Goto(w, "token")
  /\ UNCHANGED <<operations, reserved, usable, token, awaiting, active, op, file,
                 retrying, held, cleared, seen, google, faults, overrun>>

\* A consent gets a state of its own, which the callback takes out first, so
\* that it serves once.
Begin(a) == awaiting' = awaiting \cup {a}

Consume(a) == a \in awaiting /\ awaiting' = awaiting \ {a}

\* The callback of a consent, with its code or with access_denied.
CompleteAuthorization(w, a) ==
  /\ w \in Callback /\ Consume(a)
  /\ Enter(w, a, "exchange", FALSE) /\ UNCHANGED operations

DenyAuthorization(a) ==
  /\ Consume(a)
  /\ \/ /\ a \in usable /\ Allowed(a, "authorization_denied")
        /\ events' = [events EXCEPT ![a] = @ \cup {"authorization_denied"}]
     \/ UNCHANGED events         \* the state expired, or the artifact did
  /\ UNCHANGED <<operations, reserved, usable, token, active, handler, google, faults,
                 overrun>>

\* The code is exchanged for a refresh token, which replaces the stored one.
ExchangeCode(w) ==
  /\ Calls(w, "exchange") /\ Answers(w, "grant")
  /\ lastGrant' = lastGrant + 1 /\ grants' = grants \cup {lastGrant'}
  /\ token' = lastGrant'
  /\ UNCHANGED <<held, remote, late, lastId>>

RecordGranted(w) ==
  /\ RecordsAnd(w, "grant", "authorization_granted", "reserve")
  /\ UNCHANGED <<reserved, file>>

\* access_token: the stored token, if there is one, is refreshed.
LoadToken(w) ==
  /\ pc[w] = "token"
  /\ held' = [held EXCEPT ![w] = token]
  /\ Goto(w, IF token # 0 THEN "refresh"
             ELSE IF retrying[w] THEN "expire" ELSE "require")
  /\ UNCHANGED <<catalog, usable, token, awaiting, active, op, file, retrying,
                 cleared, seen, google, faults, overrun>>

RefreshToken(w) ==
  /\ Calls(w, "refresh")
  /\ Answers(w, IF held[w] \notin grants THEN "forget"
                ELSE IF retrying[w] THEN "find_folder" ELSE "reserve")
  /\ UNCHANGED <<token, held, grants, lastGrant, remote, late, lastId>>

\* invalid_grant: whatever the keychain holds by now is deleted.
ForgetToken(w) ==
  /\ pc[w] = "forget" /\ token' = 0 /\ Goto(w, "expire")
  /\ UNCHANGED <<catalog, usable, awaiting, active, op, file, retrying, held,
                 cleared, seen, google, faults, overrun>>

\* The request, or the retry, ends: the owner is sent to Google, or told that
\* the permission is gone.  The state is of use once the owner has the address,
\* after the event.
RecordRequired(w) ==
  /\ pc[w] = "require" /\ Append(w, "authorization_required") /\ Leave(w)
  /\ Begin(op[w])
  /\ UNCHANGED <<operations, reserved, usable, token, op, file, retrying, held,
                 cleared, seen, google, faults, overrun>>
RecordExpired(w) ==
  /\ pc[w] = "expire" /\ Append(w, "permission_expired") /\ Leave(w)
  /\ UNCHANGED <<operations, reserved, usable, token, awaiting, op, file,
                 retrying, held, cleared, seen, google, faults, overrun>>

-----------------------------------------------------------------------------
(* _upload_pair, which runs once for an operation *)

\* Mutant: the folder is created before its identifier is recorded.
IdsUsedFirst(w) ==
  /\ Calls(w, "reserve")
  /\ lastId' = lastId + 1
  /\ held' = [held EXCEPT ![w] = lastId'] /\ Answers(w, "folder")
  /\ UNCHANGED <<token, grants, lastGrant, remote, late>>

GenerateIds(w) ==
  /\ Calls(w, "reserve")
  /\ \/ /\ lastId' = lastId + 1
        /\ held' = [held EXCEPT ![w] = lastId'] /\ Answers(w, "record_ids")
     \/ Fails(w) /\ UNCHANGED <<held, lastId>>
  /\ UNCHANGED <<token, grants, lastGrant, remote, late>>

RecordIds(w) ==
  /\ RecordsAnd(w, "record_ids", "ids_reserved", "folder")
  /\ reserved' = [reserved EXCEPT ![op[w]] = held[w]] /\ UNCHANGED file

\* The folder may be there although the answer does not say so.
CreateFolder(w) ==
  /\ Calls(w, "folder")
  /\ \/ /\ remote' = remote \cup {RemoteObject(w, "folder")}
        /\ Answers(w, "record_folder") \/ Fails(w)
     \/ Fails(w) /\ UNCHANGED remote
  /\ UNCHANGED <<token, held, grants, lastGrant, late, lastId>>

RecordFolder(w) ==
  /\ RecordsAnd(w, "record_folder", "folder_verified", "upload")
  /\ UNCHANGED <<reserved, file>>

\* upload_verified_file: an upload session is opened, which Drive refuses if
\* the identifier is taken; the file is sent; when an answer is lost, or the
\* service fails, the handler looks.
OpenUpload(w) ==
  /\ Calls(w, "upload")
  /\ \/ /\ RemoteObject(w, file[w]) \notin remote
        /\ Answers(w, "put")
     \/ RemoteObject(w, file[w]) \in remote /\ Absent(w)
     \/ Goto(w, "lookup") /\ Fault /\ UNCHANGED <<file, seen>>
     \/ Fails(w)
  /\ UNCHANGED <<token, held, grants, lastGrant, remote, late, lastId>>

PutFile(w) ==
  /\ Calls(w, "put")
  /\ \/ /\ remote' = remote \cup {RemoteObject(w, file[w])}
        /\ Confirmed(w, "record_file") /\ UNCHANGED late
     \/ \* no answer: stored, or to be stored, or not
        /\ \/ remote' = remote \cup {RemoteObject(w, file[w])} /\ UNCHANGED late
           \/ late' = late \cup {RemoteObject(w, file[w])} /\ UNCHANGED remote
           \/ UNCHANGED <<remote, late>>
        /\ Goto(w, "lookup") /\ Fault /\ UNCHANGED <<file, seen>>
     \/ Fails(w) /\ UNCHANGED <<remote, late>>
  /\ UNCHANGED <<token, held, grants, lastGrant, lastId>>

\* _reconcile_uncertain_upload
LookUp(w) ==
  /\ Calls(w, "lookup")
  /\ \/ RemoteObject(w, file[w]) \in remote /\ Confirmed(w, "record_file")
     \/ RemoteObject(w, file[w]) \notin remote /\ Absent(w)
     \/ Fails(w)
  /\ UNCHANGED <<token, held, grants, lastGrant, remote, late, lastId>>

\* The next file, or the end.  A retry looks before it uploads.
NextFile(w) ==
  IF file[w] = "docx"
  THEN /\ file' = [file EXCEPT ![w] = "pdf"]
       /\ Goto(w, IF retrying[w] THEN "find_file" ELSE "upload")
  ELSE Goto(w, "complete") /\ UNCHANGED file

RecordFile(w) ==
  /\ Records(w, "record_file", file[w]) /\ NextFile(w)
  /\ UNCHANGED <<reserved, active, held, seen>>

RecordCompleted(w) ==
  /\ Records(w, "complete", "completed") /\ Leave(w)
  /\ UNCHANGED <<reserved, file, held, seen>>

\* _pending
RecordPending(w) ==
  /\ Records(w, "pending", "pending") /\ Leave(w)
  /\ UNCHANGED <<reserved, file, held, seen>>

-----------------------------------------------------------------------------
(* retry_backup *)

\* Mutant: a backup is retried whatever its status.
RetryableRegardless(a) == events[a] # {} /\ "completed" \notin events[a]

Retryable(a) == Status(a) = "pending"

RetryBackup(a) ==
  /\ a \in operations /\ a \in usable /\ Retryable(a)
  /\ Enter(Loop, a, "token", TRUE) /\ UNCHANGED <<operations, awaiting>>

\* Without recorded identifiers nothing can be found.
FindFolder(w) ==
  \/ /\ Calls(w, "find_folder") /\ reserved[op[w]] # 0
     /\ \/ /\ RemoteObject(w, "folder") \in remote
           /\ Answers(w, "find_file")
        \/ RemoteObject(w, "folder") \notin remote /\ Absent(w)
        \/ Fails(w)
     /\ UNCHANGED <<token, held, grants, lastGrant, remote, late, lastId>>
  \/ /\ pc[w] = "find_folder" /\ reserved[op[w]] = 0 /\ Absent(w)
     /\ UNCHANGED <<catalog, usable, token, awaiting, active, op, retrying, held,
                    cleared, google, overrun>>

\* The files whose identifiers the view shows.
VerifiedFiles(a) == events[a] \cap File

\* Mutant: a file verified once is not looked for again.
RecordedFileSkipped(w) ==
  /\ pc[w] = "find_file" /\ file[w] \in VerifiedFiles(op[w])
  /\ NextFile(w)
  /\ UNCHANGED <<catalog, usable, token, awaiting, active, op, retrying, held,
                 cleared, seen, google, faults, overrun>>

\* A file verified before must still be there; another is uploaded only if it
\* is not there already.
RecordedFileFound(w) ==
  /\ Calls(w, "find_file") /\ file[w] \in VerifiedFiles(op[w])
  /\ RemoteObject(w, file[w]) \in remote
  /\ seen' = [seen EXCEPT ![w] = @ \cup {file[w]}] /\ NextFile(w)
  /\ UNCHANGED <<faults, token, held, grants, lastGrant, remote, late, lastId>>

\* Mutant: a retry only looks, and never uploads what is missing.
FindOnly(w) ==
  /\ Calls(w, "find_file")
  /\ \/ /\ file[w] \notin VerifiedFiles(op[w])
        /\ RemoteObject(w, file[w]) \in remote
        /\ Confirmed(w, "record_file")
     \/ RemoteObject(w, file[w]) \notin remote /\ Absent(w)
     \/ Fails(w)
  /\ UNCHANGED <<token, held, grants, lastGrant, remote, late, lastId>>

FindFile(w) ==
  /\ Calls(w, "find_file")
  /\ \/ /\ file[w] \notin VerifiedFiles(op[w])
        /\ RemoteObject(w, file[w]) \in remote
        /\ Confirmed(w, "record_file")
     \/ /\ file[w] \notin VerifiedFiles(op[w])
        /\ RemoteObject(w, file[w]) \notin remote
        /\ Answers(w, "upload")
     \/ file[w] \in VerifiedFiles(op[w]) /\ RemoteObject(w, file[w]) \notin remote /\ Absent(w)
     \/ Fails(w)
  /\ UNCHANGED <<token, held, grants, lastGrant, remote, late, lastId>>

-----------------------------------------------------------------------------
(* Failures, and what happens around the handlers *)

\* An exception other than DriveApiError: of the catalog, of the keychain, of
\* the artifact's verification, of the order of events.
Raise(w) ==
  /\ pc[w] # "idle" /\ Leave(w)
  /\ \/ Fault
     \/ UNCHANGED faults /\ op[w] \notin usable
     \/ UNCHANGED faults /\ pc[w] = "record_file" /\ ~Allowed(op[w], file[w])
  /\ UNCHANGED <<catalog, usable, token, awaiting, op, file, retrying, held,
                 cleared, seen, google, overrun>>

Crash ==
  /\ Fault
  /\ pc' = [w \in Worker |-> "idle"] /\ awaiting' = {} /\ active' = {}
  /\ UNCHANGED <<catalog, usable, token, op, file, retrying, held, cleared,
                 seen, google, overrun>>

\* The authorization of fifteen minutes ends, or facts, grant or files change.
Drift(a) ==
  /\ a \in usable /\ usable' = usable \ {a}
  /\ UNCHANGED <<catalog, token, awaiting, active, handler, google, faults, overrun>>

\* The owner withdraws the permission at Google.
Revoke(g) ==
  /\ g \in grants /\ grants' = grants \ {g}
  /\ UNCHANGED <<catalog, usable, token, awaiting, active, handler, lastGrant,
                 remote, late, lastId, faults, overrun>>

\* An upload whose answer was lost arrives; Drive refuses a taken identifier.
ArriveLate(o) ==
  /\ o \in late /\ late' = late \ {o} /\ remote' = remote \cup {o}
  /\ UNCHANGED <<catalog, usable, token, awaiting, active, handler, grants,
                 lastGrant, lastId, faults, overrun>>

\* The owner deletes an object on Drive.
Lose(o) ==
  /\ Fault /\ o \in remote /\ remote' = remote \ {o}
  /\ UNCHANGED <<catalog, usable, token, awaiting, active, handler, grants,
                 lastGrant, late, lastId, overrun>>

Work(w) ==
  \/ Verify(w) \/ RecordRequested(w)
  \/ ExchangeCode(w) \/ RecordGranted(w)
  \/ LoadToken(w) \/ RefreshToken(w) \/ ForgetToken(w)
  \/ RecordRequired(w) \/ RecordExpired(w)
  \/ GenerateIds(w) \/ RecordIds(w) \/ CreateFolder(w) \/ RecordFolder(w)
  \/ OpenUpload(w) \/ PutFile(w) \/ LookUp(w) \/ RecordFile(w)
  \/ RecordCompleted(w) \/ RecordPending(w)
  \/ FindFolder(w) \/ RecordedFileFound(w) \/ FindFile(w)

Next ==
  \/ \E w \in Worker : Work(w) \/ Raise(w)
  \/ \E a \in Artifact :
       \/ RequestBackup(a) \/ RetryBackup(a)
       \/ \E w \in Callback : CompleteAuthorization(w, a)
       \/ DenyAuthorization(a) \/ Drift(a)
  \/ \E g \in grants : Revoke(g)
  \/ \E o \in remote \cup late : ArriveLate(o) \/ Lose(o)
  \/ Crash

Spec == Init /\ [][Next]_vars

\* A handler that has begun goes on: no step waits for anything, and Drive
\* answers or the transport times out.  The owner retries for as long as a
\* retry is offered.
FairSpec ==
  /\ Spec
  /\ \A w \in Worker : WF_vars(Work(w) \/ Raise(w))
  /\ \A a \in Artifact : SF_vars(RetryBackup(a))

-----------------------------------------------------------------------------
(* Properties *)

\* A backup is reported complete only if the handler that says so had both
\* files confirmed by Drive itself: a retry does not rely on what an earlier
\* attempt recorded, which the owner may have deleted since.
CompletionIsFresh ==
  [][\A a \in Artifact :
       "completed" \in events'[a] \ events[a] =>
         \E w \in Worker : op[w] = a /\ File \subseteq seen[w]]_vars

\* Every object that a backup has put on Drive, or that may still arrive there,
\* has the identifiers recorded for it: whatever is lost or crashes, a retry
\* finds it, and there is never a second copy of a file.
ObjectsAreRecorded ==
  \A o \in remote \cup late : o.id # 0 /\ o.id = reserved[o.artifact]

\* Once the authorization of an artifact ends, or its facts change, the backup
\* makes at most the one call for which it was already verified.
AtMostOneCallAfterDrift == \A a \in Artifact : overrun[a] <= 1

\* A backup that is complete stays so, and a permission that was refused or
\* withdrawn is not asked for again behind the owner's back.
FinalStatusStays ==
  [][\A a \in Artifact :
       Status(a) \in {"backed_up", "permission_expired"} =>
         Status(a)' = Status(a)]_vars

\* A backup that failed with its folder verified, and had that recorded as
\* pending, is completed by retries, unless the artifact ends, the permission
\* does, or an object is deleted.
RetriesFinish ==
  \A a \in Artifact :
    ("folder_verified" \in events[a] /\ "pending" \in events[a]) ~>
      \/ Status(a) \in {"backed_up", "permission_expired"}
      \/ a \notin usable
      \/ \E kind \in (events[a] \cap File) \cup {"folder"} :
           [artifact |-> a, kind |-> kind, id |-> reserved[a]] \notin remote

\* Does not hold: any backup whose folder is verified is completed, unless as above.
\* One that dies without having recorded a failure counts as waiting for a sign-in,
\* which neither a retry nor another request may touch.
VerifiedBackupsFinish ==
  \A a \in Artifact :
    "folder_verified" \in events[a] ~>
      \/ Status(a) \in {"backed_up", "permission_expired"}
      \/ a \notin usable
      \/ \E kind \in (events[a] \cap File) \cup {"folder"} :
           [artifact |-> a, kind |-> kind, id |-> reserved[a]] \notin remote
=============================================================================

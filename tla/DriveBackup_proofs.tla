-------------------------- MODULE DriveBackup_proofs --------------------------
(***************************************************************************)
(* Proofs about DriveBackup, for any artifacts, callbacks and faults: all  *)
(* its safety properties hold of the specification.                        *)
(*                                                                         *)
(* No two handlers work on one artifact (Exclusive), so what a handler     *)
(* knows of the artifact it works on (Knows: its history, its identifiers, *)
(* the files it had confirmed) is disturbed by none but itself (Frame,     *)
(* OthersKnow).  A consent under way belongs to a backup that has no       *)
(* identifiers yet and that no handler works on (Consents), so identifiers *)
(* are recorded once for an artifact.                                      *)
(***************************************************************************)
EXTENDS DriveBackup, TLAPS

Busy(w) == pc[w] # "idle"

\* What a step of handler w leaves alone: other handlers, other artifacts.
Frame(w) ==
  /\ Busy(w)
  /\ UNCHANGED <<operations, usable, op, retrying>>
  /\ \A v \in Worker \ {w} :
       /\ pc'[v] = pc[v] /\ file'[v] = file[v] /\ held'[v] = held[v]
       /\ cleared'[v] = cleared[v] /\ seen'[v] = seen[v]
  /\ \A a \in Artifact \ {op[w]} :
       events'[a] = events[a] /\ reserved'[a] = reserved[a] /\ overrun'[a] = overrun[a]
  /\ active' = active \/ (active' = active \ {op[w]} /\ pc'[w] = "idle")

LEMMA FrameStep ==
  ASSUME TypeOK, NEW w \in Worker, Work(w) \/ Raise(w)
  PROVE  Frame(w)
<1>0. /\ pc \in [Worker -> Step] /\ op \in [Worker -> Artifact] /\ op[w] \in Artifact
      /\ file \in [Worker -> File] /\ held \in [Worker -> Nat] /\ cleared \in [Worker -> BOOLEAN]
      /\ seen \in [Worker -> SUBSET File] /\ events \in [Artifact -> SUBSET Event]
      /\ reserved \in [Artifact -> Nat] /\ overrun \in [Artifact -> Nat]
  BY DEF TypeOK
<1> USE DEF Frame, Busy
<1>1. CASE Verify(w)
  BY <1>0, <1>1 DEF Verify, Goto, catalog, google, CallStep
<1>2. CASE RecordRequested(w)
  BY <1>0, <1>2 DEF RecordRequested, Goto, Append, google
<1>3. CASE ExchangeCode(w)
  BY <1>0, <1>3 DEF ExchangeCode, Goto, Calls, Call, Answers, Fails, Fault, catalog
<1>4. CASE RecordGranted(w)
  BY <1>0, <1>4 DEF RecordGranted, Goto, Records, Append, google, RecordsAnd
<1>5. CASE LoadToken(w)
  BY <1>0, <1>5 DEF LoadToken, Goto, catalog, google
<1>6. CASE RefreshToken(w)
  BY <1>0, <1>6 DEF RefreshToken, Goto, Calls, Call, Answers, Fails, Fault, catalog
<1>7. CASE ForgetToken(w)
  BY <1>0, <1>7 DEF ForgetToken, Goto, catalog, google
<1>8. CASE RecordRequired(w)
  BY <1>0, <1>8 DEF RecordRequired, Goto, Append, google, Leave, Begin
<1>9. CASE RecordExpired(w)
  BY <1>0, <1>9 DEF RecordExpired, Goto, Append, google, Leave
<1>10. CASE GenerateIds(w)
  BY <1>0, <1>10 DEF GenerateIds, Goto, Calls, Call, Answers, Fails, Fault, catalog
<1>11. CASE RecordIds(w)
  BY <1>0, <1>11 DEF RecordIds, Goto, Records, Append, google, RecordsAnd
<1>12. CASE CreateFolder(w)
  BY <1>0, <1>12 DEF CreateFolder, Goto, Calls, Call, Answers, Fails, Fault, catalog
<1>13. CASE RecordFolder(w)
  BY <1>0, <1>13 DEF RecordFolder, Goto, Records, Append, google, RecordsAnd
<1>14. CASE OpenUpload(w)
  BY <1>0, <1>14 DEF OpenUpload, Goto, Calls, Call, Answers, Fails, Fault, catalog,
     Absent
<1>15. CASE PutFile(w)
  BY <1>0, <1>15 DEF PutFile, Goto, Calls, Call, Answers, Fails, Fault, catalog,
     Confirmed
<1>16. CASE LookUp(w)
  BY <1>0, <1>16 DEF LookUp, Goto, Calls, Call, Answers, Fails, Fault, catalog, Absent,
     Confirmed
<1>17. CASE RecordFile(w)
  BY <1>0, <1>17 DEF RecordFile, Goto, Records, Append, google, NextFile
<1>18. CASE RecordCompleted(w)
  BY <1>0, <1>18 DEF RecordCompleted, Goto, Records, Append, google, Leave
<1>19. CASE RecordPending(w)
  BY <1>0, <1>19 DEF RecordPending, Goto, Records, Append, google, Leave
<1>20. CASE FindFolder(w)
  BY <1>0, <1>20 DEF FindFolder, Goto, Calls, Call, Answers, Fails, Fault, catalog,
     Absent, google
<1>21. CASE RecordedFileFound(w)
  BY <1>0, <1>21 DEF RecordedFileFound, Goto, Calls, Call, Answers, Fails, Fault,
     catalog, NextFile
<1>22. CASE FindFile(w)
  BY <1>0, <1>22 DEF FindFile, Goto, Calls, Call, Answers, Fails, Fault, catalog,
     Absent, Confirmed
<1>23. CASE Raise(w)
  BY <1>0, <1>23 DEF Raise, Leave, Goto, catalog, google
<1> QED
  BY <1>1, <1>2, <1>3, <1>4, <1>5, <1>6, <1>7, <1>8, <1>9, <1>10, <1>11, <1>12, <1>13,
     <1>14, <1>15, <1>16, <1>17, <1>18, <1>19, <1>20, <1>21, <1>22, <1>23 DEF Work

LEMMA WorkType ==
  ASSUME TypeOK, NEW w \in Worker, op[w] \in operations, Work(w) \/ Raise(w)
  PROVE  TypeOK'
<1>0. /\ op[w] \in Artifact /\ file[w] \in File /\ held[w] \in Nat /\ reserved[op[w]] \in Nat
      /\ lastId \in Nat /\ lastGrant \in Nat /\ faults \in Nat
      /\ \A kind \in File \cup {"folder"} : RemoteObject(w, kind) \in Object
  BY DEF TypeOK, RemoteObject, Object
<1> USE DEF TypeOK
<1>1. CASE Verify(w)
  BY <1>0, <1>1 DEF Verify, Goto, catalog, google, CallStep, Step, CallStep, File, Event
<1>2. CASE RecordRequested(w)
  BY <1>0, <1>2 DEF RecordRequested, Goto, Append, google, Step, CallStep, File, Event
<1>3. CASE ExchangeCode(w)
  BY <1>0, <1>3 DEF ExchangeCode, Goto, Calls, Call, Answers, Fails, Fault, catalog,
     Step, CallStep, File, Event
<1>4. CASE RecordGranted(w)
  BY <1>0, <1>4 DEF RecordGranted, Goto, Records, Append, google, RecordsAnd, Step,
     CallStep, File, Event
<1>5. CASE LoadToken(w)
  BY <1>0, <1>5 DEF LoadToken, Goto, catalog, google, Step, CallStep, File, Event
<1>6. CASE RefreshToken(w)
  BY <1>0, <1>6 DEF RefreshToken, Goto, Calls, Call, Answers, Fails, Fault, catalog,
     Step, CallStep, File, Event
<1>7. CASE ForgetToken(w)
  BY <1>0, <1>7 DEF ForgetToken, Goto, catalog, google, Step, CallStep, File, Event
<1>8. CASE RecordRequired(w)
  BY <1>0, <1>8 DEF RecordRequired, Goto, Append, google, Leave, Begin, Step, CallStep,
     File, Event
<1>9. CASE RecordExpired(w)
  BY <1>0, <1>9 DEF RecordExpired, Goto, Append, google, Leave, Step, CallStep, File,
     Event
<1>10. CASE GenerateIds(w)
  BY <1>0, <1>10 DEF GenerateIds, Goto, Calls, Call, Answers, Fails, Fault, catalog,
     Step, CallStep, File, Event
<1>11. CASE RecordIds(w)
  BY <1>0, <1>11 DEF RecordIds, Goto, Records, Append, google, RecordsAnd, Step,
     CallStep, File, Event
<1>12. CASE CreateFolder(w)
  BY <1>0, <1>12 DEF CreateFolder, Goto, Calls, Call, Answers, Fails, Fault, catalog,
     Step, CallStep, File, Event
<1>13. CASE RecordFolder(w)
  BY <1>0, <1>13 DEF RecordFolder, Goto, Records, Append, google, RecordsAnd, Step,
     CallStep, File, Event
<1>14. CASE OpenUpload(w)
  BY <1>0, <1>14 DEF OpenUpload, Goto, Calls, Call, Answers, Fails, Fault, catalog,
     Absent, Step, CallStep, File, Event
<1>15. CASE PutFile(w)
  BY <1>0, <1>15 DEF PutFile, Goto, Calls, Call, Answers, Fails, Fault, catalog,
     Confirmed, Step, CallStep, File, Event
<1>16. CASE LookUp(w)
  BY <1>0, <1>16 DEF LookUp, Goto, Calls, Call, Answers, Fails, Fault, catalog, Absent,
     Confirmed, Step, CallStep, File, Event
<1>17. CASE RecordFile(w)
  BY <1>0, <1>17 DEF RecordFile, Goto, Records, Append, google, NextFile, Step,
     CallStep, File, Event
<1>18. CASE RecordCompleted(w)
  BY <1>0, <1>18 DEF RecordCompleted, Goto, Records, Append, google, Leave, Step,
     CallStep, File, Event
<1>19. CASE RecordPending(w)
  BY <1>0, <1>19 DEF RecordPending, Goto, Records, Append, google, Leave, Step,
     CallStep, File, Event
<1>20. CASE FindFolder(w)
  <2>1. /\ pc' = [pc EXCEPT ![w] = "find_file"] \/ pc' = [pc EXCEPT ![w] = "upload"]
           \/ pc' = [pc EXCEPT ![w] = "pending"] \/ pc' = [pc EXCEPT ![w] = "record_file"]
        /\ seen' = seen \/ seen' = [seen EXCEPT ![w] = @ \cup {file[w]}]
        /\ faults' = faults \/ faults' = faults + 1
    BY <1>20 DEF FindFolder, Goto, Calls, Call, Answers, Fails, Fault, catalog, Absent,
       google
  <2>2. /\ cleared' = cleared \/ cleared' = [cleared EXCEPT ![w] = FALSE]
        /\ overrun' = overrun \/ overrun' = [overrun EXCEPT ![op[w]] = @ + 1]
    BY <1>20 DEF FindFolder, Goto, Calls, Call, Answers, Fails, Fault, catalog, Absent,
       google
  <2>3. UNCHANGED <<operations, events, reserved, usable, token, awaiting, active, op, file,
                    retrying, held, grants, lastGrant, remote, late, lastId>>
    BY <1>20 DEF FindFolder, Goto, Calls, Call, Answers, Fails, Fault, catalog, Absent,
       google
  <2>4. pc' \in [Worker -> Step]
    BY <2>1 DEF Step, CallStep
  <2>5. seen' \in [Worker -> SUBSET File] /\ faults' \in Nat
    BY <1>0, <2>1
  <2>6. cleared' \in [Worker -> BOOLEAN]
    BY <2>2
  <2>7. overrun' \in [Artifact -> Nat]
    <3>1. overrun[op[w]] + 1 \in Nat
      BY <1>0
    <3> QED
      BY <2>2, <3>1
  <2> QED
    BY <2>3, <2>4, <2>5, <2>6, <2>7
<1>21. CASE RecordedFileFound(w)
  BY <1>0, <1>21 DEF RecordedFileFound, Goto, Calls, Call, Answers, Fails, Fault,
     catalog, NextFile, Step, CallStep, File, Event
<1>22. CASE FindFile(w)
  <2>1. /\ pc' = [pc EXCEPT ![w] = "find_file"] \/ pc' = [pc EXCEPT ![w] = "upload"]
           \/ pc' = [pc EXCEPT ![w] = "pending"] \/ pc' = [pc EXCEPT ![w] = "record_file"]
        /\ seen' = seen \/ seen' = [seen EXCEPT ![w] = @ \cup {file[w]}]
        /\ faults' = faults \/ faults' = faults + 1
    BY <1>22 DEF FindFile, Goto, Calls, Call, Answers, Fails, Fault, catalog, Absent,
       Confirmed
  <2>2. /\ cleared' = cleared \/ cleared' = [cleared EXCEPT ![w] = FALSE]
        /\ overrun' = overrun \/ overrun' = [overrun EXCEPT ![op[w]] = @ + 1]
    BY <1>22 DEF FindFile, Goto, Calls, Call, Answers, Fails, Fault, catalog, Absent,
       Confirmed
  <2>3. UNCHANGED <<operations, events, reserved, usable, token, awaiting, active, op, file,
                    retrying, held, grants, lastGrant, remote, late, lastId>>
    BY <1>22 DEF FindFile, Goto, Calls, Call, Answers, Fails, Fault, catalog, Absent,
       Confirmed
  <2>4. pc' \in [Worker -> Step]
    BY <2>1 DEF Step, CallStep
  <2>5. seen' \in [Worker -> SUBSET File] /\ faults' \in Nat
    BY <1>0, <2>1
  <2>6. cleared' \in [Worker -> BOOLEAN]
    BY <2>2
  <2>7. overrun' \in [Artifact -> Nat]
    <3>1. overrun[op[w]] + 1 \in Nat
      BY <1>0
    <3> QED
      BY <2>2, <3>1
  <2> QED
    BY <2>3, <2>4, <2>5, <2>6, <2>7
<1>23. CASE Raise(w)
  <2>1. /\ pc' = [pc EXCEPT ![w] = "idle"] /\ active' = active \ {op[w]}
        /\ faults' = faults \/ faults' = faults + 1
    BY <1>23 DEF Raise, Leave, Goto, catalog, google, Fault
  <2>2. UNCHANGED <<operations, events, reserved, usable, token, awaiting, op, file, retrying,
                    held, cleared, seen, grants, lastGrant, remote, late, lastId,
                    overrun>>
    BY <1>23 DEF Raise, Leave, Goto, catalog, google, Fault
  <2>3. pc' \in [Worker -> Step]
    BY <2>1 DEF Step
  <2> QED
    BY <1>0, <2>1, <2>2, <2>3
<1> QED
  BY <1>1, <1>2, <1>3, <1>4, <1>5, <1>6, <1>7, <1>8, <1>9, <1>10, <1>11, <1>12, <1>13,
     <1>14, <1>15, <1>16, <1>17, <1>18, <1>19, <1>20, <1>21, <1>22, <1>23 DEF Work

-----------------------------------------------------------------------------
(* One handler at a time works on an artifact *)

Exclusive ==
  /\ \A w \in Worker : Busy(w) => op[w] \in active
  /\ \A v, w \in Worker : v # w /\ Busy(v) /\ Busy(w) => op[v] # op[w]

\* A handler begins.
Begins(w, a, step, retries) ==
  /\ a \notin active /\ a \in operations' /\ operations \subseteq operations'
  /\ operations' \subseteq Artifact
  /\ step \in {"requested", "exchange", "token"}
  /\ awaiting' \subseteq awaiting
  /\ Enter(w, a, step, retries)

LEMMA BeginStep ==
  ASSUME TypeOK, NEW a \in Artifact,
         RequestBackup(a) \/ RetryBackup(a) \/ \E w \in Callback : CompleteAuthorization(w, a)
  PROVE  \E w \in Worker, step \in Step, retries \in BOOLEAN : Begins(w, a, step, retries)
<1>1. CASE RequestBackup(a)
  <2>1. Begins(Loop, a, "requested", FALSE)
    BY <1>1 DEF RequestBackup, CreateOperation, Begins, Enter, TypeOK
  <2> QED
    BY <2>1 DEF Worker, Step
<1>2. CASE RetryBackup(a)
  <2>1. Begins(Loop, a, "token", TRUE)
    BY <1>2 DEF RetryBackup, Begins, Enter, TypeOK
  <2> QED
    BY <2>1 DEF Worker, Step
<1>3. ASSUME NEW w \in Callback, CompleteAuthorization(w, a)
      PROVE  Begins(w, a, "exchange", FALSE)
  BY <1>3 DEF CompleteAuthorization, Consume, Begins, Enter, TypeOK
<1> QED
  BY <1>1, <1>2, <1>3 DEF Worker, Step, CallStep

LEMMA BeginEffect ==
  ASSUME TypeOK, NEW w \in Worker, NEW a \in Artifact, NEW step \in Step,
         NEW retries \in BOOLEAN, Begins(w, a, step, retries)
  PROVE  /\ ~Busy(w) /\ pc'[w] = step /\ op'[w] = a /\ retrying'[w] = retries
         /\ file'[w] = "docx" /\ seen'[w] = {} /\ held'[w] = 0 /\ ~cleared'[w]
         /\ \A v \in Worker \ {w} :
              /\ pc'[v] = pc[v] /\ op'[v] = op[v] /\ retrying'[v] = retrying[v]
              /\ file'[v] = file[v] /\ seen'[v] = seen[v] /\ held'[v] = held[v]
              /\ cleared'[v] = cleared[v]
         /\ active' = active \cup {a}
         /\ UNCHANGED <<events, reserved, usable, token, google, faults, overrun>>
BY DEF Begins, Enter, Goto, TypeOK, Busy

LEMMA BeginType ==
  ASSUME TypeOK, NEW w \in Worker, NEW a \in Artifact, NEW step \in Step,
         NEW retries \in BOOLEAN, Begins(w, a, step, retries)
  PROVE  TypeOK'
BY DEF Begins, Enter, Goto, TypeOK, File, google

\* What is neither a step of a handler nor its beginning.
Around ==
  \/ \E a \in Artifact : DenyAuthorization(a) \/ Drift(a)
  \/ \E g \in grants : Revoke(g)
  \/ \E o \in remote \cup late : ArriveLate(o) \/ Lose(o)
  \/ Crash \/ UNCHANGED vars

LEMMA Steps ==
  ASSUME TypeOK, [Next]_vars
  PROVE  \/ \E w \in Worker : Work(w) \/ Raise(w)
         \/ \E w \in Worker, a \in Artifact, step \in Step, retries \in BOOLEAN :
              Begins(w, a, step, retries)
         \/ Around
<1>1. ASSUME NEW a \in Artifact,
             RequestBackup(a) \/ RetryBackup(a) \/ \E w \in Callback : CompleteAuthorization(w, a)
      PROVE  \E w \in Worker, step \in Step, retries \in BOOLEAN : Begins(w, a, step,
      retries)
  BY <1>1, BeginStep
<1> QED
  BY <1>1 DEF Next, Around

LEMMA AroundType ==
  ASSUME TypeOK, Around
  PROVE  TypeOK'
<1>1. ASSUME NEW a \in Artifact, DenyAuthorization(a) PROVE TypeOK'
  <2>1. events' \in [Artifact -> SUBSET Event] /\ awaiting' \subseteq awaiting
    BY <1>1 DEF DenyAuthorization, Consume, TypeOK, Event
  <2> QED
    BY <1>1, <2>1 DEF DenyAuthorization, TypeOK, handler, google
<1>2. ASSUME NEW a \in Artifact, Drift(a) PROVE TypeOK'
  BY <1>2 DEF Drift, TypeOK, catalog, handler, google
<1>3. ASSUME NEW g \in grants, Revoke(g) PROVE TypeOK'
  BY <1>3 DEF Revoke, TypeOK, catalog, handler
<1>4. ASSUME NEW o \in remote \cup late, ArriveLate(o) \/ Lose(o) PROVE TypeOK'
  <2>1. /\ remote \subseteq Object /\ late \subseteq Object /\ faults \in Nat
    BY DEF TypeOK
  <2>2. remote' \subseteq Object /\ late' \subseteq Object /\ faults' \in Nat
    BY <1>4, <2>1 DEF ArriveLate, Lose, Fault
  <2>3. UNCHANGED <<catalog, usable, token, awaiting, active, handler, grants, lastGrant,
                    lastId, overrun>>
    BY <1>4 DEF ArriveLate, Lose
  <2> QED
    BY <2>2, <2>3 DEF TypeOK, catalog, handler
<1>5. CASE Crash
  BY <1>5 DEF Crash, Fault, TypeOK, catalog, google, Step
<1>6. CASE UNCHANGED vars
  BY <1>6 DEF vars, TypeOK, catalog, handler, google
<1> QED
  BY <1>1, <1>2, <1>3, <1>4, <1>5, <1>6 DEF Around

\* Around a handler nothing but a crash moves it.
LEMMA AroundHandlers ==
  ASSUME Around
  PROVE  \/ UNCHANGED <<handler, active>>
         \/ Crash
BY DEF Around, DenyAuthorization, Drift, Revoke, ArriveLate, Lose, vars

LEMMA ExclusiveStep ==
  ASSUME TypeOK, Exclusive, [Next]_vars
  PROVE  TypeOK' /\ Exclusive'
<1>1. ASSUME NEW w \in Worker, Work(w) \/ Raise(w) PROVE TypeOK' /\ Exclusive'
  <2>1. Frame(w)
    BY <1>1, FrameStep
  <2>2. op[w] \in operations
    BY <2>1 DEF Frame, Exclusive, TypeOK
  <2>3. \A v \in Worker : Busy(v)' => Busy(v) /\ op'[v] = op[v]
    BY <2>1 DEF Frame, Busy
  <2>4. Exclusive'
    BY <2>1, <2>3 DEF Frame, Exclusive, Busy
  <2> QED
    BY <1>1, <2>2, <2>4, WorkType
<1>2. ASSUME NEW w \in Worker, NEW a \in Artifact, NEW step \in Step,
             NEW retries \in BOOLEAN, Begins(w, a, step, retries)
      PROVE  TypeOK' /\ Exclusive'
  <2>1. \A v \in Worker \ {w} : (Busy(v)' <=> Busy(v)) /\ op'[v] = op[v]
    BY <1>2, BeginEffect DEF Busy
  <2>2. op'[w] = a /\ active' = active \cup {a} /\ a \notin active
    BY <1>2, BeginEffect DEF Begins
  <2>3. Exclusive'
    BY <2>1, <2>2 DEF Exclusive
  <2> QED
    BY <1>2, <2>3, BeginType
<1>3. CASE Around
  <2>1. CASE UNCHANGED <<handler, active>>
    BY <1>3, <2>1, AroundType DEF Exclusive, Busy, handler
  <2>2. CASE Crash
    BY <1>3, <2>2, AroundType DEF Exclusive, Busy, Crash
  <2> QED
    BY <1>3, <2>1, <2>2, AroundType, AroundHandlers
<1> QED
  BY <1>1, <1>2, <1>3, Steps

-----------------------------------------------------------------------------
(* What a handler knows *)

Final == {"completed", "permission_expired", "authorization_denied"}

\* The history of the artifact it works on.
History(w) ==
  /\ events[op[w]] \cap Final = {}
  /\ pc[w] = "requested" => events[op[w]] = {}
  /\ ~retrying[w] /\ pc[w] \in {"token", "refresh", "require"} => events[op[w]] = {"requested"}

\* The identifiers it uploads with: a backup gets them once, before it has any.
Ids(w) ==
  /\ retrying[w] => pc[w] \notin {"requested", "require", "exchange", "grant", "reserve",
                                  "record_ids", "folder", "record_folder"}
  /\ ~retrying[w] => pc[w] \notin {"find_folder", "find_file"}
  /\ pc[w] = "record_ids" => held[w] # 0
  /\ ~retrying[w] /\ pc[w] \in {"requested", "token", "refresh", "require", "exchange",
                                "grant", "reserve", "record_ids"} =>
       reserved[op[w]] = 0
  /\ ~retrying[w] /\ pc[w] \in {"folder", "record_folder", "upload", "put", "lookup",
                                "record_file"} =>
       held[w] = reserved[op[w]] /\ reserved[op[w]] # 0
  /\ retrying[w] /\ pc[w] \in {"find_file", "upload", "put", "lookup", "record_file"} =>
       reserved[op[w]] # 0

\* The files it has had confirmed.
Confirmations(w) ==
  /\ file[w] = "pdf" => "docx" \in seen[w]
  /\ pc[w] = "record_file" => file[w] \in seen[w]
  /\ pc[w] = "complete" => File \subseteq seen[w]

Cleared(w) == cleared[w] => overrun[op[w]] = 0

Knows(w) == Busy(w) => History(w) /\ Ids(w) /\ Confirmations(w) /\ Cleared(w)

\* A consent under way belongs to a backup that has only asked for it.
Consents ==
  \A a \in awaiting :
    /\ events[a] = {"requested", "authorization_required"}
    /\ \A w \in Worker : Busy(w) => op[w] # a

IdsAreEvents == \A a \in Artifact : reserved[a] # 0 => "ids_reserved" \in events[a]

Overruns == AtMostOneCallAfterDrift /\ \A a \in usable : overrun[a] = 0

BackupInv ==
  /\ TypeOK /\ Exclusive
  /\ \A w \in Worker : Knows(w)
  /\ Consents /\ IdsAreEvents /\ Overruns /\ ObjectsAreRecorded

-----------------------------------------------------------------------------
(* A step of a handler *)

LEMMA OthersKnow ==
  ASSUME TypeOK, Exclusive, NEW w \in Worker, Frame(w), NEW v \in Worker \ {w}, Knows(v)
  PROVE  Knows(v)'
<1> SUFFICES ASSUME Busy(v)' PROVE (History(v) /\ Ids(v) /\ Confirmations(v) /\ Cleared(v))'
  BY DEF Knows
<1>1. /\ pc'[v] = pc[v] /\ file'[v] = file[v] /\ held'[v] = held[v] /\ op'[v] = op[v]
      /\ cleared'[v] = cleared[v] /\ seen'[v] = seen[v] /\ retrying'[v] = retrying[v]
  BY DEF Frame
<1>2. Busy(v) /\ Busy(w) /\ op[v] \in Artifact \ {op[w]}
  BY <1>1 DEF Exclusive, TypeOK, Busy, Frame
<1>3. /\ events'[op[v]] = events[op[v]] /\ reserved'[op[v]] = reserved[op[v]]
      /\ overrun'[op[v]] = overrun[op[v]]
  BY <1>2 DEF Frame
<1> QED
  BY <1>1, <1>2, <1>3 DEF Knows, History, Ids, Confirmations, Cleared

LEMMA HistoryStep ==
  ASSUME TypeOK, NEW w \in Worker, History(w), Ids(w), Work(w) \/ Raise(w), Busy(w)'
  PROVE  History(w)'
<1>0. /\ pc \in [Worker -> Step] /\ op[w] \in Artifact /\ events \in [Artifact -> SUBSET Event]
      /\ file[w] \in File
  BY DEF TypeOK
<1> USE DEF History, Final, File, Busy
<1>1. CASE Verify(w)
  BY <1>0, <1>1 DEF Verify, Goto, catalog, google, CallStep, CallStep
<1>2. CASE RecordRequested(w)
  BY <1>0, <1>2 DEF RecordRequested, Goto, Append, google, CallStep
<1>3. CASE ExchangeCode(w)
  BY <1>0, <1>3 DEF ExchangeCode, Goto, Calls, Call, Answers, Fails, Fault, catalog,
     CallStep
<1>4. CASE RecordGranted(w)
  BY <1>0, <1>4 DEF RecordGranted, Goto, Records, Append, google, RecordsAnd, CallStep
<1>5. CASE LoadToken(w)
  BY <1>0, <1>5 DEF LoadToken, Goto, catalog, google, CallStep
<1>6. CASE RefreshToken(w)
  BY <1>0, <1>6 DEF RefreshToken, Goto, Calls, Call, Answers, Fails, Fault, catalog,
     CallStep
<1>7. CASE ForgetToken(w)
  BY <1>0, <1>7 DEF ForgetToken, Goto, catalog, google, CallStep
<1>8. CASE RecordRequired(w)
  BY <1>0, <1>8 DEF RecordRequired, Goto, Append, google, Leave, Begin, CallStep
<1>9. CASE RecordExpired(w)
  BY <1>0, <1>9 DEF RecordExpired, Goto, Append, google, Leave, CallStep
<1>10. CASE GenerateIds(w)
  BY <1>0, <1>10 DEF GenerateIds, Goto, Calls, Call, Answers, Fails, Fault, catalog,
     CallStep
<1>11. CASE RecordIds(w)
  BY <1>0, <1>11 DEF RecordIds, Goto, Records, Append, google, RecordsAnd, CallStep
<1>12. CASE CreateFolder(w)
  BY <1>0, <1>12 DEF CreateFolder, Goto, Calls, Call, Answers, Fails, Fault, catalog,
     CallStep
<1>13. CASE RecordFolder(w)
  BY <1>0, <1>13 DEF RecordFolder, Goto, Records, Append, google, RecordsAnd, CallStep
<1>14. CASE OpenUpload(w)
  BY <1>0, <1>14 DEF OpenUpload, Goto, Calls, Call, Answers, Fails, Fault, catalog,
     Absent, CallStep
<1>15. CASE PutFile(w)
  BY <1>0, <1>15 DEF PutFile, Goto, Calls, Call, Answers, Fails, Fault, catalog,
     Confirmed, CallStep
<1>16. CASE LookUp(w)
  BY <1>0, <1>16 DEF LookUp, Goto, Calls, Call, Answers, Fails, Fault, catalog, Absent,
     Confirmed, CallStep
<1>17. CASE RecordFile(w)
  BY <1>0, <1>17 DEF RecordFile, Goto, Records, Append, google, NextFile, CallStep
<1>18. CASE RecordCompleted(w)
  BY <1>0, <1>18 DEF RecordCompleted, Goto, Records, Append, google, Leave, CallStep
<1>19. CASE RecordPending(w)
  BY <1>0, <1>19 DEF RecordPending, Goto, Records, Append, google, Leave, CallStep
<1>20. CASE FindFolder(w)
  BY <1>0, <1>20 DEF FindFolder, Goto, Calls, Call, Answers, Fails, Fault, catalog,
     Absent, google, CallStep
<1>21. CASE RecordedFileFound(w)
  BY <1>0, <1>21 DEF RecordedFileFound, Goto, Calls, Call, Answers, Fails, Fault,
     catalog, NextFile, CallStep
<1>22. CASE FindFile(w)
  BY <1>0, <1>22 DEF FindFile, Goto, Calls, Call, Answers, Fails, Fault, catalog,
     Absent, Confirmed, CallStep
<1>23. CASE Raise(w)
  BY <1>0, <1>23 DEF Raise, Leave, Goto, catalog, google, CallStep
<1> QED
  BY <1>1, <1>2, <1>3, <1>4, <1>5, <1>6, <1>7, <1>8, <1>9, <1>10, <1>11, <1>12, <1>13,
     <1>14, <1>15, <1>16, <1>17, <1>18, <1>19, <1>20, <1>21, <1>22, <1>23 DEF Work

LEMMA IdsStep ==
  ASSUME TypeOK, NEW w \in Worker, Ids(w), Work(w) \/ Raise(w), Busy(w)'
  PROVE  Ids(w)'
<1>0. /\ pc \in [Worker -> Step] /\ op[w] \in Artifact /\ reserved \in [Artifact -> Nat]
      /\ held \in [Worker -> Nat] /\ retrying[w] \in BOOLEAN /\ lastId \in Nat
  BY DEF TypeOK
<1> USE DEF Ids, Busy
<1>1. CASE Verify(w)
  BY <1>0, <1>1 DEF Verify, Goto, catalog, google, CallStep
<1>2. CASE RecordRequested(w)
  BY <1>0, <1>2 DEF RecordRequested, Goto, Append, google
<1>3. CASE ExchangeCode(w)
  BY <1>0, <1>3 DEF ExchangeCode, Goto, Calls, Call, Answers, Fails, Fault, catalog
<1>4. CASE RecordGranted(w)
  BY <1>0, <1>4 DEF RecordGranted, Goto, Records, Append, google, RecordsAnd
<1>5. CASE LoadToken(w)
  BY <1>0, <1>5 DEF LoadToken, Goto, catalog, google
<1>6. CASE RefreshToken(w)
  BY <1>0, <1>6 DEF RefreshToken, Goto, Calls, Call, Answers, Fails, Fault, catalog
<1>7. CASE ForgetToken(w)
  BY <1>0, <1>7 DEF ForgetToken, Goto, catalog, google
<1>8. CASE RecordRequired(w)
  BY <1>0, <1>8 DEF RecordRequired, Goto, Append, google, Leave, Begin
<1>9. CASE RecordExpired(w)
  BY <1>0, <1>9 DEF RecordExpired, Goto, Append, google, Leave
<1>10. CASE GenerateIds(w)
  BY <1>0, <1>10 DEF GenerateIds, Goto, Calls, Call, Answers, Fails, Fault, catalog
<1>11. CASE RecordIds(w)
  BY <1>0, <1>11 DEF RecordIds, Goto, Records, Append, google, RecordsAnd
<1>12. CASE CreateFolder(w)
  BY <1>0, <1>12 DEF CreateFolder, Goto, Calls, Call, Answers, Fails, Fault, catalog
<1>13. CASE RecordFolder(w)
  BY <1>0, <1>13 DEF RecordFolder, Goto, Records, Append, google, RecordsAnd
<1>14. CASE OpenUpload(w)
  BY <1>0, <1>14 DEF OpenUpload, Goto, Calls, Call, Answers, Fails, Fault, catalog,
     Absent
<1>15. CASE PutFile(w)
  BY <1>0, <1>15 DEF PutFile, Goto, Calls, Call, Answers, Fails, Fault, catalog,
     Confirmed
<1>16. CASE LookUp(w)
  BY <1>0, <1>16 DEF LookUp, Goto, Calls, Call, Answers, Fails, Fault, catalog, Absent,
     Confirmed
<1>17. CASE RecordFile(w)
  BY <1>0, <1>17 DEF RecordFile, Goto, Records, Append, google, NextFile
<1>18. CASE RecordCompleted(w)
  BY <1>0, <1>18 DEF RecordCompleted, Goto, Records, Append, google, Leave
<1>19. CASE RecordPending(w)
  BY <1>0, <1>19 DEF RecordPending, Goto, Records, Append, google, Leave
<1>20. CASE FindFolder(w)
  BY <1>0, <1>20 DEF FindFolder, Goto, Calls, Call, Answers, Fails, Fault, catalog,
     Absent, google
<1>21. CASE RecordedFileFound(w)
  BY <1>0, <1>21 DEF RecordedFileFound, Goto, Calls, Call, Answers, Fails, Fault,
     catalog, NextFile
<1>22. CASE FindFile(w)
  BY <1>0, <1>22 DEF FindFile, Goto, Calls, Call, Answers, Fails, Fault, catalog,
     Absent, Confirmed
<1>23. CASE Raise(w)
  BY <1>0, <1>23 DEF Raise, Leave, Goto, catalog, google
<1> QED
  BY <1>1, <1>2, <1>3, <1>4, <1>5, <1>6, <1>7, <1>8, <1>9, <1>10, <1>11, <1>12, <1>13,
     <1>14, <1>15, <1>16, <1>17, <1>18, <1>19, <1>20, <1>21, <1>22, <1>23 DEF Work

LEMMA ConfirmationsStep ==
  ASSUME TypeOK, NEW w \in Worker, Confirmations(w), Work(w) \/ Raise(w), Busy(w)'
  PROVE  Confirmations(w)'
<1>0. /\ pc \in [Worker -> Step] /\ file \in [Worker -> File] /\ seen \in [Worker -> SUBSET File]
  BY DEF TypeOK
<1> USE DEF Confirmations, File, Busy
<1>1. CASE Verify(w)
  BY <1>0, <1>1 DEF Verify, Goto, catalog, google, CallStep
<1>2. CASE RecordRequested(w)
  BY <1>0, <1>2 DEF RecordRequested, Goto, Append, google
<1>3. CASE ExchangeCode(w)
  BY <1>0, <1>3 DEF ExchangeCode, Goto, Calls, Call, Answers, Fails, Fault, catalog
<1>4. CASE RecordGranted(w)
  BY <1>0, <1>4 DEF RecordGranted, Goto, Records, Append, google, RecordsAnd
<1>5. CASE LoadToken(w)
  BY <1>0, <1>5 DEF LoadToken, Goto, catalog, google
<1>6. CASE RefreshToken(w)
  BY <1>0, <1>6 DEF RefreshToken, Goto, Calls, Call, Answers, Fails, Fault, catalog
<1>7. CASE ForgetToken(w)
  BY <1>0, <1>7 DEF ForgetToken, Goto, catalog, google
<1>8. CASE RecordRequired(w)
  BY <1>0, <1>8 DEF RecordRequired, Goto, Append, google, Leave, Begin
<1>9. CASE RecordExpired(w)
  BY <1>0, <1>9 DEF RecordExpired, Goto, Append, google, Leave
<1>10. CASE GenerateIds(w)
  BY <1>0, <1>10 DEF GenerateIds, Goto, Calls, Call, Answers, Fails, Fault, catalog
<1>11. CASE RecordIds(w)
  BY <1>0, <1>11 DEF RecordIds, Goto, Records, Append, google, RecordsAnd
<1>12. CASE CreateFolder(w)
  BY <1>0, <1>12 DEF CreateFolder, Goto, Calls, Call, Answers, Fails, Fault, catalog
<1>13. CASE RecordFolder(w)
  BY <1>0, <1>13 DEF RecordFolder, Goto, Records, Append, google, RecordsAnd
<1>14. CASE OpenUpload(w)
  BY <1>0, <1>14 DEF OpenUpload, Goto, Calls, Call, Answers, Fails, Fault, catalog,
     Absent
<1>15. CASE PutFile(w)
  BY <1>0, <1>15 DEF PutFile, Goto, Calls, Call, Answers, Fails, Fault, catalog,
     Confirmed
<1>16. CASE LookUp(w)
  BY <1>0, <1>16 DEF LookUp, Goto, Calls, Call, Answers, Fails, Fault, catalog, Absent,
     Confirmed
<1>17. CASE RecordFile(w)
  BY <1>0, <1>17 DEF RecordFile, Goto, Records, Append, google, NextFile
<1>18. CASE RecordCompleted(w)
  BY <1>0, <1>18 DEF RecordCompleted, Goto, Records, Append, google, Leave
<1>19. CASE RecordPending(w)
  BY <1>0, <1>19 DEF RecordPending, Goto, Records, Append, google, Leave
<1>20. CASE FindFolder(w)
  BY <1>0, <1>20 DEF FindFolder, Goto, Calls, Call, Answers, Fails, Fault, catalog,
     Absent, google
<1>21. CASE RecordedFileFound(w)
  BY <1>0, <1>21 DEF RecordedFileFound, Goto, Calls, Call, Answers, Fails, Fault,
     catalog, NextFile
<1>22. CASE FindFile(w)
  BY <1>0, <1>22 DEF FindFile, Goto, Calls, Call, Answers, Fails, Fault, catalog,
     Absent, Confirmed
<1>23. CASE Raise(w)
  BY <1>0, <1>23 DEF Raise, Leave, Goto, catalog, google
<1> QED
  BY <1>1, <1>2, <1>3, <1>4, <1>5, <1>6, <1>7, <1>8, <1>9, <1>10, <1>11, <1>12, <1>13,
     <1>14, <1>15, <1>16, <1>17, <1>18, <1>19, <1>20, <1>21, <1>22, <1>23 DEF Work

\* What a step does to the rest.
LEMMA Effects ==
  ASSUME TypeOK, NEW w \in Worker, Work(w) \/ Raise(w)
  PROVE  /\ reserved' = reserved \/ RecordIds(w)
         /\ events[op[w]] \subseteq events'[op[w]]
         /\ awaiting' = awaiting \/ RecordRequired(w)
         /\ (remote' = remote /\ late' = late) \/ CreateFolder(w) \/ PutFile(w)
         /\ \/ overrun' = overrun /\ (cleared'[w] => cleared[w] \/ op[w] \in usable)
            \/ /\ cleared[w] /\ ~cleared'[w] /\ op[w] \notin usable
               /\ overrun'[op[w]] = overrun[op[w]] + 1
<1>0. /\ op[w] \in Artifact /\ events \in [Artifact -> SUBSET Event]
      /\ cleared \in [Worker -> BOOLEAN] /\ overrun \in [Artifact -> Nat]
  BY DEF TypeOK
<1>1. CASE Verify(w)
  BY <1>0, <1>1 DEF Verify, Goto, catalog, google, CallStep
<1>2. CASE RecordRequested(w)
  BY <1>0, <1>2 DEF RecordRequested, Goto, Append, google
<1>3. CASE ExchangeCode(w)
  BY <1>0, <1>3 DEF ExchangeCode, Goto, Calls, Call, Answers, Fails, Fault, catalog
<1>4. CASE RecordGranted(w)
  BY <1>0, <1>4 DEF RecordGranted, Goto, Records, Append, google, RecordsAnd
<1>5. CASE LoadToken(w)
  BY <1>0, <1>5 DEF LoadToken, Goto, catalog, google
<1>6. CASE RefreshToken(w)
  BY <1>0, <1>6 DEF RefreshToken, Goto, Calls, Call, Answers, Fails, Fault, catalog
<1>7. CASE ForgetToken(w)
  BY <1>0, <1>7 DEF ForgetToken, Goto, catalog, google
<1>8. CASE RecordRequired(w)
  BY <1>0, <1>8 DEF RecordRequired, Goto, Append, google, Leave, Begin
<1>9. CASE RecordExpired(w)
  BY <1>0, <1>9 DEF RecordExpired, Goto, Append, google, Leave
<1>10. CASE GenerateIds(w)
  BY <1>0, <1>10 DEF GenerateIds, Goto, Calls, Call, Answers, Fails, Fault, catalog
<1>11. CASE RecordIds(w)
  BY <1>0, <1>11 DEF RecordIds, Goto, Records, Append, google, RecordsAnd
<1>12. CASE CreateFolder(w)
  BY <1>0, <1>12 DEF CreateFolder, Goto, Calls, Call, Answers, Fails, Fault, catalog
<1>13. CASE RecordFolder(w)
  BY <1>0, <1>13 DEF RecordFolder, Goto, Records, Append, google, RecordsAnd
<1>14. CASE OpenUpload(w)
  BY <1>0, <1>14 DEF OpenUpload, Goto, Calls, Call, Answers, Fails, Fault, catalog,
     Absent
<1>15. CASE PutFile(w)
  BY <1>0, <1>15 DEF PutFile, Goto, Calls, Call, Answers, Fails, Fault, catalog,
     Confirmed
<1>16. CASE LookUp(w)
  BY <1>0, <1>16 DEF LookUp, Goto, Calls, Call, Answers, Fails, Fault, catalog, Absent,
     Confirmed
<1>17. CASE RecordFile(w)
  BY <1>0, <1>17 DEF RecordFile, Goto, Records, Append, google, NextFile
<1>18. CASE RecordCompleted(w)
  BY <1>0, <1>18 DEF RecordCompleted, Goto, Records, Append, google, Leave
<1>19. CASE RecordPending(w)
  BY <1>0, <1>19 DEF RecordPending, Goto, Records, Append, google, Leave
<1>20. CASE FindFolder(w)
  BY <1>0, <1>20 DEF FindFolder, Goto, Calls, Call, Answers, Fails, Fault, catalog,
     Absent, google
<1>21. CASE RecordedFileFound(w)
  BY <1>0, <1>21 DEF RecordedFileFound, Goto, Calls, Call, Answers, Fails, Fault,
     catalog, NextFile
<1>22. CASE FindFile(w)
  BY <1>0, <1>22 DEF FindFile, Goto, Calls, Call, Answers, Fails, Fault, catalog,
     Absent, Confirmed
<1>23. CASE Raise(w)
  BY <1>0, <1>23 DEF Raise, Leave, Goto, catalog, google
<1> QED
  BY <1>1, <1>2, <1>3, <1>4, <1>5, <1>6, <1>7, <1>8, <1>9, <1>10, <1>11, <1>12, <1>13,
     <1>14, <1>15, <1>16, <1>17, <1>18, <1>19, <1>20, <1>21, <1>22, <1>23 DEF Work

LEMMA OverrunsStep ==
  ASSUME TypeOK, NEW w \in Worker, Knows(w), Overruns, Work(w) \/ Raise(w)
  PROVE  Overruns' /\ (Busy(w)' => Cleared(w)')
<1>1. Frame(w) /\ op[w] \in Artifact /\ cleared[w] \in BOOLEAN
  BY FrameStep DEF TypeOK
<1>2. CASE overrun' = overrun /\ (cleared'[w] => cleared[w] \/ op[w] \in usable)
  BY <1>1, <1>2 DEF Frame, Overruns, AtMostOneCallAfterDrift, Knows, Cleared
<1>3. CASE /\ cleared[w] /\ ~cleared'[w] /\ op[w] \notin usable
           /\ overrun'[op[w]] = overrun[op[w]] + 1
  <2>1. overrun[op[w]] = 0 /\ overrun'[op[w]] = 1
    BY <1>1, <1>3 DEF Frame, Knows, Cleared
  <2>2. \A a \in Artifact \ {op[w]} : overrun'[a] = overrun[a]
    BY <1>1 DEF Frame
  <2>3. usable' = usable /\ op[w] \notin usable /\ usable \subseteq Artifact
    BY <1>1, <1>3 DEF Frame, TypeOK
  <2> QED
    BY <1>1, <1>3, <2>1, <2>2, <2>3 DEF Overruns, AtMostOneCallAfterDrift, Cleared
<1> QED
  BY <1>2, <1>3, Effects

LEMMA ConsentsStep ==
  ASSUME TypeOK, Exclusive, NEW w \in Worker, Knows(w), Consents, Work(w) \/ Raise(w)
  PROVE  Consents'
<1>1. /\ Frame(w) /\ op[w] \in Artifact /\ op' = op
      /\ \A v \in Worker : Busy(v)' => Busy(v)
  BY FrameStep DEF TypeOK, Frame, Busy
<1>2. ASSUME NEW a \in awaiting
      PROVE  /\ events'[a] = {"requested", "authorization_required"}
             /\ \A v \in Worker : Busy(v)' => op'[v] # a
  BY <1>1 DEF Consents, Frame, TypeOK
<1>3. CASE RecordRequired(w)
  <2>1. events[op[w]] = {"requested"}
    BY <1>1, <1>3 DEF Knows, History, Ids, RecordRequired, Frame, TypeOK
  <2>2. /\ events'[op[w]] = {"requested", "authorization_required"}
        /\ awaiting' = awaiting \cup {op[w]} /\ ~Busy(w)'
    BY <1>1, <1>3, <2>1 DEF RecordRequired, Append, Leave, Goto, Begin, TypeOK, Busy
  <2>3. \A v \in Worker : Busy(v)' => op'[v] # op[w]
    BY <1>1, <2>2 DEF Exclusive, Frame
  <2> QED
    BY <1>2, <2>2, <2>3 DEF Consents
<1> QED
  BY <1>2, <1>3, Effects DEF Consents

LEMMA RecordsStep ==
  ASSUME TypeOK, NEW w \in Worker, Knows(w), IdsAreEvents, ObjectsAreRecorded,
         Work(w) \/ Raise(w)
  PROVE  IdsAreEvents' /\ ObjectsAreRecorded'
<1>1. /\ Frame(w) /\ Busy(w) /\ op[w] \in Artifact /\ events[op[w]] \subseteq events'[op[w]]
      /\ remote \cup late \subseteq Object
  BY FrameStep, Effects DEF TypeOK, Frame
<1>2. \A o \in remote \cup late : o.artifact \in Artifact
  BY <1>1 DEF Object
<1>3. CASE RecordIds(w)
  <2>1. /\ reserved[op[w]] = 0 /\ reserved'[op[w]] = held[w] /\ held[w] # 0
        /\ "ids_reserved" \in events'[op[w]] /\ UNCHANGED <<remote, late>>
    BY <1>1, <1>3 DEF RecordIds, RecordsAnd, Records, Append, Knows, Ids, TypeOK, google
  <2>2. \A o \in remote \cup late : o.artifact # op[w]
    BY <2>1 DEF ObjectsAreRecorded
  <2> QED
    BY <1>1, <1>2, <2>1, <2>2 DEF IdsAreEvents, ObjectsAreRecorded, Frame
<1>4. CASE reserved' = reserved
  <2>1. IdsAreEvents'
    BY <1>1, <1>4 DEF IdsAreEvents, Frame
  <2>2. CASE CreateFolder(w) \/ PutFile(w)
    <3>1. /\ pc[w] \in {"folder", "put"} /\ retrying[w] \in BOOLEAN
          /\ pc[w] = "folder" => ~retrying[w]
      BY <1>1, <2>2 DEF CreateFolder, PutFile, Calls, Knows, Ids, TypeOK
    <3>2. ASSUME NEW kind
          PROVE  /\ RemoteObject(w, kind).id = reserved[op[w]] /\ reserved[op[w]] # 0
                 /\ RemoteObject(w, kind).artifact = op[w]
      BY <1>1, <3>1 DEF RemoteObject, Knows, Ids
    <3>3. remote' \cup late' \subseteq
            (remote \cup late) \cup {RemoteObject(w, kind) : kind \in {"folder",
            file[w]}}
      BY <2>2 DEF CreateFolder, PutFile
    <3> QED
      BY <1>4, <2>1, <3>2, <3>3 DEF ObjectsAreRecorded
  <2> QED
    BY <1>4, <2>1, <2>2, Effects DEF ObjectsAreRecorded
<1> QED
  BY <1>3, <1>4, Effects

LEMMA HandlerStep ==
  ASSUME BackupInv, NEW w \in Worker, Work(w) \/ Raise(w)
  PROVE  BackupInv'
<1>1. TypeOK /\ Exclusive /\ Knows(w) /\ Frame(w) /\ Busy(w)
  BY FrameStep DEF BackupInv, Frame
<1>2. TypeOK' /\ Exclusive'
  BY <1>1, ExclusiveStep DEF Next
<1>3. Overruns' /\ Consents' /\ IdsAreEvents' /\ ObjectsAreRecorded'
  BY OverrunsStep, ConsentsStep, RecordsStep DEF BackupInv
<1>4. Knows(w)'
  <2> SUFFICES ASSUME Busy(w)' PROVE (History(w) /\ Ids(w) /\ Confirmations(w) /\ Cleared(w))'
    BY DEF Knows
  <2>1. History(w) /\ Ids(w) /\ Confirmations(w)
    BY <1>1 DEF Knows
  <2> QED
    BY <1>1, <2>1, HistoryStep, IdsStep, ConfirmationsStep, OverrunsStep DEF BackupInv
<1>5. \A v \in Worker \ {w} : Knows(v)'
  BY <1>1, OthersKnow DEF BackupInv
<1> QED
  BY <1>2, <1>3, <1>4, <1>5 DEF BackupInv

-----------------------------------------------------------------------------
(* What happens around the handlers *)

\* A backup is asked for when it has no history, and a consent ends while
\* nothing else works on it.
LEMMA BeginsKnowing ==
  ASSUME BackupInv, NEW a \in Artifact,
         RequestBackup(a) \/ RetryBackup(a) \/ \E w \in Callback : CompleteAuthorization(w, a)
  PROVE  BackupInv'
<1>1. /\ TypeOK /\ Exclusive /\ Consents /\ IdsAreEvents
      /\ TypeOK' /\ Exclusive'
  BY ExclusiveStep DEF BackupInv, Next
<1>2. ASSUME NEW w \in Worker, NEW step \in Step, NEW retries \in BOOLEAN,
             Begins(w, a, step, retries),
             events[a] \cap Final = {},
             \/ step = "requested" /\ ~retries /\ events[a] = {}
             \/ step = "token" /\ retries
             \/ step = "exchange" /\ ~retries /\ reserved[a] = 0,
             a \notin awaiting'
      PROVE  BackupInv'
  <2>1. /\ pc'[w] = step /\ op'[w] = a /\ retrying'[w] = retries
        /\ file'[w] = "docx" /\ seen'[w] = {} /\ ~cleared'[w]
        /\ UNCHANGED <<events, reserved, usable, overrun, remote, late>>
    BY <1>1, <1>2, BeginEffect DEF google
  <2>2. reserved[a] = 0 \/ retries
    BY <1>1, <1>2 DEF IdsAreEvents
  <2>3. Knows(w)'
    BY <1>2, <2>1, <2>2 DEF Knows, History, Ids, Confirmations, Cleared
  <2>4. ASSUME NEW v \in Worker \ {w} PROVE Knows(v)'
    <3>1. /\ pc'[v] = pc[v] /\ op'[v] = op[v] /\ retrying'[v] = retrying[v]
          /\ file'[v] = file[v] /\ seen'[v] = seen[v] /\ held'[v] = held[v]
          /\ cleared'[v] = cleared[v]
      BY <1>1, <1>2, BeginEffect
    <3>2. Knows(v)
      BY DEF BackupInv
    <3> QED
      BY <2>1, <3>1, <3>2 DEF Knows, Busy, History, Ids, Confirmations, Cleared
  <2>5. Consents'
    <3>1. awaiting' \subseteq awaiting
      BY <1>2 DEF Begins
    <3>2. \A v \in Worker \ {w} : (Busy(v)' <=> Busy(v)) /\ op'[v] = op[v]
      BY <1>1, <1>2, BeginEffect DEF Busy
    <3> QED
      BY <1>1, <1>2, <2>1, <3>1, <3>2 DEF Consents
  <2>6. IdsAreEvents' /\ Overruns' /\ ObjectsAreRecorded'
    BY <2>1 DEF BackupInv, IdsAreEvents, Overruns, AtMostOneCallAfterDrift,
       ObjectsAreRecorded
  <2> QED
    BY <1>1, <2>3, <2>4, <2>5, <2>6 DEF BackupInv
<1>3. CASE RequestBackup(a)
  <2>1. events[a] = {} /\ events[a] \cap Final = {}
    BY <1>3 DEF RequestBackup, Status
  <2>2. Begins(Loop, a, "requested", FALSE) /\ awaiting' = awaiting
    BY <1>1, <1>3 DEF RequestBackup, CreateOperation, Begins, Enter, TypeOK
  <2>3. a \notin awaiting
    <3> SUFFICES ASSUME a \in awaiting PROVE FALSE
      OBVIOUS
    <3>1. "requested" \in events[a]
      BY <1>1 DEF Consents
    <3> QED
      BY <2>1, <3>1
  <2> QED
    BY <1>2, <2>1, <2>2, <2>3 DEF Worker, Step
<1>4. CASE RetryBackup(a)
  <2>1. events[a] \cap Final = {} /\ Status(a) = "pending"
    BY <1>4 DEF RetryBackup, Retryable, Status, Final
  <2>2. a \notin awaiting
    BY <1>1, <2>1 DEF Consents, Status
  <2>3. Begins(Loop, a, "token", TRUE) /\ a \notin awaiting'
    BY <1>1, <1>4, <2>2 DEF RetryBackup, Begins, Enter, TypeOK
  <2> QED
    BY <1>2, <2>1, <2>3 DEF Worker, Step
<1>5. ASSUME NEW w \in Callback, CompleteAuthorization(w, a) PROVE BackupInv'
  <2>1. a \in awaiting /\ a \notin awaiting'
    BY <1>5 DEF CompleteAuthorization, Consume
  <2>2. events[a] = {"requested", "authorization_required"}
    BY <1>1, <2>1 DEF Consents
  <2>3. events[a] \cap Final = {} /\ reserved[a] = 0
    BY <1>1, <2>2 DEF Final, IdsAreEvents
  <2>4. Begins(w, a, "exchange", FALSE)
    BY <1>1, <1>5 DEF CompleteAuthorization, Consume, Begins, Enter, TypeOK
  <2> QED
    BY <1>2, <2>1, <2>3, <2>4 DEF Worker, Step, CallStep
<1> QED
  BY <1>3, <1>4, <1>5

LEMMA AroundStep ==
  ASSUME BackupInv, Around
  PROVE  BackupInv'
<1>1. /\ TypeOK /\ Exclusive /\ Consents /\ IdsAreEvents /\ Overruns /\ ObjectsAreRecorded
      /\ \A w \in Worker : Knows(w)
  BY DEF BackupInv
<1>2. TypeOK' /\ Exclusive'
  BY <1>1, ExclusiveStep DEF Around, Next
<1>3. ASSUME UNCHANGED <<handler, events, overrun, reserved>> PROVE \A w \in Worker : Knows(w)'
  BY <1>1, <1>3 DEF handler, Knows, Busy, History, Ids, Confirmations, Cleared
<1>4. ASSUME NEW a \in Artifact, DenyAuthorization(a) PROVE BackupInv'
  <2>1. /\ a \in awaiting /\ awaiting' = awaiting \ {a}
        /\ UNCHANGED <<handler, reserved, usable, overrun, remote, late>>
        /\ \A b \in Artifact \ {a} : events'[b] = events[b]
        /\ events[a] \subseteq events'[a]
    BY <1>1, <1>4 DEF DenyAuthorization, Consume, google, TypeOK
  <2>2. ASSUME NEW w \in Worker, Busy(w) PROVE op[w] \in Artifact \ {a}
    BY <1>1, <2>1, <2>2 DEF Consents, TypeOK
  <2>3. \A w \in Worker : Knows(w)'
    <3> SUFFICES ASSUME NEW w \in Worker, Busy(w)' PROVE Knows(w)'
      BY DEF Knows
    <3>1. Busy(w) /\ events'[op[w]] = events[op[w]]
      BY <2>1, <2>2 DEF handler, Busy
    <3> QED
      BY <1>1, <2>1, <3>1 DEF handler, Knows, Busy, History, Ids, Confirmations, Cleared
  <2>4. Consents'
    BY <1>1, <2>1 DEF Consents, handler, Busy, TypeOK
  <2>5. IdsAreEvents' /\ Overruns' /\ ObjectsAreRecorded'
    BY <1>1, <2>1 DEF IdsAreEvents, Overruns, AtMostOneCallAfterDrift,
       ObjectsAreRecorded
  <2> QED
    BY <1>2, <2>3, <2>4, <2>5 DEF BackupInv
<1>5. ASSUME UNCHANGED <<handler, events, reserved, awaiting, overrun>>,
             usable' \subseteq usable, remote' \cup late' \subseteq remote \cup late
      PROVE  BackupInv'
  <2>1. Consents'
    BY <1>1, <1>5 DEF Consents, handler, Busy
  <2>2. IdsAreEvents' /\ Overruns' /\ ObjectsAreRecorded'
    BY <1>1, <1>5 DEF IdsAreEvents, Overruns, AtMostOneCallAfterDrift,
       ObjectsAreRecorded
  <2> QED
    BY <1>2, <1>3, <1>5, <2>1, <2>2 DEF BackupInv
<1>6. CASE Crash
  <2>1. /\ \A w \in Worker : ~Busy(w)'
        /\ awaiting' = {}
        /\ UNCHANGED <<events, reserved, usable, overrun, remote, late>>
    BY <1>6 DEF Crash, Busy, catalog, google
  <2> QED
    BY <1>1, <1>2, <2>1 DEF BackupInv, Knows, Consents, IdsAreEvents, Overruns,
       AtMostOneCallAfterDrift, ObjectsAreRecorded
<1>7. ASSUME NEW a \in Artifact, Drift(a) PROVE BackupInv'
  BY <1>5, <1>7 DEF Drift, catalog, google
<1>8. ASSUME NEW g \in grants, Revoke(g) PROVE BackupInv'
  BY <1>5, <1>8 DEF Revoke, catalog
<1>9. ASSUME NEW o \in remote \cup late, ArriveLate(o) \/ Lose(o) PROVE BackupInv'
  BY <1>5, <1>9 DEF ArriveLate, Lose, catalog
<1>10. CASE UNCHANGED vars
  BY <1>5, <1>10 DEF vars, catalog, google
<1> QED
  BY <1>4, <1>6, <1>7, <1>8, <1>9, <1>10 DEF Around

LEMMA BackupInit == Init => BackupInv
<1> SUFFICES ASSUME Init PROVE BackupInv
  OBVIOUS
<1>1. TypeOK
  BY DriveAssumption DEF Init, TypeOK, Step, File
<1>2. Exclusive /\ \A w \in Worker : Knows(w)
  BY DEF Init, Exclusive, Busy, Knows
<1>3. Consents /\ IdsAreEvents /\ Overruns /\ ObjectsAreRecorded
  BY DEF Init, Consents, IdsAreEvents, Overruns, AtMostOneCallAfterDrift,
     ObjectsAreRecorded
<1> QED
  BY <1>1, <1>2, <1>3 DEF BackupInv

LEMMA BackupInvariance == Spec => []BackupInv
<1>1. BackupInv /\ [Next]_vars => BackupInv'
  <2> SUFFICES ASSUME BackupInv, [Next]_vars PROVE BackupInv'
    OBVIOUS
  <2> QED
    BY HandlerStep, BeginsKnowing, AroundStep DEF Next, Around
<1> QED
  BY BackupInit, <1>1, PTL DEF Spec

\* Only a handler that has everything confirmed records the completion.
LEMMA CompletionStep ==
  ASSUME TypeOK, NEW w \in Worker, Work(w) \/ Raise(w), NEW a \in Artifact,
         "completed" \in events'[a] \ events[a]
  PROVE  RecordCompleted(w) /\ op[w] = a
<1>0. /\ op[w] \in Artifact /\ events \in [Artifact -> SUBSET Event] /\ file[w] \in File
  BY DEF TypeOK
<1>own. op[w] = a
  BY FrameStep DEF Frame
<1> USE DEF File
<1>1. CASE Verify(w)
  BY <1>0, <1>own, <1>1 DEF Verify, Goto, catalog, google, CallStep
<1>2. CASE RecordRequested(w)
  BY <1>0, <1>own, <1>2 DEF RecordRequested, Goto, Append, google
<1>3. CASE ExchangeCode(w)
  BY <1>0, <1>own, <1>3 DEF ExchangeCode, Goto, Calls, Call, Answers, Fails, Fault,
     catalog
<1>4. CASE RecordGranted(w)
  BY <1>0, <1>own, <1>4 DEF RecordGranted, Goto, Records, Append, google, RecordsAnd
<1>5. CASE LoadToken(w)
  BY <1>0, <1>own, <1>5 DEF LoadToken, Goto, catalog, google
<1>6. CASE RefreshToken(w)
  BY <1>0, <1>own, <1>6 DEF RefreshToken, Goto, Calls, Call, Answers, Fails, Fault,
     catalog
<1>7. CASE ForgetToken(w)
  BY <1>0, <1>own, <1>7 DEF ForgetToken, Goto, catalog, google
<1>8. CASE RecordRequired(w)
  BY <1>0, <1>own, <1>8 DEF RecordRequired, Goto, Append, google, Leave, Begin
<1>9. CASE RecordExpired(w)
  BY <1>0, <1>own, <1>9 DEF RecordExpired, Goto, Append, google, Leave
<1>10. CASE GenerateIds(w)
  BY <1>0, <1>own, <1>10 DEF GenerateIds, Goto, Calls, Call, Answers, Fails, Fault,
     catalog
<1>11. CASE RecordIds(w)
  BY <1>0, <1>own, <1>11 DEF RecordIds, Goto, Records, Append, google, RecordsAnd
<1>12. CASE CreateFolder(w)
  BY <1>0, <1>own, <1>12 DEF CreateFolder, Goto, Calls, Call, Answers, Fails, Fault,
     catalog
<1>13. CASE RecordFolder(w)
  BY <1>0, <1>own, <1>13 DEF RecordFolder, Goto, Records, Append, google, RecordsAnd
<1>14. CASE OpenUpload(w)
  BY <1>0, <1>own, <1>14 DEF OpenUpload, Goto, Calls, Call, Answers, Fails, Fault,
     catalog, Absent
<1>15. CASE PutFile(w)
  BY <1>0, <1>own, <1>15 DEF PutFile, Goto, Calls, Call, Answers, Fails, Fault,
     catalog, Confirmed
<1>16. CASE LookUp(w)
  BY <1>0, <1>own, <1>16 DEF LookUp, Goto, Calls, Call, Answers, Fails, Fault, catalog,
     Absent, Confirmed
<1>17. CASE RecordFile(w)
  BY <1>0, <1>own, <1>17 DEF RecordFile, Goto, Records, Append, google, NextFile
<1>18. CASE RecordCompleted(w)
  BY <1>0, <1>own, <1>18 DEF RecordCompleted, Goto, Records, Append, google, Leave
<1>19. CASE RecordPending(w)
  BY <1>0, <1>own, <1>19 DEF RecordPending, Goto, Records, Append, google, Leave
<1>20. CASE FindFolder(w)
  BY <1>0, <1>own, <1>20 DEF FindFolder, Goto, Calls, Call, Answers, Fails, Fault,
     catalog, Absent, google
<1>21. CASE RecordedFileFound(w)
  BY <1>0, <1>own, <1>21 DEF RecordedFileFound, Goto, Calls, Call, Answers, Fails,
     Fault, catalog, NextFile
<1>22. CASE FindFile(w)
  BY <1>0, <1>own, <1>22 DEF FindFile, Goto, Calls, Call, Answers, Fails, Fault,
     catalog, Absent, Confirmed
<1>23. CASE Raise(w)
  BY <1>0, <1>own, <1>23 DEF Raise, Leave, Goto, catalog, google
<1> QED
  BY <1>1, <1>2, <1>3, <1>4, <1>5, <1>6, <1>7, <1>8, <1>9, <1>10, <1>11, <1>12, <1>13,
     <1>14, <1>15, <1>16, <1>17, <1>18, <1>19, <1>20, <1>21, <1>22, <1>23 DEF Work

-----------------------------------------------------------------------------
(* Theorems *)

\* Every variable of the backup keeps its type; in particular only artifacts
\* with an operation row are awaited or worked on.
THEOREM BackupTypeCorrect == Spec => []TypeOK
BY BackupInvariance, PTL DEF BackupInv

\* Every object on Drive, or still to arrive there, has the identifiers that
\* are recorded for its backup (drive_backup.py, _upload_pair; drive_oauth.py,
\* upload_verified_file).
THEOREM DriveObjectsAreRecorded == Spec => []ObjectsAreRecorded
BY BackupInvariance, PTL DEF BackupInv

\* At most one call to Google is made for an artifact that no longer verifies,
\* whoever works on it (drive_backup.py, before_request).
THEOREM OneCallAfterDrift == Spec => []AtMostOneCallAfterDrift
<1>1. BackupInv => AtMostOneCallAfterDrift
  BY DEF BackupInv, Overruns
<1> QED
  BY BackupInvariance, <1>1, PTL

\* "completed" is recorded by a handler that had both files confirmed itself
\* (drive_backup.py, retry_backup and _upload_pair).
THEOREM CompletionStaysFresh == Spec => CompletionIsFresh
<1>1. ASSUME BackupInv, [Next]_vars, NEW a \in Artifact,
             "completed" \in events'[a] \ events[a]
      PROVE  \E w \in Worker : op[w] = a /\ File \subseteq seen[w]
  <2>1. PICK w \in Worker : RecordCompleted(w) /\ op[w] = a
    <3>1. ASSUME NEW w \in Worker, Work(w) \/ Raise(w)
          PROVE  RecordCompleted(w) /\ op[w] = a
      BY <1>1, <3>1, CompletionStep DEF BackupInv
    <3>2. CASE \E b \in Artifact : RequestBackup(b) \/ RetryBackup(b)
                 \/ (\E w \in Callback : CompleteAuthorization(w,
                 b)) \/ DenyAuthorization(b)
                 \/ Drift(b)
      BY <1>1, <3>2 DEF RequestBackup, RetryBackup, CompleteAuthorization, Enter,
         DenyAuthorization, Drift, catalog, BackupInv, TypeOK
    <3>3. CASE \/ \E g \in grants : Revoke(g)
               \/ \E o \in remote \cup late : ArriveLate(o) \/ Lose(o)
               \/ Crash \/ UNCHANGED vars
      BY <1>1, <3>3 DEF Revoke, ArriveLate, Lose, Crash, vars, catalog
    <3> QED
      BY <1>1, <3>1, <3>2, <3>3 DEF Next
  <2>2. Confirmations(w)
    BY <1>1, <2>1 DEF BackupInv, Knows, Busy, RecordCompleted, Records
  <2> QED
    BY <2>1, <2>2 DEF Confirmations, RecordCompleted, Records
<1>2. BackupInv /\ [Next]_vars =>
        [\A a \in Artifact :
           "completed" \in events'[a] \ events[a] =>
             \E w \in Worker : op[w] = a /\ File \subseteq seen[w]]_vars
  BY <1>1
<1> QED
  BY BackupInvariance, <1>2, PTL DEF Spec, CompletionIsFresh

\* A backup that is complete, or whose permission has ended, stays so
\* (drive_backup.py, _assert_event_order, and status).
THEOREM FinalStatusIsKept == Spec => FinalStatusStays
<1>1. ASSUME BackupInv, [Next]_vars, NEW a \in Artifact, events[a] \cap Final # {}
      PROVE  events'[a] = events[a]
  <2>1. ASSUME NEW w \in Worker, Work(w) \/ Raise(w) PROVE events'[a] = events[a]
    <3>1. Frame(w) /\ Knows(w)
      BY <1>1, <2>1, FrameStep DEF BackupInv
    <3>2. op[w] # a
      BY <1>1, <3>1 DEF Frame, Knows, History
    <3> QED
      BY <3>1, <3>2 DEF Frame
  <2>2. ASSUME NEW b \in Artifact, DenyAuthorization(b) PROVE events'[a] = events[a]
    <3>1. b # a
      BY <1>1, <2>2 DEF DenyAuthorization, Consume, BackupInv, Consents, Final
    <3> QED
      BY <1>1, <2>2, <3>1 DEF DenyAuthorization, BackupInv, TypeOK
  <2>3. CASE \E b \in Artifact : RequestBackup(b) \/ RetryBackup(b)
               \/ (\E w \in Callback : CompleteAuthorization(w, b)) \/ Drift(b)
    BY <2>3 DEF RequestBackup, RetryBackup, CompleteAuthorization, Enter, Drift, catalog
  <2>4. CASE \/ \E g \in grants : Revoke(g)
             \/ \E o \in remote \cup late : ArriveLate(o) \/ Lose(o)
             \/ Crash \/ UNCHANGED vars
    BY <2>4 DEF Revoke, ArriveLate, Lose, Crash, vars, catalog
  <2> QED
    BY <1>1, <2>1, <2>2, <2>3, <2>4 DEF Next
<1>2. ASSUME NEW a \in Artifact, Status(a) \in {"backed_up", "permission_expired"}
      PROVE  events[a] \cap Final # {}
  BY <1>2 DEF Status, Final
<1>3. BackupInv /\ [Next]_vars =>
        [\A a \in Artifact :
           Status(a) \in {"backed_up",
           "permission_expired"} => Status(a)' = Status(a)]_vars
  BY <1>1, <1>2 DEF Status
<1> QED
  BY BackupInvariance, <1>3, PTL DEF Spec, FinalStatusStays
=============================================================================

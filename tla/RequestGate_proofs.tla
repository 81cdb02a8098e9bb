------------------------- MODULE RequestGate_proofs -------------------------
(***************************************************************************)
(* Proofs about RequestGate, for every finite set of requests and every    *)
(* pool.  Types and the request count hold for any number of restorers.    *)
(* That the file is replaced only when drained, and with it that the gate  *)
(* implements VaultAccess, is proved for one restorer at a time: with two  *)
(* of them it does not hold.                                               *)
(***************************************************************************)
EXTENDS RequestGate, FiniteSetTheorems, TLAPS

\* The operator runs one restore at a time.
SingleRestorer == \A o, p \in Restorer : o = p

Users == {r \in Request : Inside(r)}

PcOK ==
  /\ pc \in [Thread -> RequestPc \cup RestorerPc]
  /\ \A r \in Request : pc[r] \in RequestPc
  /\ \A o \in Restorer : pc[o] \in RestorerPc

\* The counter a restore waits for is the number of requests inside.
CountInv == PcOK /\ active = Cardinality(Users)

\* The gate stays closed from the start of a restore to its end, and once the
\* restore went past its wait nobody is inside.
ClosedInv ==
  \A o \in Restorer :
    /\ pc[o] # "idle" => maintenance
    /\ pc[o] \in {"lock", "prepare", "replace", "release"} => active = 0

-----------------------------------------------------------------------------
(* Control state *)

\* Thread t goes to place, and others at most wake up.
Moves(t, place) ==
  /\ pc'[t] = place
  /\ \A u \in Thread : u # t =>
       pc'[u] = pc[u] \/ (pc[u] = "asleep" /\ pc'[u] = "awake")

NobodySleeps == \A t \in Thread : pc[t] # "asleep"

LEMMA Notified ==
  ASSUME PcOK, NEW t \in Thread, NEW place, place # "asleep", GotoAndNotify(t, place)
  PROVE  NobodySleeps'
BY DEF GotoAndNotify, NobodySleeps

LEMMA PlaceTypes ==
  ASSUME PcOK, NEW t \in Thread, NEW place,
         t \in Request => place \in RequestPc,
         t \in Restorer => place \in RestorerPc,
         Goto(t, place) \/ GotoAndNotify(t, place)
  PROVE  PcOK' /\ Moves(t, place)
<1> place \in RequestPc \cup RestorerPc
  BY DEF Thread
<1>1. CASE Goto(t, place)
  <2>1. pc' \in [Thread -> RequestPc \cup RestorerPc]
    BY <1>1 DEF Goto, PcOK
  <2>2. pc'[t] = place /\ \A u \in Thread : u # t => pc'[u] = pc[u]
    BY <1>1 DEF Goto, PcOK
  <2> QED
    BY <2>1, <2>2 DEF PcOK, Moves, Thread
<1>2. CASE GotoAndNotify(t, place)
  <2>1. "awake" \in RequestPc /\ "awake" \in RestorerPc
    BY DEF RequestPc, RestorerPc
  <2>2. pc' \in [Thread -> RequestPc \cup RestorerPc]
    BY <1>2, <2>1 DEF GotoAndNotify, PcOK
  <2>3. Moves(t, place)
    BY <1>2 DEF GotoAndNotify, Moves
  <2> QED
    BY <2>1, <2>2, <2>3 DEF PcOK, Moves, Thread
<1> QED
  BY <1>1, <1>2

LEMMA UsersMove ==
  ASSUME NEW t \in Thread, NEW place, Moves(t, place),
         Request \cap Restorer = {}
  PROVE  Users' = IF t \in Restorer THEN Users
                  ELSE IF place \in {"handle", "body", "lock", "txn", "leave"}
                         THEN Users \cup {t} ELSE Users \ {t}
BY DEF Users, Inside, Moves, Thread

LEMMA UsersFinite == IsFiniteSet(Users) /\ Cardinality(Users) \in Nat
<1>1. Users \in SUBSET Request
  BY DEF Users
<1> QED
  BY <1>1, GateAssumption, FS_Subset, FS_CardinalityType

-----------------------------------------------------------------------------
(* Every action, as a move of one thread *)

\* What a step of request r does to the control state and the counters.
RequestEffect(r) ==
  /\ PcOK'
  /\ \/ /\ Moves(r, "handle") /\ pc[r] \in {"begin", "awake"}
        /\ ~maintenance /\ active' = active + 1
     \/ /\ Moves(r, "away") /\ pc[r] = "leave" /\ active' = active - 1
        /\ active' = 0 => NobodySleeps'
     \/ /\ \E place \in {"body", "lock", "txn", "leave"} : Moves(r, place)
        /\ Inside(r) /\ UNCHANGED active
     \/ /\ \E place \in {"begin", "asleep"} :
             Moves(r, place) /\ (place = "asleep" => maintenance)
        /\ ~Inside(r) /\ UNCHANGED active
  /\ UNCHANGED maintenance

LEMMA RequestEffects ==
  ASSUME PcOK, NEW r \in Request, Arrive(r) \/ RequestStep(r)
  PROVE  RequestEffect(r)
<1>0. r \in Thread /\ r \notin Restorer
  BY GateAssumption DEF Thread
<1>1. \A place \in RequestPc :
        Goto(r, place) \/ GotoAndNotify(r, place) => PcOK' /\ Moves(r, place)
  BY <1>0, PlaceTypes
<1>2. CASE Arrive(r)
  BY <1>1, <1>2 DEF Arrive, RequestEffect, RequestPc, Inside
<1>3. CASE BeginRequest(r)
  BY <1>1, <1>3 DEF BeginRequest, Enter, RequestEffect, RequestPc, Inside
<1>4. CASE WakeRequest(r)
  BY <1>1, <1>4 DEF WakeRequest, Enter, RequestEffect, RequestPc, Inside
<1>5. CASE StartHandler(r)
  BY <1>1, <1>5 DEF StartHandler, RequestEffect, RequestPc, Inside
<1>6. CASE RunHandler(r)
  BY <1>1, <1>6 DEF RunHandler, RequestEffect, RequestPc, Inside
<1>7. CASE LockVault(r) \/ Commit(r)
  BY <1>1, <1>7 DEF LockVault, Commit, RequestEffect, RequestPc, Inside
<1>8. CASE EndRequest(r)
  <2>1. active' = 0 => NobodySleeps'
    BY <1>0, <1>8, Notified DEF EndRequest
  <2> QED
    BY <1>1, <1>8, <2>1 DEF EndRequest, RequestEffect, RequestPc
<1> QED
  BY <1>2, <1>3, <1>4, <1>5, <1>6, <1>7, <1>8 DEF RequestStep

\* What a step of restorer o does to them.
RestoreEffect(o) ==
  /\ PcOK' /\ UNCHANGED active
  /\ \/ /\ \/ pc[o] = "idle" /\ maintenance' = TRUE
           \/ pc[o] = "awake" /\ UNCHANGED maintenance
        /\ \/ Moves(o, "lock") /\ active = 0
           \/ Moves(o, "asleep") /\ active # 0
     \/ /\ \/ pc[o] = "lock" /\ Moves(o, "prepare")
           \/ pc[o] = "prepare" /\ Moves(o, "replace")
           \/ pc[o] \in {"prepare", "replace"} /\ Moves(o, "release")
        /\ UNCHANGED maintenance
     \/ pc[o] = "release" /\ Moves(o, "idle") /\ maintenance' = FALSE /\ NobodySleeps'

LEMMA RestoreEffects ==
  ASSUME PcOK, NEW o \in Restorer, BeginMaintenance(o) \/ RestoreStep(o)
  PROVE  RestoreEffect(o)
<1>0. o \in Thread /\ o \notin Request
  BY GateAssumption DEF Thread
<1>1. \A place \in RestorerPc :
        Goto(o, place) \/ GotoAndNotify(o, place) => PcOK' /\ Moves(o, place)
  BY <1>0, PlaceTypes
<1>2. CASE BeginMaintenance(o) \/ WakeRestore(o)
  BY <1>1, <1>2
  DEF BeginMaintenance, WakeRestore, Drain, RestoreEffect, RestorerPc
<1>3. CASE LockForRestore(o) \/ PrepareRestore(o) \/ FinishRestore(o)
  BY <1>1, <1>3
  DEF LockForRestore, PrepareRestore, FinishRestore, RestoreEffect, RestorerPc
<1>4. CASE EndMaintenance(o)
  <2>1. NobodySleeps'
    BY <1>0, <1>4, Notified DEF EndMaintenance
  <2> QED
    BY <1>1, <1>4, <2>1 DEF EndMaintenance, RestoreEffect, RestorerPc
<1> QED
  BY <1>2, <1>3, <1>4 DEF RestoreStep

-----------------------------------------------------------------------------
(* The count, and the types *)

LEMMA CountStep == CountInv /\ [Next]_vars => CountInv'
<1> SUFFICES ASSUME CountInv, [Next]_vars PROVE CountInv'
  OBVIOUS
<1>0. PcOK /\ IsFiniteSet(Users) /\ Cardinality(Users) \in Nat
  BY UsersFinite DEF CountInv
<1>1. ASSUME NEW r \in Request, RequestEffect(r) PROVE CountInv'
  <2>0. r \in Thread /\ r \notin Restorer /\ Request \cap Restorer = {}
    BY GateAssumption DEF Thread
  <2>1. ASSUME Moves(r, "handle"), pc[r] \in {"begin", "awake"},
               active' = active + 1
        PROVE  active' = Cardinality(Users')
    <3>1. Users' = Users \cup {r} /\ r \notin Users
      BY <2>0, <2>1, UsersMove DEF Users, Inside
    <3> QED
      BY <1>0, <2>1, <3>1, FS_AddElement DEF CountInv
  <2>2. ASSUME Moves(r, "away"), pc[r] = "leave", active' = active - 1
        PROVE  active' = Cardinality(Users')
    <3>1. Users' = Users \ {r} /\ r \in Users
      BY <2>0, <2>2, UsersMove DEF Users, Inside
    <3> QED
      BY <1>0, <2>2, <3>1, FS_RemoveElement DEF CountInv
  <2>3. ASSUME NEW place \in {"body", "lock", "txn", "leave"},
               Moves(r, place), Inside(r)
        PROVE  Users' = Users
    <3>1. Users' = Users \cup {r} /\ r \in Users
      BY <2>0, <2>3, UsersMove DEF Users
    <3> QED
      BY <3>1
  <2>4. ASSUME NEW place \in {"begin", "asleep"}, Moves(r, place), ~Inside(r)
        PROVE  Users' = Users
    <3>1. Users' = Users \ {r} /\ r \notin Users
      BY <2>0, <2>4, UsersMove DEF Users
    <3> QED
      BY <3>1
  <2> QED
    BY <1>1, <2>1, <2>2, <2>3, <2>4 DEF RequestEffect, CountInv
<1>2. ASSUME NEW o \in Restorer, RestoreEffect(o) PROVE CountInv'
  <2>1. o \in Thread /\ Request \cap Restorer = {}
    BY GateAssumption DEF Thread
  <2>2. \A place : Moves(o, place) => Users' = Users
    BY <2>1, UsersMove
  <2> QED
    BY <1>2, <2>2 DEF RestoreEffect, CountInv
<1>3. CASE UNCHANGED vars
  BY <1>3 DEF vars, CountInv, PcOK, Users, Inside
<1> QED
  BY <1>0, <1>1, <1>2, <1>3, RequestEffects, RestoreEffects DEF Next

LEMMA CountInvariant == Spec => []CountInv
<1>1. Init => CountInv
  <2> SUFFICES ASSUME Init PROVE CountInv
    OBVIOUS
  <2>1. PcOK
    BY GateAssumption DEF Init, PcOK, Thread, RequestPc, RestorerPc
  <2>2. Users = {}
    BY DEF Init, Users, Inside, Thread
  <2> QED
    BY <2>1, <2>2, FS_EmptySet DEF Init, CountInv
<1> QED
  BY <1>1, CountStep, PTL DEF Spec

\* Type correctness.  That the counter is a natural number is not local:
\* it never goes below zero because it counts the requests inside.
THEOREM TypeCorrect == Spec => []TypeOK
<1> DEFINE Locks == /\ maintenance \in BOOLEAN
                    /\ mutex \in Thread \cup {Free}
                    /\ loop \in Request \cup {Free}
<1>1. Init => Locks
  BY DEF Init
<1>2. Locks /\ [Next]_vars => Locks'
  BY DEF Next, RequestStep, RestoreStep, Arrive, BeginRequest, WakeRequest,
         StartHandler, RunHandler, LockVault, Commit, EndRequest,
         BeginMaintenance, WakeRestore, LockForRestore, PrepareRestore,
         FinishRestore, EndMaintenance, Thread, vars
<1>3. CountInv /\ Locks => TypeOK
  BY UsersFinite DEF CountInv, PcOK, TypeOK
<1> HIDE DEF Locks
<1> QED
  BY <1>1, <1>2, <1>3, CountInvariant, PTL DEF Spec

-----------------------------------------------------------------------------
(* Sleeping and waking, with any number of restores *)

WakeInv ==
  /\ \A r \in Request : pc[r] = "asleep" => maintenance
  /\ maintenance => \E o \in Restorer : pc[o] # "idle"
  /\ \A o \in Restorer : pc[o] = "asleep" => active # 0

LEMMA WakeStep == CountInv /\ WakeInv /\ [Next]_vars => WakeInv'
<1> SUFFICES ASSUME CountInv, WakeInv, [Next]_vars PROVE WakeInv'
  OBVIOUS
<1>0. PcOK /\ Restorer \cap Request = {} /\ Request \subseteq Thread /\ Restorer \subseteq Thread
  BY GateAssumption DEF CountInv, Thread
<1>1. ASSUME NEW r \in Request, RequestEffect(r) PROVE WakeInv'
  <2>1. maintenance' => \E o \in Restorer : pc'[o] # "idle"
    <3> SUFFICES ASSUME maintenance PROVE \E o \in Restorer : pc'[o] # "idle"
      BY <1>1 DEF RequestEffect
    <3>1. PICK o \in Restorer : pc[o] # "idle"
      BY DEF WakeInv
    <3>2. \A place : Moves(r, place) => pc'[o] = pc[o] \/ pc'[o] = "awake"
      BY <1>0 DEF Moves
    <3> QED
      BY <1>1, <3>1, <3>2 DEF RequestEffect
  <2>2. ASSUME NEW place, Moves(r, place), place = "asleep" => maintenance
        PROVE  \A q \in Request : pc'[q] = "asleep" => maintenance
    BY <1>0, <2>2 DEF Moves, WakeInv
  <2>3. ASSUME NEW place, Moves(r, place)
        PROVE  \A o \in Restorer : pc'[o] = "asleep" => active # 0
    BY <1>0, <2>3 DEF Moves, WakeInv
  <2>4. active \in Nat
    BY UsersFinite DEF CountInv
  <2>5. \A q \in Request : pc'[q] = "asleep" => maintenance'
    BY <1>1, <2>2 DEF RequestEffect
  <2>6. \A o \in Restorer : pc'[o] = "asleep" => active' # 0
    <3>1. CASE active' = 0 /\ NobodySleeps'
      BY <1>0, <3>1 DEF NobodySleeps
    <3>2. CASE active' = active \/ active' = active + 1
      BY <1>1, <2>3, <2>4, <3>2 DEF RequestEffect
    <3>3. CASE active' # 0
      BY <3>3
    <3> QED
      BY <1>1, <3>1, <3>2, <3>3 DEF RequestEffect
  <2> QED
    BY <2>1, <2>5, <2>6 DEF WakeInv
<1>2. ASSUME NEW o \in Restorer, RestoreEffect(o) PROVE WakeInv'
  <2>1. CASE pc[o] = "release" /\ maintenance' = FALSE /\ NobodySleeps'
    BY <1>0, <2>1 DEF NobodySleeps, WakeInv
  <2>2. ASSUME NEW place \in {"lock", "asleep", "prepare", "replace", "release"}, Moves(o, place),
               place = "asleep" => active # 0, maintenance' \/ UNCHANGED maintenance,
               UNCHANGED active
        PROVE  WakeInv'
    <3>1. pc'[o] # "idle"
      BY <2>2 DEF Moves
    <3>2. \A r \in Request : pc'[r] = "asleep" => pc[r] = "asleep"
      BY <1>0, <2>2 DEF Moves
    <3>3. \A p \in Restorer : pc'[p] = "asleep" => active # 0
      BY <1>0, <2>2 DEF Moves, WakeInv
    <3> QED
      BY <2>2, <3>1, <3>2, <3>3 DEF WakeInv
  <2> QED
    BY <1>2, <2>1, <2>2 DEF RestoreEffect
<1>3. CASE UNCHANGED vars
  BY <1>3 DEF vars, WakeInv
<1> QED
  BY <1>0, <1>1, <1>2, <1>3, RequestEffects, RestoreEffects DEF Next

LEMMA WakeInvariant == Spec => []WakeInv
<1>1. Init => WakeInv
  BY GateAssumption DEF Init, WakeInv, Thread
<1> QED
  BY <1>1, WakeStep, CountInvariant, PTL DEF Spec

\* Neither side of the gate sleeps for nothing: whoever sleeps, the thread that
\* will wake it is under way, with any number of restores (storage/mutation.py,
\* the two loops around the condition's wait and the two calls of notify_all).
THEOREM WakeupsAreNotLost == Spec => []NoWakeupIsLost
<1>1. CountInv /\ WakeInv => NoWakeupIsLost
  <2> SUFFICES ASSUME CountInv, WakeInv PROVE NoWakeupIsLost
    OBVIOUS
  <2>1. active # 0 => \E r \in Request : Inside(r)
    <3>1. Users = {} => active = 0
      BY FS_EmptySet DEF CountInv
    <3> QED
      BY <3>1 DEF Users
  <2> QED
    BY <2>1 DEF WakeInv, NoWakeupIsLost
<1> QED
  BY <1>1, CountInvariant, WakeInvariant, PTL

-----------------------------------------------------------------------------
(* A thread for each request *)

\* The mutex is held inside a transaction or a restore, and the event loop is
\* kept by a handler that is running.
HoldersInv ==
  /\ \A r \in Request : mutex = r => pc[r] = "txn"
  /\ \A o \in Restorer : mutex = o => pc[o] \in {"prepare", "replace"}
  /\ mutex \in Thread \cup {Free} /\ loop \in Request \cup {Free}
  /\ \A r \in Request : loop = r => pc[r] \in {"body", "lock", "txn"}

\* The next step of a thread is possible: it waits neither for the pool, nor for
\* the event loop, nor for the mutex, nor to be woken.
CanGoOn(t) ==
  \/ pc[t] \in {"awake", "body", "txn", "prepare", "replace", "release"}
  \/ pc[t] \in {"begin", "leave"} /\ CanDispatch
  \/ pc[t] = "handle" /\ loop = Free
  \/ pc[t] = "lock" /\ mutex = Free

LEMMA HoldersMove ==
  ASSUME HoldersInv, NEW t \in Thread, NEW place, Moves(t, place),
         mutex' \in {mutex, Free, t}, loop' \in {loop, Free, t},
         t \in Request => /\ mutex' = t => place = "txn"
                          /\ loop' = t => place \in {"body", "lock", "txn"},
         t \in Restorer => /\ mutex' = t => place \in {"prepare", "replace"}
                           /\ loop' # t
  PROVE  HoldersInv'
<1>1. Free \notin Thread /\ Request \cap Restorer = {} /\ Thread = Request \cup Restorer
  BY GateAssumption DEF Thread
<1>2. mutex' \in Thread \cup {Free} /\ loop' \in Request \cup {Free}
  BY <1>1 DEF HoldersInv
<1>3. \A u \in Thread : u # t /\ pc[u] # "asleep" => pc'[u] = pc[u]
  BY DEF Moves
<1>4. pc'[t] = place
  BY DEF Moves
<1>5. ASSUME NEW q \in Request
      PROVE  /\ mutex' = q => pc'[q] = "txn"
             /\ loop' = q => pc'[q] \in {"body", "lock", "txn"}
  <2>1. CASE q = t
    BY <1>4, <2>1
  <2>2. CASE q # t
    <3>1. (mutex' = q => mutex = q) /\ (loop' = q => loop = q) /\ q \in Thread
      BY <1>1, <2>2
    <3> QED
      BY <1>3, <2>2, <3>1 DEF HoldersInv
  <2> QED
    BY <2>1, <2>2
<1>6. ASSUME NEW o \in Restorer, mutex' = o PROVE pc'[o] \in {"prepare", "replace"}
  <2>1. CASE o = t
    BY <1>4, <1>6, <2>1
  <2>2. CASE o # t
    <3>1. mutex = o /\ o \in Thread
      BY <1>1, <1>6, <2>2
    <3> QED
      BY <1>3, <2>2, <3>1 DEF HoldersInv
  <2> QED
    BY <2>1, <2>2
<1> QED
  BY <1>2, <1>5, <1>6 DEF HoldersInv

LEMMA HoldersStep == CountInv /\ HoldersInv /\ [Next]_vars => HoldersInv'
<1> SUFFICES ASSUME CountInv, HoldersInv, [Next]_vars PROVE HoldersInv'
  OBVIOUS
<1>0. PcOK /\ Free \notin Thread /\ Request \cap Restorer = {}
      /\ Thread = Request \cup Restorer
  BY GateAssumption DEF CountInv, Thread
<1>1. ASSUME NEW r \in Request, Arrive(r) \/ RequestStep(r) PROVE HoldersInv'
  <2>0. r \in Thread /\ r \notin Restorer /\ r # Free
    BY <1>0
  <2>1. \A place \in RequestPc :
          Goto(r, place) \/ GotoAndNotify(r, place) => Moves(r, place)
    BY <1>0, <2>0, PlaceTypes
  <2>2. ASSUME NEW place \in RequestPc, Moves(r, place),
               mutex' \in {mutex, Free, r}, loop' \in {loop, Free, r},
               mutex' = r => place = "txn", loop' = r => place \in {"body", "lock", "txn"}
        PROVE  HoldersInv'
    BY <2>0, <2>2, HoldersMove
  <2>3. CASE Arrive(r) \/ BeginRequest(r) \/ WakeRequest(r) \/ EndRequest(r)
    BY <2>0, <2>1, <2>2, <2>3
    DEF Arrive, BeginRequest, WakeRequest, EndRequest, Enter, HoldersInv, RequestPc
  <2>4. CASE StartHandler(r)
    BY <2>0, <2>1, <2>2, <2>4 DEF StartHandler, HoldersInv, RequestPc
  <2>5. CASE RunHandler(r)
    BY <2>0, <2>1, <2>2, <2>5 DEF RunHandler, HoldersInv, RequestPc
  <2>6. CASE LockVault(r)
    BY <2>0, <2>1, <2>2, <2>6 DEF LockVault, HoldersInv, RequestPc
  <2>7. CASE Commit(r)
    BY <2>0, <2>1, <2>2, <2>7 DEF Commit, HoldersInv, RequestPc
  <2> QED
    BY <1>1, <2>3, <2>4, <2>5, <2>6, <2>7 DEF RequestStep
<1>2. ASSUME NEW o \in Restorer, BeginMaintenance(o) \/ RestoreStep(o) PROVE HoldersInv'
  <2>0. o \in Thread /\ o \notin Request /\ o # Free /\ loop # o
    BY <1>0 DEF HoldersInv
  <2>1. \A place \in RestorerPc :
          Goto(o, place) \/ GotoAndNotify(o, place) => Moves(o, place)
    BY <1>0, <2>0, PlaceTypes
  <2>2. ASSUME NEW place \in RestorerPc, Moves(o, place), mutex' \in {mutex, Free, o},
               UNCHANGED loop, mutex' = o => place \in {"prepare", "replace"}
        PROVE  HoldersInv'
    BY <2>0, <2>2, HoldersMove
  <2>3. CASE BeginMaintenance(o) \/ WakeRestore(o)
    BY <2>0, <2>1, <2>2, <2>3 DEF BeginMaintenance, WakeRestore, Drain, HoldersInv, RestorerPc
  <2>4. CASE LockForRestore(o) \/ PrepareRestore(o)
    BY <2>0, <2>1, <2>2, <2>4 DEF LockForRestore, PrepareRestore, HoldersInv, RestorerPc
  <2>5. CASE FinishRestore(o) \/ EndMaintenance(o)
    BY <2>0, <2>1, <2>2, <2>5 DEF FinishRestore, EndMaintenance, HoldersInv, RestorerPc
  <2> QED
    BY <1>2, <2>3, <2>4, <2>5 DEF RestoreStep
<1>3. CASE UNCHANGED vars
  BY <1>3 DEF vars, HoldersInv
<1> QED
  BY <1>1, <1>2, <1>3 DEF Next

LEMMA HoldersInvariant == Spec => []HoldersInv
<1>1. Init => HoldersInv
  BY GateAssumption DEF Init, HoldersInv, Thread
<1> QED
  BY <1>1, HoldersStep, CountInvariant, PTL DEF Spec

\* A request that is not blocked in begin_request and does not run leaves a
\* thread of the pool to itself.
LEMMA ThreadIsLeft ==
  ASSUME Cardinality(Request) <= PoolSize, NEW r \in Request, r \notin Threads, loop = Free
  PROVE  CanDispatch
<1>1. Threads \subseteq Request \ {r} /\ IsFiniteSet(Request)
  BY GateAssumption DEF Threads
<1>2. /\ IsFiniteSet(Request \ {r})
      /\ Cardinality(Request \ {r}) = Cardinality(Request) - 1
  BY <1>1, FS_RemoveElement
<1>3. Cardinality(Threads) <= Cardinality(Request \ {r})
  BY <1>1, <1>2, FS_Subset
<1>4. /\ Cardinality(Threads) \in Nat /\ Cardinality(Request) \in Nat
      /\ Cardinality(Request \ {r}) \in Nat
  BY <1>1, <1>2, FS_Subset, FS_CardinalityType
<1> QED
  BY <1>2, <1>3, <1>4, GateAssumption DEF CanDispatch

Waiting == \E t \in Thread : pc[t] \notin {"away", "idle"}

\* Requests, restores, pool, event loop and mutex never all wait for one another,
\* provided the pool has a thread for each request: whenever a request or a
\* restore is under way, one of them can go on (web/app.py, the middleware;
\* storage/mutation.py).  With a smaller pool they may.
THEOREM SomeoneCanGoOn ==
  ASSUME Cardinality(Request) <= PoolSize
  PROVE  Spec => [](Waiting => \E t \in Thread : CanGoOn(t))
<1>1. ASSUME CountInv, WakeInv, HoldersInv, Waiting, \A t \in Thread : ~CanGoOn(t)
      PROVE  FALSE
  <2>0. PcOK /\ Thread = Request \cup Restorer
    BY <1>1 DEF CountInv, Thread
  <2>1. mutex = Free
    BY <1>1, <2>0 DEF HoldersInv, CanGoOn
  <2>2. loop = Free
    BY <1>1, <2>0, <2>1 DEF HoldersInv, CanGoOn
  <2>3. \A r \in Request : pc[r] \in {"away", "asleep"}
    <3> SUFFICES ASSUME NEW r \in Request, pc[r] \notin {"away", "asleep"} PROVE FALSE
      OBVIOUS
    <3>1. pc[r] \in {"begin", "leave"}
      BY <1>1, <2>0, <2>1, <2>2 DEF PcOK, RequestPc, CanGoOn
    <3>2. r \notin Threads
      BY <3>1 DEF Threads
    <3>3. CanDispatch
      BY <2>2, <3>2, ThreadIsLeft
    <3> QED
      BY <1>1, <2>0, <3>1, <3>3 DEF CanGoOn
  <2>4. active = 0
    <3>1. Users = {}
      BY <2>3 DEF Users, Inside
    <3> QED
      BY <1>1, <3>1, FS_EmptySet DEF CountInv
  <2>5. \A o \in Restorer : pc[o] = "idle"
    BY <1>1, <2>0, <2>1, <2>4 DEF PcOK, RestorerPc, CanGoOn, WakeInv
  <2>6. \A r \in Request : pc[r] = "away"
    BY <1>1, <2>3, <2>5 DEF WakeInv
  <2> QED
    BY <1>1, <2>0, <2>5, <2>6 DEF Waiting
<1>2. CountInv /\ WakeInv /\ HoldersInv => (Waiting => \E t \in Thread : CanGoOn(t))
  BY <1>1
<1> QED
  BY <1>2, CountInvariant, WakeInvariant, HoldersInvariant, PTL

-----------------------------------------------------------------------------
(* One restore at a time *)

LEMMA ClosedStep ==
  ASSUME SingleRestorer
  PROVE  CountInv /\ ClosedInv /\ [Next]_vars => ClosedInv'
<1> SUFFICES ASSUME CountInv, ClosedInv, [Next]_vars PROVE ClosedInv'
  OBVIOUS
<1>0. PcOK /\ \A r \in Request : r \in Thread /\ r \notin Restorer
  BY GateAssumption DEF CountInv, Thread
<1>1. ASSUME NEW r \in Request, RequestEffect(r) PROVE ClosedInv'
  <2>1. ASSUME NEW o \in Restorer, NEW place, Moves(r, place)
        PROVE  \/ pc'[o] = pc[o]
               \/ pc[o] = "asleep" /\ pc'[o] = "awake"
    BY <1>0, <2>1 DEF Moves, Thread
  <2>2. CASE ~maintenance
    BY <1>1, <2>1, <2>2 DEF RequestEffect, ClosedInv
  <2>3. CASE pc[r] = "leave" /\ active' = active - 1
    <3>1. r \in Users
      BY <2>3 DEF Users, Inside
    <3>2. active # 0
      BY <3>1, UsersFinite, FS_EmptySet DEF CountInv
    <3> QED
      BY <1>1, <2>1, <3>2 DEF RequestEffect, ClosedInv
  <2>4. CASE UNCHANGED active
    BY <1>1, <2>1, <2>4 DEF RequestEffect, ClosedInv
  <2> QED
    BY <1>1, <2>2, <2>3, <2>4 DEF RequestEffect
<1>2. ASSUME NEW o \in Restorer, RestoreEffect(o) PROVE ClosedInv'
  <2>1. \A p \in Restorer : p = o
    BY DEF SingleRestorer
  <2> QED
    BY <1>2, <2>1 DEF RestoreEffect, Moves, ClosedInv
<1>3. CASE UNCHANGED vars
  BY <1>3 DEF vars, ClosedInv
<1> QED
  BY <1>0, <1>1, <1>2, <1>3, RequestEffects, RestoreEffects DEF Next

LEMMA ClosedInvariant ==
  ASSUME SingleRestorer
  PROVE  Spec => []ClosedInv
<1>1. Init => ClosedInv
  BY GateAssumption DEF Init, ClosedInv, Thread
<1>2. CountInv /\ ClosedInv /\ [Next]_vars => ClosedInv'
  BY ClosedStep
<1> QED
  BY <1>1, <1>2, CountInvariant, PTL DEF Spec

LEMMA NobodyInside == ASSUME CountInv, active = 0 PROVE Users = {}
BY UsersFinite, FS_EmptySet DEF CountInv

\* A request never sees the vault file change under it, when one restore runs
\* at a time.
THEOREM DrainedWhenReplaced ==
  ASSUME SingleRestorer
  PROVE  Spec => []ReplacedOnlyWhenDrained
<1>1. CountInv /\ ClosedInv => ReplacedOnlyWhenDrained
  BY NobodyInside DEF ClosedInv, ReplacedOnlyWhenDrained, Replacing, Users
<1> QED
  BY <1>1, CountInvariant, ClosedInvariant, PTL

\* The gate implements the specification of access to the vault file: every
\* step of requests, restorer and condition variable is an entry, a leave, the
\* start or the end of a replacement, or invisible to it.
THEOREM GateImplementsAccess ==
  ASSUME SingleRestorer
  PROVE  Spec => ImplementsAccess
<1> DEFINE AccessNext == [Access!Next]_<<Users, Replacing>>
<1>1. Init => Access!Init
  BY GateAssumption DEF Init, Access!Init, Inside, Replacing, Thread
<1>2. ASSUME CountInv, ClosedInv, [Next]_vars PROVE AccessNext
  <2>0. /\ PcOK /\ Request \cap Restorer = {}
        /\ \A r \in Request : r \in Thread /\ r \notin Restorer
        /\ \A o \in Restorer : o \in Thread /\ o \notin Request
    BY <1>2, GateAssumption DEF CountInv, Thread
  <2>1. ASSUME NEW r \in Request, RequestEffect(r) PROVE AccessNext
    <3>1. ASSUME NEW place, Moves(r, place) PROVE UNCHANGED Replacing
      BY <2>0, <3>1 DEF Moves, Replacing, Thread
    <3>2. CASE /\ Moves(r, "handle") /\ pc[r] \in {"begin", "awake"}
               /\ ~maintenance
      <4>1. Users' = Users \cup {r} /\ r \notin Users
        BY <2>0, <3>2, UsersMove DEF Users, Inside
      <4>2. ~Replacing
        BY <1>2, <3>2 DEF ClosedInv, Replacing
      <4> QED
        BY <3>1, <3>2, <4>1, <4>2 DEF Access!Next, Access!Enter, Users
    <3>3. CASE Moves(r, "away") /\ pc[r] = "leave"
      <4>1. Users' = Users \ {r} /\ r \in Users
        BY <2>0, <3>3, UsersMove DEF Users, Inside
      <4> QED
        BY <3>1, <3>3, <4>1 DEF Access!Next, Access!Leave, Users
    <3>4. CASE \/ /\ \E place \in {"body", "lock", "txn", "leave"} :
                       Moves(r, place)
                  /\ Inside(r)
               \/ /\ \E place \in {"begin", "asleep"} : Moves(r, place)
                  /\ ~Inside(r)
      <4>1. UNCHANGED Users
        BY <2>0, <3>4, UsersMove DEF Users
      <4> QED
        BY <3>1, <3>4, <4>1
    <3> QED
      BY <2>1, <3>2, <3>3, <3>4 DEF RequestEffect
  <2>2. ASSUME NEW o \in Restorer, RestoreEffect(o) PROVE AccessNext
    <3>1. UNCHANGED Users
      <4>1. \A place : Moves(o, place) => UNCHANGED Users
        BY <2>0, UsersMove
      <4> QED
        BY <2>2, <4>1 DEF RestoreEffect
    <3>2. Replacing <=> pc[o] = "replace"
      BY DEF SingleRestorer, Replacing
    <3>3. Replacing' <=> pc'[o] = "replace"
      BY DEF SingleRestorer, Replacing
    <3>4. CASE pc[o] = "prepare" /\ Moves(o, "replace")
      <4>1. Users = {}
        BY <1>2, <3>4, NobodyInside DEF ClosedInv
      <4> QED
        BY <3>1, <3>2, <3>3, <3>4, <4>1
        DEF Access!Next, Access!BeginReplacement, Moves, Users
    <3>5. CASE pc[o] = "replace" /\ Moves(o, "release")
      BY <3>1, <3>2, <3>3, <3>5
      DEF Access!Next, Access!EndReplacement, Moves, Users
    <3>6. CASE pc[o] # "replace" /\ pc'[o] # "replace"
      BY <3>1, <3>2, <3>3, <3>6
    <3> QED
      BY <2>2, <3>4, <3>5, <3>6 DEF RestoreEffect, Moves
  <2>3. CASE UNCHANGED vars
    BY <2>3 DEF vars, Users, Inside, Replacing
  <2> QED
    BY <1>2, <2>0, <2>1, <2>2, <2>3, RequestEffects, RestoreEffects DEF Next
<1>3. CountInv /\ ClosedInv /\ [Next]_vars => AccessNext
  BY <1>2
<1> QED
  BY <1>1, <1>3, CountInvariant, ClosedInvariant, PTL
  DEF Spec, ImplementsAccess, Access!Spec, Users
=============================================================================

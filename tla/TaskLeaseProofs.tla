--------------------------- MODULE TaskLeaseProofs ---------------------------
(***************************************************************************)
(* TaskLease for every set of tasks, workers and clients and every TTL:    *)
(* its invariants, and that it implements GrantedResult.                   *)
(***************************************************************************)
EXTENDS TaskLease, TLAPS

(* claim_timestamp + claim_ttl_seconds and expiration_time never drift apart,   *)
(* and a row has claim columns exactly while it is RUNNING.                     *)
LeaseShape ==
  \A t \in Task :
    /\ runtimeStatus[t] = "RUNNING" <=> lease[t] # NoLease
    /\ lease[t] # NoLease => lease[t].age + lease[t].left = TTL

(* The holder of the columns, if its attempt runs, made the latest claim.       *)
FenceShape ==
  \A t \in Task, w \in Worker :
    lease[t] # NoLease /\ lease[t].worker = w /\ attempt[w][t] # "idle" => fence[t] = w

IInv == TypeOK /\ LeaseShape /\ FenceShape /\ ResultIsAnnounced

-----------------------------------------------------------------------------
LEMMA NewLeaseType ==
  ASSUME NEW w \in Worker
  PROVE  /\ NewLease(w) \in Lease
         /\ NewLease(w) # NoLease
         /\ NewLease(w).worker = w
         /\ NewLease(w).age + NewLease(w).left = TTL
BY TTLAssumption, NullAssumption DEF NewLease, Lease

LEMMA AgedLease ==
  ASSUME NEW l \in Lease, l.age + l.left = TTL
  PROVE  /\ Aged(l) \in Lease
         /\ Aged(l) # NoLease
         /\ Aged(l).worker = l.worker
         /\ Aged(l).age + Aged(l).left = TTL
<1>1. /\ l.worker \in Worker /\ l.age \in 0..(TTL + 1) /\ l.left \in (-1)..TTL
      /\ TTL \in Nat \ {0}
  BY TTLAssumption DEF Lease
<1>2. Aged(l) \in Lease
  BY <1>1 DEF Aged, Lease
<1>3. Aged(l).worker = l.worker /\ Aged(l).age + Aged(l).left = TTL
  BY <1>1 DEF Aged
<1>. QED  BY <1>2, <1>3, NullAssumption

LEMMA InitIInv == Init => IInv
BY DEF Init, StoreInit, IInv, TypeOK, StoreTypeOK, Status, AttemptState, CreateState,
       LeaseShape, FenceShape, ResultIsAnnounced

-----------------------------------------------------------------------------
(* One lemma per group of actions that share a transaction. *)

(* Actions that leave the rows, the attempts and the fence alone. *)
LEMMA QuietStep ==
  ASSUME IInv, UNCHANGED <<storeVars, attempt, fence>>,
         known' \in [Worker -> SUBSET Task], cursor' \in [Worker -> Task \cup {0}],
         alive' \in SUBSET Worker, creating' \in [Client -> [Task -> CreateState]], dropped' \in SUBSET Task
  PROVE  IInv'
BY DEF IInv, TypeOK, StoreTypeOK, LeaseShape, FenceShape, ResultIsAnnounced, storeVars

LEMMA CreateTaskStep ==
  ASSUME IInv, NEW c \in Client, NEW t \in Task, CreateTask(c, t)
  PROVE  IInv'
<1>1. TypeOK'
  BY DEF IInv, TypeOK, StoreTypeOK, CreateTask, CreateComputationalTask, Status, CreateState
<1>2. LeaseShape' /\ FenceShape'
  BY DEF IInv, TypeOK, StoreTypeOK, CreateTask, CreateComputationalTask, LeaseShape, FenceShape
<1>3. ResultIsAnnounced'
  BY DEF IInv, TypeOK, StoreTypeOK, CreateTask, CreateComputationalTask, ResultIsAnnounced
<1>. QED  BY <1>1, <1>2, <1>3 DEF IInv

(* Whatever puts a row back to PENDING clears its claim columns in the same step. *)
LEMMA ReopenStep ==
  ASSUME IInv, NEW t \in Task,
         runtimeStatus' = [runtimeStatus EXCEPT ![t] = "PENDING"],
         lease' = [lease EXCEPT ![t] = NoLease],
         currentVersion' = currentVersion
           \/ currentVersion' = [currentVersion EXCEPT ![t] = NoVersion],
         fence' = [fence EXCEPT ![t] = NoWorker],
         creating' \in [Client -> [Task -> CreateState]],
         dropped' = dropped \ {t},
         UNCHANGED <<lastEvent, attempt, known, cursor, alive>>
  PROVE  IInv'
<1>1. TypeOK'
  BY DEF IInv, TypeOK, StoreTypeOK, Status
<1>2. LeaseShape'
  BY DEF IInv, TypeOK, StoreTypeOK, LeaseShape
<1>3. FenceShape'
  BY DEF IInv, TypeOK, StoreTypeOK, FenceShape
<1>4. ResultIsAnnounced'
  BY DEF IInv, TypeOK, StoreTypeOK, ResultIsAnnounced
<1>. QED  BY <1>1, <1>2, <1>3, <1>4 DEF IInv

LEMMA ScheduleTaskStep ==
  ASSUME IInv, NEW c \in Client, NEW t \in Task, ScheduleTask(c, t)
  PROVE  IInv'
<1>1. creating' \in [Client -> [Task -> CreateState]]
  BY DEF IInv, TypeOK, ScheduleTask, CreateState
<1>. QED  BY <1>1, ReopenStep DEF ScheduleTask, ScheduleTaskForExecution

LEMMA RefreshStep ==
  ASSUME IInv, NEW t \in Task, Refresh(t)
  PROVE  IInv'
<1>1. PICK clearVersion \in BOOLEAN : RefreshTask(t, clearVersion)
  BY DEF Refresh
<1>2. currentVersion' = currentVersion
        \/ currentVersion' = [currentVersion EXCEPT ![t] = NoVersion]
  BY <1>1 DEF RefreshTask, IInv, TypeOK, StoreTypeOK
<1>3. creating' \in [Client -> [Task -> CreateState]]
  BY DEF Refresh, IInv, TypeOK
<1>. QED  BY <1>1, <1>2, <1>3, ReopenStep DEF Refresh, RefreshTask

(* A claim gives the row a fresh lease and the fence to whoever uses it.  The   *)
(* claimant is idle on the task, so nobody else's attempt matches the new id.   *)
LEMMA ClaimStep ==
  ASSUME IInv, NEW w \in Worker, NEW t \in Task, ClaimTask(w, t),
         attempt[w][t] = "idle",
         \/ attempt' = [attempt EXCEPT ![w][t] = "executing"] /\ fence' = [fence EXCEPT ![t] = w]
         \/ attempt' = attempt /\ fence' = [fence EXCEPT ![t] = NoWorker],
         known' \in [Worker -> SUBSET Task], dropped' = dropped \ {t},
         UNCHANGED <<cursor, alive, creating>>
  PROVE  IInv'
<1>1. /\ NewLease(w) \in Lease
      /\ NewLease(w) # NoLease
      /\ NewLease(w).worker = w
      /\ NewLease(w).age + NewLease(w).left = TTL
  BY NewLeaseType
<1>2. TypeOK'
  <2>1. StoreTypeOK'
    BY <1>1 DEF IInv, TypeOK, StoreTypeOK, ClaimTask, Status
  <2>2. attempt' \in [Worker -> [Task -> AttemptState]] /\ fence' \in [Task -> Worker \cup {NoWorker}]
    <3>1. CASE attempt' = attempt
      BY <3>1 DEF IInv, TypeOK
    <3>2. CASE attempt' = [attempt EXCEPT ![w][t] = "executing"] /\ fence' = [fence EXCEPT ![t] = w]
      BY <3>2 DEF IInv, TypeOK, AttemptState
    <3>. QED  BY <3>1, <3>2 DEF IInv, TypeOK
  <2>. QED  BY <2>1, <2>2 DEF IInv, TypeOK
<1>3. LeaseShape'
  BY <1>1 DEF IInv, TypeOK, StoreTypeOK, ClaimTask, LeaseShape
<1>4. FenceShape'
  <2> SUFFICES ASSUME NEW u \in Task, NEW v \in Worker,
                      lease'[u] # NoLease, lease'[u].worker = v, attempt'[v][u] # "idle"
               PROVE  fence'[u] = v
    BY DEF FenceShape
  <2>1. CASE u = t
    <3>1. v = w
      BY <2>1, <1>1 DEF IInv, TypeOK, StoreTypeOK, ClaimTask
    <3>2. attempt' # attempt
      BY <2>1, <3>1
    <3>. QED  BY <2>1, <3>1, <3>2 DEF IInv, TypeOK
  <2>2. CASE u # t
    <3>1. lease'[u] = lease[u] /\ fence'[u] = fence[u]
      BY <2>2 DEF IInv, TypeOK, StoreTypeOK, ClaimTask
    <3>2. attempt'[v][u] = attempt[v][u]
      BY <2>2 DEF IInv, TypeOK
    <3>. QED  BY <3>1, <3>2 DEF IInv, FenceShape
  <2>. QED  BY <2>1, <2>2
<1>5. ResultIsAnnounced'
  BY DEF IInv, TypeOK, StoreTypeOK, ClaimTask, ResultIsAnnounced
<1>. QED  BY <1>2, <1>3, <1>4, <1>5 DEF IInv

LEMMA ClaimAndStartStep ==
  ASSUME IInv, NEW w \in Worker, NEW t \in Task, ClaimAndStart(w, t)
  PROVE  IInv'
BY ClaimStep DEF ClaimAndStart, CanStart, IInv, TypeOK

LEMMA ClaimAnswerLostStep ==
  ASSUME IInv, NEW w \in Worker, NEW t \in Task, ClaimAnswerLost(w, t)
  PROVE  IInv'
<1>1. known' \in [Worker -> SUBSET Task]
  BY DEF ClaimAnswerLost, IInv, TypeOK
<1>. QED  BY <1>1, ClaimStep DEF ClaimAnswerLost, CanStart

(* Ending an attempt: the worker's own fence goes, and it is idle again. *)
LEMMA EndAttemptType ==
  ASSUME IInv, NEW w \in Worker, NEW t \in Task, EndAttempt(w, t)
  PROVE  /\ attempt' \in [Worker -> [Task -> AttemptState]]
         /\ known' \in [Worker -> SUBSET Task]
         /\ cursor' \in [Worker -> Task \cup {0}]
         /\ alive' \in SUBSET Worker
         /\ creating' \in [Client -> [Task -> CreateState]]
         /\ fence' \in [Task -> Worker \cup {NoWorker}]
BY DEF IInv, TypeOK, EndAttempt, AttemptState

LEMMA ReportAcceptedStep ==
  ASSUME IInv, NEW w \in Worker, NEW t \in Task, ReportAccepted(w, t)
  PROVE  IInv'
<1> DEFINE type == attempt[w][t]
           version == [type |-> type, by |-> w]
           event == [topic |-> IF type = "OUTPUT" THEN "task_completed" ELSE "task_failed",
                     version |-> version]
<1>1. type \in VersionType /\ version \in Version /\ event \in Event
  BY DEF ReportAccepted, VersionType, Version, Event
<1>2. /\ runtimeStatus' = [runtimeStatus EXCEPT
                             ![t] = IF type = "OUTPUT" THEN "SUCCEEDED" ELSE "FAILED"]
      /\ lease' = [lease EXCEPT ![t] = NoLease]
      /\ currentVersion' = [currentVersion EXCEPT ![t] = version]
      /\ lastEvent' = [lastEvent EXCEPT ![t] = event]
      /\ EndAttempt(w, t)
      /\ dropped' = dropped
  BY DEF ReportAccepted, ReportTask
<1>3. /\ version.type = type
      /\ type = "OUTPUT" \/ type = "ERROR"
  BY <1>1 DEF VersionType
<1>. HIDE DEF version, event
<1>4. TypeOK'
  <2>1. StoreTypeOK'
    BY <1>1, <1>2 DEF IInv, TypeOK, StoreTypeOK, Status
  <2>. QED  BY <2>1, <1>2, EndAttemptType DEF IInv, TypeOK
<1>5. LeaseShape'
  BY <1>2 DEF IInv, TypeOK, StoreTypeOK, LeaseShape
<1>6. FenceShape'
  BY <1>2 DEF IInv, TypeOK, StoreTypeOK, FenceShape, EndAttempt
<1>7. ResultIsAnnounced'
  <2> SUFFICES ASSUME NEW u \in Task, runtimeStatus'[u] \in {"SUCCEEDED", "FAILED"}
               PROVE  LET kind == IF runtimeStatus'[u] = "SUCCEEDED" THEN "OUTPUT" ELSE "ERROR"
                          topic == IF kind = "OUTPUT" THEN "task_completed" ELSE "task_failed"
                      IN  /\ currentVersion'[u] # NoVersion
                          /\ currentVersion'[u].type = kind
                          /\ lastEvent'[u] = [topic |-> topic, version |-> currentVersion'[u]]
    BY DEF ResultIsAnnounced
  <2>1. CASE u = t
    BY <1>1, <1>2, <1>3, <2>1, NullAssumption DEF IInv, TypeOK, StoreTypeOK, event
  <2>2. CASE u # t
    BY <1>2, <2>2 DEF IInv, TypeOK, StoreTypeOK, ResultIsAnnounced
  <2>. QED  BY <2>1, <2>2
<1>. QED  BY <1>4, <1>5, <1>6, <1>7 DEF IInv

LEMMA ReportRefusedStep ==
  ASSUME IInv, NEW w \in Worker, NEW t \in Task, ReportRefused(w, t)
  PROVE  IInv'
<1>1. UNCHANGED storeVars /\ EndAttempt(w, t)
  BY DEF ReportRefused
<1>2. TypeOK'
  <2>1. dropped' \in SUBSET Task
    BY DEF ReportRefused, IInv, TypeOK
  <2>. QED  BY <1>1, <2>1, EndAttemptType DEF IInv, TypeOK, StoreTypeOK, storeVars
<1>3. LeaseShape' /\ ResultIsAnnounced'
  BY <1>1 DEF IInv, LeaseShape, ResultIsAnnounced, storeVars
<1>4. FenceShape'
  BY <1>1 DEF IInv, TypeOK, StoreTypeOK, FenceShape, EndAttempt, storeVars
<1>. QED  BY <1>2, <1>3, <1>4 DEF IInv

LEMMA CrashStep ==
  ASSUME IInv, NEW w \in Worker, Crash(w)
  PROVE  IInv'
<1>1. TypeOK'
  BY DEF IInv, TypeOK, StoreTypeOK, Crash, storeVars, AttemptState
<1>2. LeaseShape' /\ ResultIsAnnounced'
  BY DEF IInv, LeaseShape, ResultIsAnnounced, Crash, storeVars
<1>3. FenceShape'
  BY DEF IInv, TypeOK, StoreTypeOK, FenceShape, Crash, storeVars
<1>. QED  BY <1>1, <1>2, <1>3 DEF IInv

(* A tick moves age and left of every lease by as much, saturating together. *)
LEMMA ClockTickStep ==
  ASSUME IInv, ClockTick
  PROVE  IInv'
<1>1. /\ lease' = [t \in Task |-> IF lease[t] = NoLease THEN NoLease ELSE Aged(lease[t])]
      /\ UNCHANGED <<runtimeStatus, currentVersion, lastEvent,
                     attempt, known, cursor, alive, creating, fence, dropped>>
  BY DEF ClockTick, Tick
<1>2. \A t \in Task : lease[t] # NoLease =>
        /\ lease'[t] \in Lease
        /\ lease'[t] # NoLease
        /\ lease'[t].worker = lease[t].worker
        /\ lease'[t].age + lease'[t].left = TTL
  <2> TAKE t \in Task
  <2> HAVE lease[t] # NoLease
  <2>1. lease[t] \in Lease /\ lease[t].age + lease[t].left = TTL
    BY DEF IInv, TypeOK, StoreTypeOK, LeaseShape
  <2>2. lease'[t] = Aged(lease[t])
    BY <1>1
  <2>. QED  BY <2>1, <2>2, AgedLease
<1>3. \A t \in Task : lease[t] = NoLease => lease'[t] = NoLease
  BY <1>1
<1>4. lease' \in [Task -> Lease \cup {NoLease}]
  <2>1. lease' = [t \in Task |-> lease'[t]]
    BY <1>1
  <2>. QED  BY <1>2, <1>3, <2>1
<1>5. TypeOK'
  BY <1>1, <1>4 DEF IInv, TypeOK, StoreTypeOK
<1>6. LeaseShape'
  BY <1>1, <1>2, <1>3 DEF IInv, LeaseShape
<1>7. FenceShape'
  BY <1>1, <1>2, <1>3 DEF IInv, FenceShape
<1>8. ResultIsAnnounced'
  BY <1>1 DEF IInv, ResultIsAnnounced
<1>. QED  BY <1>5, <1>6, <1>7, <1>8 DEF IInv

(* A poll moves the iterator only. *)
LEMMA PollStep ==
  ASSUME IInv, NEW w \in Worker, Poll(w)
  PROVE  IInv'
<1>1. PICK last \in Page(w) :
        cursor' = [cursor EXCEPT ![w] = IF Page(w) = AfterCursor(w) THEN @ ELSE last]
  BY DEF Poll
<1>2. Page(w) \subseteq Task
  BY DEF Page, AfterCursor
<1>3. cursor' \in [Worker -> Task \cup {0}] /\ known' \in [Worker -> SUBSET Task]
  BY <1>1, <1>2 DEF Poll, IInv, TypeOK
<1>. QED  BY <1>3, QuietStep DEF Poll, IInv, TypeOK

LEMMA NextIInv == IInv /\ [Next]_vars => IInv'
<1> SUFFICES ASSUME IInv, [Next]_vars PROVE IInv'
  OBVIOUS
<1>1. CASE \E c \in Client, t \in Task : ClientNext(c, t)
  <2>1. PICK c \in Client, t \in Task : ClientNext(c, t)
    BY <1>1
  <2>2. CASE ForgetTask(c, t)
    <3>1. creating' \in [Client -> [Task -> CreateState]]
      BY <2>2 DEF ForgetTask, IInv, TypeOK, CreateState
    <3>. QED  BY <3>1, <2>2, QuietStep DEF ForgetTask, IInv, TypeOK
  <2>. QED  BY <2>1, <2>2, CreateTaskStep, ScheduleTaskStep DEF ClientNext
<1>2. CASE \E t \in Task : Refresh(t)
  BY <1>2, RefreshStep
<1>3. CASE \E w \in Worker, t \in Task : WorkerNext(w, t)
  <2>1. PICK w \in Worker, t \in Task : WorkerNext(w, t)
    BY <1>3
  <2>3. CASE ClaimRefused(w, t)
    <3>1. known' \in [Worker -> SUBSET Task]
      BY <2>3 DEF ClaimRefused, IInv, TypeOK
    <3>. QED  BY <3>1, <2>3, QuietStep DEF ClaimRefused, IInv, TypeOK
  <2>4. CASE FinishExecution(w, t)
    <3>1. PICK type \in VersionType : attempt' = [attempt EXCEPT ![w][t] = type]
      BY <2>4 DEF FinishExecution
    <3>2. UNCHANGED <<storeVars, known, cursor, alive, creating, fence, dropped>>
          /\ attempt[w][t] = "executing"
      BY <2>4 DEF FinishExecution
    <3>3. TypeOK'
      BY <3>1, <3>2 DEF IInv, TypeOK, StoreTypeOK, storeVars, AttemptState, VersionType
    <3>4. LeaseShape' /\ ResultIsAnnounced'
      BY <3>2 DEF IInv, LeaseShape, ResultIsAnnounced, storeVars
    <3>5. FenceShape'
      BY <3>1, <3>2 DEF IInv, TypeOK, FenceShape, storeVars
    <3>. QED  BY <3>3, <3>4, <3>5 DEF IInv
  <2>. QED  BY <2>1, <2>3, <2>4, ClaimAndStartStep, ClaimAnswerLostStep,
               ReportAcceptedStep, ReportRefusedStep DEF WorkerNext
<1>4. CASE \E w \in Worker : Poll(w) \/ Crash(w)
  BY <1>4, PollStep, CrashStep
<1>5. CASE ClockTick
  BY <1>5, ClockTickStep
<1>6. CASE UNCHANGED vars
  BY <1>6, QuietStep DEF vars, IInv, TypeOK
<1>. QED  BY <1>1, <1>2, <1>3, <1>4, <1>5, <1>6 DEF Next

-----------------------------------------------------------------------------
(* The theorems. *)

THEOREM InductiveInvariant == Spec => []IInv
BY InitIInv, NextIInv, PTL DEF Spec

(* Every variable keeps its type for every set of tasks and processes: in        *)
(* particular the two saturating lease columns stay in the range TLC checks.      *)
THEOREM TypeCorrect == Spec => []TypeOK
BY InductiveInvariant, PTL DEF IInv

(* The claim's, the report's and the discovery query's SQL conditions agree for   *)
(* every TTL: no window in which two workers may both act, none in which a shown  *)
(* task cannot be claimed.                                                        *)
THEOREM WindowsAgree == Spec => []LeaseWindowsAgree
<1>1. IInv => LeaseWindowsAgree
  <2> SUFFICES ASSUME IInv, NEW t \in Task
               PROVE  /\ \A w \in Worker : HoldsLease(w, t) =>
                           ~Runnable(t) /\ \A v \in Worker \ {w} : ~Eligible(v, t)
                      /\ Runnable(t) => \A w \in Worker : Eligible(w, t)
    BY DEF LeaseWindowsAgree
  <2>1. lease[t] # NoLease =>
          /\ lease[t].age \in 0..(TTL + 1) /\ lease[t].left \in (-1)..TTL
          /\ lease[t].age + lease[t].left = TTL
          /\ runtimeStatus[t] = "RUNNING"
    BY DEF IInv, TypeOK, StoreTypeOK, LeaseShape, Lease
  <2>2. TTL \in Nat
    BY TTLAssumption
  <2>. QED  BY <2>1, <2>2 DEF HoldsLease, Runnable, Eligible
<1>. QED  BY <1>1, InductiveInvariant, PTL

(* Comparing worker ids fences claims: an attempt whose report would be accepted *)
(* made the latest claim, for every number of workers and interleaving.          *)
THEOREM Fenced == Spec => []ReportIsFenced
<1>1. IInv => ReportIsFenced
  BY DEF IInv, FenceShape, ReportIsFenced, HoldsLease
<1>. QED  BY <1>1, InductiveInvariant, PTL

(* The newest event about a finished task names its current version.             *)
THEOREM Announced == Spec => []ResultIsAnnounced
BY InductiveInvariant, PTL DEF IInv

-----------------------------------------------------------------------------
(* The refinement: each step of TaskLease is a step of GrantedResult or none. *)

gPhase == [t \in Task |-> PhaseOf(runtimeStatus[t])]
gAnnounced == [t \in Task |-> IF lastEvent[t] = NoEvent THEN NoVersion
                              ELSE lastEvent[t].version]

LEMMA InitGranted == Init => Granted!GInit
BY NullAssumption DEF Init, StoreInit, Granted!GInit, PhaseOf

(* PENDING and unclaimed is "open"; no event is written. *)
LEMMA ReopenGranted ==
  ASSUME IInv, NEW t \in Task, NEW r \in {currentVersion[t], NoVersion},
         runtimeStatus' = [runtimeStatus EXCEPT ![t] = "PENDING"],
         currentVersion' = [currentVersion EXCEPT ![t] = r],
         fence' = [fence EXCEPT ![t] = NoWorker],
         lastEvent' = lastEvent
  PROVE  Granted!GNext
<1>1. gPhase' = [gPhase EXCEPT ![t] = "open"]
  BY DEF gPhase, PhaseOf, IInv, TypeOK, StoreTypeOK
<1>2. gAnnounced' = gAnnounced
  BY DEF gAnnounced
<1>3. r \in Version \cup {NoVersion}
  BY DEF IInv, TypeOK, StoreTypeOK
<1>4. Granted!Reopen(t, r)
  BY <1>1, <1>2 DEF Granted!Reopen, gPhase, gAnnounced
<1>. QED  BY <1>3, <1>4 DEF Granted!GNext

LEMMA ClaimGranted ==
  ASSUME IInv, NEW w \in Worker, NEW t \in Task, NEW a \in Worker \cup {NoWorker},
         ClaimTask(w, t), fence' = [fence EXCEPT ![t] = a]
  PROVE  Granted!GNext
<1>1. gPhase' = [gPhase EXCEPT ![t] = "granted"]
  BY DEF gPhase, PhaseOf, ClaimTask, IInv, TypeOK, StoreTypeOK
<1>2. gAnnounced' = gAnnounced /\ currentVersion' = currentVersion
  BY DEF gAnnounced, ClaimTask
<1>3. gPhase[t] # "decided"
  BY DEF gPhase, PhaseOf, ClaimTask, Eligible
<1>4. Granted!Grant(t, a)
  BY <1>1, <1>2, <1>3 DEF Granted!Grant, gPhase, gAnnounced
<1>. QED  BY <1>4 DEF Granted!GNext

LEMMA ReportGranted ==
  ASSUME IInv, NEW w \in Worker, NEW t \in Task, ReportAccepted(w, t)
  PROVE  Granted!GNext
<1> DEFINE type == attempt[w][t]
           version == [type |-> type, by |-> w]
           event == [topic |-> IF type = "OUTPUT" THEN "task_completed" ELSE "task_failed",
                     version |-> version]
<1>1. version \in Version /\ event \in Event /\ event.version = version /\ version.by = w
  BY DEF ReportAccepted, VersionType, Version, Event
<1>2. /\ runtimeStatus' = [runtimeStatus EXCEPT
                             ![t] = IF type = "OUTPUT" THEN "SUCCEEDED" ELSE "FAILED"]
      /\ currentVersion' = [currentVersion EXCEPT ![t] = version]
      /\ lastEvent' = [lastEvent EXCEPT ![t] = event]
      /\ fence' = [fence EXCEPT ![t] = IF @ = w THEN NoWorker ELSE @]
  BY DEF ReportAccepted, ReportTask, EndAttempt
<1>3. fence[t] = w /\ runtimeStatus[t] = "RUNNING"
  BY DEF ReportAccepted, ReportTask, HoldsLease, VersionType, IInv, FenceShape, LeaseShape
<1>. HIDE DEF version, event
<1>4. gPhase' = [gPhase EXCEPT ![t] = "decided"] /\ gPhase[t] = "granted"
  BY <1>2, <1>3 DEF gPhase, PhaseOf, IInv, TypeOK, StoreTypeOK
<1>5. gAnnounced' = [gAnnounced EXCEPT ![t] = version]
  <2>1. \A u \in Task : gAnnounced'[u] = IF u = t THEN version ELSE gAnnounced[u]
    BY <1>1, <1>2, NullAssumption DEF gAnnounced, IInv, TypeOK, StoreTypeOK
  <2>. QED  BY <2>1 DEF gAnnounced
<1>6. fence' = [fence EXCEPT ![t] = NoWorker]
  BY <1>2, <1>3 DEF IInv, TypeOK
<1>7. PICK r \in Version : r = version
  BY <1>1
<1>8. Granted!Decide(t, w, r)
  BY <1>1, <1>2, <1>3, <1>4, <1>5, <1>6, <1>7 DEF Granted!Decide, gPhase, gAnnounced, AuthorOf
<1>. QED  BY <1>8 DEF Granted!GNext

(* A refused report loses the fence of one task, a crash those of the process. *)
LEMMA GiveUpGranted ==
  ASSUME IInv, NEW w \in Worker, NEW S \in SUBSET Task,
         \A t \in S : fence[t] = w,
         fence' = [t \in Task |-> IF t \in S THEN NoWorker ELSE fence[t]],
         UNCHANGED storeVars
  PROVE  Granted!GNext
<1>1. Granted!GiveUp(w, S)
  BY DEF Granted!GiveUp, storeVars
<1>. QED  BY <1>1 DEF Granted!GNext

LEMMA CreateGranted ==
  ASSUME IInv, NEW c \in Client, NEW t \in Task, CreateTask(c, t)
  PROVE  UNCHANGED Granted!gvars
<1>1. gPhase' = gPhase
  BY DEF gPhase, PhaseOf, CreateTask, CreateComputationalTask, IInv, TypeOK, StoreTypeOK
<1>. QED  BY <1>1 DEF gPhase, CreateTask, CreateComputationalTask, Granted!gvars

LEMMA QuietGranted ==
  ASSUME UNCHANGED <<runtimeStatus, currentVersion, lastEvent, fence>>
  PROVE  UNCHANGED Granted!gvars
BY DEF Granted!gvars

LEMMA StepGranted == IInv /\ [Next]_vars => [Granted!GNext]_(Granted!gvars)
<1> SUFFICES ASSUME IInv, [Next]_vars PROVE Granted!GNext \/ UNCHANGED Granted!gvars
  OBVIOUS
<1>1. CASE \E c \in Client, t \in Task : ClientNext(c, t)
  <2>1. PICK c \in Client, t \in Task : ClientNext(c, t)
    BY <1>1
  <2>2. CASE ScheduleTask(c, t)
    <3>1. currentVersion' = [currentVersion EXCEPT ![t] = currentVersion[t]]
      BY <2>2 DEF ScheduleTask, ScheduleTaskForExecution, IInv, TypeOK, StoreTypeOK
    <3>. QED  BY <2>2, <3>1, ReopenGranted DEF ScheduleTask, ScheduleTaskForExecution
  <2>3. CASE ForgetTask(c, t)
    BY <2>3, QuietGranted DEF ForgetTask, storeVars
  <2>. QED  BY <2>1, <2>2, <2>3, CreateGranted DEF ClientNext
<1>2. CASE \E t \in Task : Refresh(t)
  <2>1. PICK t \in Task : Refresh(t)
    BY <1>2
  <2>2. PICK clearVersion \in BOOLEAN : RefreshTask(t, clearVersion)
    BY <2>1 DEF Refresh
  <2>3. PICK r \in {currentVersion[t], NoVersion} :
          currentVersion' = [currentVersion EXCEPT ![t] = r]
    BY <2>2 DEF RefreshTask
  <2>. QED  BY <2>1, <2>2, <2>3, ReopenGranted DEF Refresh, RefreshTask
<1>3. CASE \E w \in Worker, t \in Task : WorkerNext(w, t)
  <2>1. PICK w \in Worker, t \in Task : WorkerNext(w, t)
    BY <1>3
  <2>2. CASE ClaimRefused(w, t) \/ FinishExecution(w, t)
    BY <2>2, QuietGranted DEF ClaimRefused, FinishExecution, storeVars
  <2>3. CASE ClaimAndStart(w, t) \/ ClaimAnswerLost(w, t)
    BY <2>3, ClaimGranted DEF ClaimAndStart, ClaimAnswerLost
  <2>4. CASE ReportRefused(w, t)
    <3> DEFINE S == IF fence[t] = w THEN {t} ELSE {}
    <3>1. fence' = [u \in Task |-> IF u \in S THEN NoWorker ELSE fence[u]]
      BY <2>4 DEF ReportRefused, EndAttempt, IInv, TypeOK
    <3>2. UNCHANGED storeVars /\ S \in SUBSET Task /\ \A u \in S : fence[u] = w
      BY <2>4 DEF ReportRefused
    <3>. HIDE DEF S
    <3>. QED  BY <3>1, <3>2, GiveUpGranted
  <2>. QED  BY <2>1, <2>2, <2>3, <2>4, ReportGranted DEF WorkerNext
<1>4. CASE \E w \in Worker : Poll(w)
  BY <1>4, QuietGranted DEF Poll, storeVars
<1>7. CASE \E w \in Worker : Crash(w)
  <2>1. PICK w \in Worker : Crash(w)
    BY <1>7
  <2> DEFINE S == {t \in Task : fence[t] = w}
  <2>2. /\ fence' = [t \in Task |-> IF t \in S THEN NoWorker ELSE fence[t]]
        /\ UNCHANGED storeVars
    BY <2>1 DEF Crash
  <2>. QED  BY <2>2, GiveUpGranted
<1>5. CASE ClockTick
  BY <1>5, QuietGranted DEF ClockTick, Tick
<1>6. CASE UNCHANGED vars
  BY <1>6, QuietGranted DEF vars, storeVars
<1>. QED  BY <1>1, <1>2, <1>3, <1>4, <1>5, <1>6, <1>7 DEF Next

(* The rows, leases, crashes and lost answers implement the granted cell: a      *)
(* result is recorded and announced once per grant, by the latest grant's        *)
(* attempt, and only scheduling or refreshing reopens a decided task.            *)
THEOREM Refinement == Spec => ImplementsGrantedResult
BY InitGranted, InductiveInvariant, StepGranted, PTL
   DEF Spec, ImplementsGrantedResult, Granted!GSpec
=============================================================================

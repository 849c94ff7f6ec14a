------------------------------ MODULE TaskLease ------------------------------
(***************************************************************************)
(* Computational tasks: pipeline-runner processes (Client) create and      *)
(* schedule them, typescript-worker processes (Worker) poll, claim,        *)
(* execute and report them, against the rows of TaskStore.                 *)
(*                                                                         *)
(* A worker's executeTask is several awaited calls: claimTask, the action  *)
(* itself, createVersion, then the report.  Other processes and the clock  *)
(* move between any two of them, and the process may die between them.     *)
(***************************************************************************)
EXTENDS TaskStore, FiniteSets

CONSTANTS
  Client,    \* pipeline-runner processes
  BatchSize, \* tasks a poll of findRunnableTasks returns at most
  NoWorker   \* no attempt owns the task's latest claim

ASSUME BatchSizeAssumption == BatchSize \in Nat \ {0}
ASSUME NoWorkerAssumption == NoWorker \notin Worker

VARIABLES
  attempt,   \* executeTask of a worker on a task: where it is
  known,     \* tasks a worker's TaskIterator has yielded or keeps for a retry
  cursor,    \* TaskIterator.lastCursor, 0 for null
  alive,     \* worker processes that have not died
  creating,  \* createTask of a client on a task: where it is, or in its taskCache
  fence,     \* history: the worker whose running attempt made the latest claim
  dropped    \* history: tasks whose latest claim ended in a dropped result

vars == <<storeVars, attempt, known, cursor, alive, creating, fence, dropped>>

AttemptState == {"idle", "executing", "OUTPUT", "ERROR"}  \* the last two: version created
CreateState == {"none", "created", "cached"}

TypeOK ==
  /\ StoreTypeOK
  /\ attempt \in [Worker -> [Task -> AttemptState]]
  /\ known \in [Worker -> SUBSET Task]
  /\ cursor \in [Worker -> Task \cup {0}]
  /\ alive \in SUBSET Worker
  /\ creating \in [Client -> [Task -> CreateState]]
  /\ fence \in [Task -> Worker \cup {NoWorker}]
  /\ dropped \in SUBSET Task

Init ==
  /\ StoreInit
  /\ attempt = [w \in Worker |-> [t \in Task |-> "idle"]]
  /\ known = [w \in Worker |-> {}]
  /\ cursor = [w \in Worker |-> 0]
  /\ alive = Worker
  /\ creating = [c \in Client |-> [t \in Task |-> "none"]]
  /\ fence = [t \in Task |-> NoWorker]
  /\ dropped = {}

-----------------------------------------------------------------------------
(* PipelineGraphQLClient.createTask: two mutations, behind an LRU cache. *)

CreateTask(c, t) ==
  /\ creating[c][t] = "none"
  /\ CreateComputationalTask(t)
  /\ creating' = [creating EXCEPT ![c][t] = "created"]
  /\ UNCHANGED <<attempt, known, cursor, alive, fence, dropped>>

(* The second mutation.  RetryLink sends it again when the answer is lost, so *)
(* it may take effect more than once before the promise is cached.           *)
ScheduleTask(c, t) ==
  /\ creating[c][t] = "created"
  /\ ScheduleTaskForExecution(t)
  /\ \E answered \in BOOLEAN :
       creating' = [creating EXCEPT ![c][t] = IF answered THEN "cached" ELSE "created"]
  /\ fence' = [fence EXCEPT ![t] = NoWorker]
  /\ dropped' = dropped \ {t}
  /\ UNCHANGED <<attempt, known, cursor, alive>>

(* The cache entry expires, is evicted or deleted on error, or the process restarts. *)
ForgetTask(c, t) ==
  /\ creating[c][t] # "none"
  /\ creating' = [creating EXCEPT ![c][t] = "none"]
  /\ UNCHANGED <<storeVars, attempt, known, cursor, alive, fence, dropped>>

(* refreshTask from any API client; with clearVersion, requestNodeRerun. *)
Refresh(t) ==
  /\ \E clearVersion \in BOOLEAN : RefreshTask(t, clearVersion)
  /\ fence' = [fence EXCEPT ![t] = NoWorker]
  /\ dropped' = dropped \ {t}
  /\ UNCHANGED <<attempt, known, cursor, alive, creating>>

-----------------------------------------------------------------------------
(* The worker. *)

(* TaskIterator: a poll yields the page of runnable tasks after the cursor. *)
AfterCursor(w) == {t \in Task : t > cursor[w] /\ Runnable(t)}

Page(w) == {t \in AfterCursor(w) : Cardinality({u \in AfterCursor(w) : u < t}) < BatchSize}

(* The cursor moves to the end of the page when there is another; it never goes back. *)
Poll(w) ==
  /\ w \in alive
  /\ \E last \in Page(w) :
       /\ \A t \in Page(w) : t <= last
       /\ cursor' = [cursor EXCEPT ![w] = IF Page(w) = AfterCursor(w) THEN @ ELSE last]
  /\ known' = [known EXCEPT ![w] = @ \cup Page(w)]
  /\ UNCHANGED <<storeVars, attempt, alive, creating, fence, dropped>>

(* Start of executeTask on a yielded task that is not in activeTasks. *)
CanStart(w, t) ==
  /\ w \in alive
  /\ t \in known[w]
  /\ attempt[w][t] = "idle"

ClaimAndStart(w, t) ==
  /\ CanStart(w, t)
  /\ ClaimTask(w, t)
  /\ attempt' = [attempt EXCEPT ![w][t] = "executing"]
  /\ fence' = [fence EXCEPT ![t] = w]
  /\ dropped' = dropped \ {t}
  /\ UNCHANGED <<known, cursor, alive, creating>>

(* The claim took effect but its answer was lost: the client maps the error *)
(* to null and the worker gives the task up as somebody else's.             *)
ClaimAnswerLost(w, t) ==
  /\ CanStart(w, t)
  /\ ClaimTask(w, t)
  /\ known' = [known EXCEPT ![w] = @ \ {t}]
  /\ fence' = [fence EXCEPT ![t] = NoWorker]
  /\ dropped' = dropped \ {t}
  /\ UNCHANGED <<attempt, cursor, alive, creating>>

ClaimRefused(w, t) ==
  /\ CanStart(w, t)
  /\ ~Eligible(w, t)
  /\ known' = [known EXCEPT ![w] = @ \ {t}]
  /\ UNCHANGED <<storeVars, attempt, cursor, alive, creating, fence, dropped>>

(* The action returns or throws, its asset is stored and its version created. *)
FinishExecution(w, t) ==
  /\ attempt[w][t] = "executing"
  /\ \E type \in VersionType : attempt' = [attempt EXCEPT ![w][t] = type]
  /\ UNCHANGED <<storeVars, known, cursor, alive, creating, fence, dropped>>

EndAttempt(w, t) ==
  /\ attempt' = [attempt EXCEPT ![w][t] = "idle"]
  /\ known' = [known EXCEPT ![w] = @ \ {t}]
  /\ fence' = [fence EXCEPT ![t] = IF @ = w THEN NoWorker ELSE @]
  /\ UNCHANGED <<cursor, alive, creating>>

ReportAccepted(w, t) ==
  /\ attempt[w][t] \in VersionType
  /\ ReportTask(w, t, attempt[w][t])
  /\ EndAttempt(w, t)
  /\ UNCHANGED dropped

(* "lease may have expired": the result is dropped. *)
ReportRefused(w, t) ==
  /\ attempt[w][t] \in VersionType
  /\ ~HoldsLease(w, t)
  /\ EndAttempt(w, t)
  /\ dropped' = IF fence[t] = w THEN dropped \cup {t} ELSE dropped
  /\ UNCHANGED storeVars

(* The process dies, killed or by the unhandled rejection of a failed call of  *)
(* executeTask.  A restarted one has a new id.                                 *)
Crash(w) ==
  /\ w \in alive
  /\ alive' = alive \ {w}
  /\ attempt' = [attempt EXCEPT ![w] = [t \in Task |-> "idle"]]
  /\ known' = [known EXCEPT ![w] = {}]
  /\ fence' = [t \in Task |-> IF fence[t] = w THEN NoWorker ELSE fence[t]]
  /\ UNCHANGED <<storeVars, cursor, creating, dropped>>

ClockTick == Tick /\ UNCHANGED <<attempt, known, cursor, alive, creating, fence, dropped>>

ClientNext(c, t) == CreateTask(c, t) \/ ScheduleTask(c, t) \/ ForgetTask(c, t)

WorkerNext(w, t) ==
  \/ ClaimAndStart(w, t)
  \/ ClaimAnswerLost(w, t)
  \/ ClaimRefused(w, t)
  \/ FinishExecution(w, t)
  \/ ReportAccepted(w, t)
  \/ ReportRefused(w, t)

Next ==
  \/ \E c \in Client, t \in Task : ClientNext(c, t)
  \/ \E t \in Task : Refresh(t)
  \/ \E w \in Worker, t \in Task : WorkerNext(w, t)
  \/ \E w \in Worker : Poll(w) \/ Crash(w)
  \/ ClockTick

Spec == Init /\ [][Next]_vars

(* The clock runs; a live worker keeps polling (every pollInterval), tries what *)
(* it was shown, and its actions end.  Nothing forces a client, a refresh or a  *)
(* crash.                                                                       *)
Fairness ==
  /\ WF_vars(ClockTick)
  /\ \A w \in Worker : WF_vars(Poll(w))
  /\ \A w \in Worker, t \in Task :
       /\ WF_vars(ClaimAndStart(w, t) \/ ClaimRefused(w, t))
       /\ WF_vars(FinishExecution(w, t))
       /\ WF_vars(ReportAccepted(w, t) \/ ReportRefused(w, t))

LiveSpec == Spec /\ Fairness

-----------------------------------------------------------------------------
(* Properties. *)

(* The three SQL conditions on a lease are written over different columns: the  *)
(* claim's over claim_timestamp and claim_ttl_seconds, the report's and the     *)
(* discovery's over expiration_time.  While a report of the holder would still  *)
(* be accepted nobody else is shown the task or can claim it, and a task that   *)
(* is shown can be claimed by whoever is shown it.                              *)
LeaseWindowsAgree ==
  \A t \in Task :
    /\ \A w \in Worker : HoldsLease(w, t) =>
         ~Runnable(t) /\ \A v \in Worker \ {w} : ~Eligible(v, t)
    /\ Runnable(t) => \A w \in Worker : Eligible(w, t)

(* The report's check compares worker ids, not claims.  It is a fence all the    *)
(* same: an attempt whose report would be accepted is the one that made the      *)
(* latest claim of the task, not one left over from an expired or revoked lease. *)
ReportIsFenced ==
  \A w \in Worker, t \in Task :
    HoldsLease(w, t) /\ attempt[w][t] # "idle" => fence[t] = w

(* A finished task and the event log agree: the newest event about it has the    *)
(* topic of its status and names its current version, whose type fits both.      *)
ResultIsAnnounced ==
  \A t \in Task :
    runtimeStatus[t] \in {"SUCCEEDED", "FAILED"} =>
      LET type == IF runtimeStatus[t] = "SUCCEEDED" THEN "OUTPUT" ELSE "ERROR"
          topic == IF type = "OUTPUT" THEN "task_completed" ELSE "task_failed"
      IN  /\ currentVersion[t] # NoVersion
          /\ currentVersion[t].type = type
          /\ lastEvent[t] = [topic |-> topic, version |-> currentVersion[t]]

(* The refinement: leases, clock and processes implement the granted cell. *)
PhaseOf(s) == IF s \in {"SUCCEEDED", "FAILED"} THEN "decided"
              ELSE IF s = "RUNNING" THEN "granted" ELSE "open"
AuthorOf(v) == v.by

Granted == INSTANCE GrantedResult WITH
  Agent <- Worker, NoAgent <- NoWorker, Result <- Version, NoResult <- NoVersion,
  Author <- AuthorOf,
  phase <- [t \in Task |-> PhaseOf(runtimeStatus[t])],
  grant <- fence,
  result <- currentVersion,
  announced <- [t \in Task |-> IF lastEvent[t] = NoEvent THEN NoVersion
                               ELSE lastEvent[t].version]

(* Every step of clients, workers and clock is a step of the granted cell or     *)
(* changes none of it: a result is recorded and announced once per grant, by the *)
(* attempt of the latest grant.                                                  *)
ImplementsGrantedResult == Granted!GSpec

(* A task nobody works on: free, or held by a process that died.  Without a      *)
(* result on record it is taken up again, as long as some worker lives.          *)
Waiting(t) ==
  /\ currentVersion[t] = NoVersion
  /\ \/ runtimeStatus[t] = "PENDING"
     \/ runtimeStatus[t] = "RUNNING" /\ lease[t].worker \notin alive

WaitingTaskIsTaken == \A t \in Task : Waiting(t) ~> (~Waiting(t) \/ alive = {})

(* What executeTask logs when it drops a result: "Worker lease expired. Task     *)
(* will be rescheduled by another worker."  A task whose latest claim ended that *)
(* way is claimed, scheduled or refreshed again.                                 *)
DroppedTaskIsRescheduled ==
  \A t \in Task : t \in dropped ~> (t \notin dropped \/ alive = {})
=============================================================================

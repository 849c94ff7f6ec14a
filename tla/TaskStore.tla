------------------------------ MODULE TaskStore ------------------------------
(***************************************************************************)
(* The rows the GraphQL server keeps for a task, and the transactions that *)
(* change them (graphql-server/src/db/database-operations.ts).  The server *)
(* is one process over better-sqlite3: a mutation is one synchronous       *)
(* transaction, so each operator below is the whole of one mutation.       *)
(*                                                                         *)
(* Time is relative.  A lease keeps the two columns the code compares with *)
(* the clock: `age`, now - claim_timestamp, which the claim's SQL compares *)
(* with claim_ttl_seconds, and `left`, expiration_time - now, which the    *)
(* report's and the discovery query's SQL compare with 0.  Both saturate   *)
(* one tick past expiry: no comparison in the code looks further.          *)
(***************************************************************************)
EXTENDS Integers

CONSTANTS
  Task,       \* task_id of the rows of Tasks; ids are ordered
  Worker,     \* claim_worker_id values; a process makes a fresh one when it starts
  TTL,        \* claim_ttl_seconds, in ticks of the clock
  NoLease,    \* claim columns NULL
  NoVersion,  \* current_version_id NULL
  NoEvent     \* no row of EventLog is about the task

VersionType == {"OUTPUT", "ERROR"}
Version == [type : VersionType, by : Worker]
Lease == [worker : Worker, age : 0..(TTL + 1), left : (-1)..TTL]
Event == [topic : {"task_completed", "task_failed"}, version : Version]

ASSUME TaskAssumption == Task \subseteq Nat \ {0}
ASSUME TTLAssumption == TTL \in Nat \ {0}
ASSUME NullAssumption ==
  /\ NoLease \notin Lease
  /\ NoVersion \notin Version
  /\ NoEvent \notin Event

VARIABLES
  runtimeStatus,   \* TaskExecutionStates.runtime_status, "ABSENT" before the task exists
  lease,           \* the claim columns of TaskExecutionStates
  currentVersion,  \* Tasks.current_version_id and that version's type tag
  lastEvent        \* the newest row of EventLog about the task

storeVars == <<runtimeStatus, lease, currentVersion, lastEvent>>

Status == {"ABSENT", "PENDING", "RUNNING", "SUCCEEDED", "FAILED"}

StoreTypeOK ==
  /\ runtimeStatus \in [Task -> Status]
  /\ lease \in [Task -> Lease \cup {NoLease}]
  /\ currentVersion \in [Task -> Version \cup {NoVersion}]
  /\ lastEvent \in [Task -> Event \cup {NoEvent}]

StoreInit ==
  /\ runtimeStatus = [t \in Task |-> "ABSENT"]
  /\ lease = [t \in Task |-> NoLease]
  /\ currentVersion = [t \in Task |-> NoVersion]
  /\ lastEvent = [t \in Task |-> NoEvent]

-----------------------------------------------------------------------------
(* What the queries and the WHERE clauses test. *)

HasTerminalVersion(t) ==
  /\ currentVersion[t] # NoVersion
  /\ currentVersion[t].type \in VersionType

(* Mutant: a poll is shown PENDING tasks only, never an expired claim. *)
RunnableWhenPending(t) == runtimeStatus[t] = "PENDING" /\ ~HasTerminalVersion(t)

(* The WHERE clause of findRunnableTasks: what a polling worker is shown. *)
Runnable(t) ==
  /\ \/ runtimeStatus[t] = "PENDING"
     \/ runtimeStatus[t] = "RUNNING" /\ lease[t] # NoLease /\ lease[t].left < 0
  /\ ~HasTerminalVersion(t)

(* Mutant: a failed task may be claimed again without being scheduled. *)
EligibleAfterFailure(w, t) ==
  \/ runtimeStatus[t] \in {"PENDING", "FAILED"}
  \/ /\ runtimeStatus[t] = "RUNNING"
     /\ lease[t] # NoLease
     /\ \/ lease[t].age > TTL
        \/ lease[t].worker = w /\ lease[t].age <= TTL

(* The WHERE clause of a claim: free, expired, or the caller's own and unexpired. *)
Eligible(w, t) ==
  \/ runtimeStatus[t] = "PENDING"
  \/ /\ runtimeStatus[t] = "RUNNING"
     /\ lease[t] # NoLease
     /\ \/ lease[t].age > TTL
        \/ lease[t].worker = w /\ lease[t].age <= TTL

(* Mutants: the report's check forgets the clock, or whose claim it is. *)
HoldsLeaseForever(w, t) == lease[t] # NoLease /\ lease[t].worker = w
HoldsAnyLease(w, t) == lease[t] # NoLease /\ lease[t].left > 0

(* The WHERE clause of a report. *)
HoldsLease(w, t) ==
  /\ lease[t] # NoLease
  /\ lease[t].worker = w
  /\ lease[t].left > 0

-----------------------------------------------------------------------------
(* The transactions. *)

NewLease(w) == [worker |-> w, age |-> 0, left |-> TTL]

(* An existing task is returned as it is; a new one starts PENDING. *)
CreateComputationalTask(t) ==
  /\ runtimeStatus' = [runtimeStatus EXCEPT ![t] = IF @ = "ABSENT" THEN "PENDING" ELSE @]
  /\ UNCHANGED <<lease, currentVersion, lastEvent>>

(* INSERT OR REPLACE: whatever the row was, it is PENDING and unclaimed now. *)
ScheduleTaskForExecution(t) ==
  /\ runtimeStatus[t] # "ABSENT"
  /\ runtimeStatus' = [runtimeStatus EXCEPT ![t] = "PENDING"]
  /\ lease' = [lease EXCEPT ![t] = NoLease]
  /\ UNCHANGED <<currentVersion, lastEvent>>

ClaimTask(w, t) ==
  /\ Eligible(w, t)
  /\ runtimeStatus' = [runtimeStatus EXCEPT ![t] = "RUNNING"]
  /\ lease' = [lease EXCEPT ![t] = NewLease(w)]
  /\ UNCHANGED <<currentVersion, lastEvent>>

(* Mutants: a report that leaves the status a node would get, and one that      *)
(* announces every result as a completion.                                      *)
ReportTaskAsNode(w, t, type) ==
  /\ HoldsLease(w, t)
  /\ runtimeStatus' = [runtimeStatus EXCEPT ![t] = "IDLE"]
  /\ lease' = [lease EXCEPT ![t] = NoLease]
  /\ currentVersion' = [currentVersion EXCEPT ![t] = [type |-> type, by |-> w]]
  /\ lastEvent' = [lastEvent EXCEPT
       ![t] = [topic |-> "task_completed", version |-> [type |-> type, by |-> w]]]

ReportTaskAsCompleted(w, t, type) ==
  /\ HoldsLease(w, t)
  /\ runtimeStatus' = [runtimeStatus EXCEPT
                         ![t] = IF type = "OUTPUT" THEN "SUCCEEDED" ELSE "FAILED"]
  /\ lease' = [lease EXCEPT ![t] = NoLease]
  /\ currentVersion' = [currentVersion EXCEPT ![t] = [type |-> type, by |-> w]]
  /\ lastEvent' = [lastEvent EXCEPT
       ![t] = [topic |-> "task_completed", version |-> [type |-> type, by |-> w]]]

(* reportTaskSuccess and reportTaskFailure: status, claim columns, current  *)
(* version and event in one transaction.                                    *)
ReportTask(w, t, type) ==
  LET version == [type |-> type, by |-> w] IN
  /\ HoldsLease(w, t)
  /\ runtimeStatus' = [runtimeStatus EXCEPT
                         ![t] = IF type = "OUTPUT" THEN "SUCCEEDED" ELSE "FAILED"]
  /\ lease' = [lease EXCEPT ![t] = NoLease]
  /\ currentVersion' = [currentVersion EXCEPT ![t] = version]
  /\ lastEvent' = [lastEvent EXCEPT
       ![t] = [topic |-> IF type = "OUTPUT" THEN "task_completed" ELSE "task_failed",
               version |-> version]]

(* clearVersion is set by requestNodeRerun and unset by the refreshTask mutation. *)
RefreshTask(t, clearVersion) ==
  /\ runtimeStatus[t] \in {"SUCCEEDED", "FAILED"}
  /\ runtimeStatus' = [runtimeStatus EXCEPT ![t] = "PENDING"]
  /\ lease' = [lease EXCEPT ![t] = NoLease]
  /\ currentVersion' = [currentVersion EXCEPT ![t] = IF clearVersion THEN NoVersion ELSE @]
  /\ UNCHANGED lastEvent

(* The clock. *)
Aged(l) == [worker |-> l.worker,
            age    |-> IF l.age > TTL THEN l.age ELSE l.age + 1,
            left   |-> IF l.left < 0 THEN l.left ELSE l.left - 1]

Tick ==
  /\ lease' = [t \in Task |-> IF lease[t] = NoLease THEN NoLease ELSE Aged(lease[t])]
  /\ UNCHANGED <<runtimeStatus, currentVersion, lastEvent>>
=============================================================================

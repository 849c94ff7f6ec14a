---------------------------- MODULE RevisionStore ----------------------------
(***************************************************************************)
(* The rows the GraphQL server keeps for one workflow instance task: its    *)
(* revisions, the node states of each revision, the computational tasks     *)
(* behind the nodes, and EventLog; and the mutations that change them       *)
(* (graphql-server/src/db/database-operations.ts, resolvers/mutations.ts).  *)
(* A mutation is one synchronous transaction, so each operator is a whole   *)
(* mutation; what its resolver reads before an await is a parameter.        *)
(*                                                                         *)
(* The pipeline is a chain or tree of regular nodes with one context.  A    *)
(* task is what its UNIQUE row says it is: a node's action on an input.     *)
(***************************************************************************)
EXTENDS Naturals, Sequences, FiniteSets

CONSTANTS
  Node,         \* nodes of the pipeline
  Value,        \* asset hashes of inputs and outputs
  MaxRevision,  \* bound: revisions of the workflow instance
  NoRow,        \* no row of WorkflowRevisionNodeStates
  Null,         \* SQL NULL, and a field a GraphQL caller gives as null
  Keep,         \* '__KEEP__', what the server puts for a field not given
  Error         \* the current version is an ERROR

ASSUME BoundAssumption == MaxRevision \in Nat \ {0}
ASSUME DistinctAssumption ==
  /\ Error \notin Value /\ Null \notin Value /\ Keep \notin Value
  /\ Null # Keep /\ Null # Error
  /\ Null \notin Node \X Value /\ Keep \notin Node \X Value

Task == Node \X Value
Revision == 1..MaxRevision

Dependency == {"FRESH", "STALE"}
Runtime == {"IDLE", "RUNNING", "FAILED"}
Row == [dep : Dependency, run : Runtime, task : Task \cup {Null, Keep},
        inputs : Value \cup {Null, Keep}]

Topic == {"task_completed", "task_failed", "task_player_submitted", "task_player_failed",
          "stale_update_revision_created", "revision_forked"}
Event == [topic : Topic, rev : Revision \cup {0}, task : Task \cup {Null},
          value : Value \cup {Null}, targets : SUBSET Node]

ASSUME NoRowAssumption == NoRow \notin Row

VARIABLES
  parent,      \* Versions.parent_version_id of the REVISION versions; 0 for NULL
  count,       \* revisions made so far
  active,      \* Tasks.active_revision_id of the workflow instance task
  rows,        \* WorkflowRevisionNodeStates
  status,      \* TaskExecutionStates.runtime_status; PENDING stands for RUNNING too
  version,     \* Tasks.current_version_id of the computational tasks
  log,         \* EventLog
  jobs         \* tasks of core:orchestrate_update_stale, by their parameters

storeVars == <<parent, count, active, rows, status, version, log, jobs>>

StoreTypeOK ==
  /\ parent \in [Revision -> 0..MaxRevision]
  /\ count \in Revision
  /\ active \in 1..count
  /\ rows \in [Revision -> [Node -> Row \cup {NoRow}]]
  /\ status \in [Task -> {"ABSENT", "PENDING", "SUCCEEDED", "FAILED"}]
  /\ version \in [Task -> Value \cup {Null, Error}]
  /\ log \in Seq(Event)
  /\ jobs \in SUBSET (Revision \X SUBSET Node)

-----------------------------------------------------------------------------
(* Node states. *)

(* The scalar AssetId (and TraceId) refuses to serialize the sentinel: a client *)
(* that asks for the field reads null.                                          *)
AsRead(field) == IF field = Keep THEN Null ELSE field

(* Mutant: an upsert that overwrites a field that was not given. *)
UpsertAll(row, w) == [dep |-> w.dep, run |-> w.run, task |-> w.task, inputs |-> w.inputs]

(* INSERT ... ON CONFLICT DO UPDATE: a field that was not given keeps its value, *)
(* and on an insert is stored as the sentinel.                                   *)
Upsert(row, w) ==
  IF row = NoRow
  THEN [dep |-> w.dep, run |-> w.run, task |-> w.task, inputs |-> w.inputs]
  ELSE [dep |-> w.dep, run |-> w.run,
        task |-> IF w.task = Keep THEN row.task ELSE w.task,
        inputs |-> IF w.inputs = Keep THEN row.inputs ELSE w.inputs]

(* updateNodeStates; ws maps the updated nodes to what is given for them. *)
UpdateNodeStates(r, ws) ==
  rows' = [rows EXCEPT ![r] =
             [n \in Node |-> IF n \in DOMAIN ws THEN Upsert(@[n], ws[n]) ELSE @[n]]]

(* listActiveWorkflowRevisionNodeStatesByTask and the variant for one revision: *)
(* the nodes whose row requires the task.                                       *)
NodesOfTask(r, t) == {n \in Node : rows[r][n] # NoRow /\ rows[r][n].task = t}

-----------------------------------------------------------------------------
(* Forks. *)

(* finalizeRevisionFork over a copy of the parent's node states, `copy`. *)
ForkTo(from, copy) ==
  /\ count < MaxRevision
  /\ count' = count + 1
  /\ parent' = [parent EXCEPT ![count + 1] = from]
  /\ active' = count + 1
  /\ rows' = [rows EXCEPT ![count + 1] = copy]

(* duplicateWorkflowRevisionNodeStates, then updateNodeRuntimeStatus. *)
Copied(from, n, run) == [rows[from] EXCEPT ![n].run = run]

HasTask(r, n) == rows[r][n] # NoRow /\ rows[r][n].task # Null

(* The log as a mutation leaves it; ids of one process ascend. *)
Announce(topic, r, t, v, targets) ==
  log' = Append(log, [topic |-> topic, rev |-> r, task |-> t, value |-> v,
                      targets |-> targets])

(* Mutant: a rerun that forgets to clear the version of the refreshed task. *)
RequestNodeRerunHidden(from, n) ==
  /\ HasTask(from, n)
  /\ status[rows[from][n].task] \in {"SUCCEEDED", "FAILED"}
  /\ ForkTo(from, Copied(from, n, "RUNNING"))
  /\ status' = [status EXCEPT ![rows[from][n].task] = "PENDING"]
  /\ UNCHANGED <<version, log, jobs>>

(* Fork, refresh the node's task with clearVersion, node RUNNING.  Anything but *)
(* a finished task makes refreshTask throw and rolls the fork back.             *)
RequestNodeRerun(from, n) ==
  /\ HasTask(from, n)
  /\ status[rows[from][n].task] \in {"SUCCEEDED", "FAILED"}
  /\ ForkTo(from, Copied(from, n, "RUNNING"))
  /\ status' = [status EXCEPT ![rows[from][n].task] = "PENDING"]
  /\ version' = [version EXCEPT ![rows[from][n].task] = Null]
  /\ UNCHANGED <<log, jobs>>

(* The job's task is UNIQUE by its parameters, the revision read among them. *)
RequestStaleNodesUpdate(from, targets) ==
  /\ <<from, targets>> \notin jobs
  /\ ForkTo(from, rows[from])
  /\ jobs' = jobs \cup {<<from, targets>>}
  /\ Announce("stale_update_revision_created", count + 1, Null, Null, targets)
  /\ UNCHANGED <<status, version>>

SubmitPlayerInput(from, n, v) ==
  /\ HasTask(from, n)
  /\ ForkTo(from, Copied(from, n, "IDLE"))
  /\ Announce("task_player_submitted", count + 1, rows[from][n].task, v, {})
  /\ UNCHANGED <<status, version, jobs>>

FailPlayerTask(from, n) ==
  /\ HasTask(from, n)
  /\ ForkTo(from, Copied(from, n, "FAILED"))
  /\ Announce("task_player_failed", count + 1, rows[from][n].task, Null, {})
  /\ UNCHANGED <<status, version, jobs>>

(* forkWorkflowRevision: the event is produced after the transaction, before the *)
(* resolver returns to the event loop.                                           *)
ForkWorkflowRevision(from) ==
  /\ ForkTo(from, rows[from])
  /\ Announce("revision_forked", count + 1, Null, Null, {})
  /\ UNCHANGED <<status, version, jobs>>

-----------------------------------------------------------------------------
(* Computational tasks. *)

(* createComputationalTask and scheduleTaskForExecution, one after the other: an *)
(* existing task is PENDING again, and keeps its version.                        *)
CreateAndSchedule(t) == status' = [status EXCEPT ![t] = "PENDING"]

(* What a polling worker is shown: no task whose version is an OUTPUT or ERROR. *)
Runnable(t) == status[t] = "PENDING" /\ version[t] = Null

(* A worker claims, executes and reports a runnable task (TaskLease has the details). *)
ReportTask(t, v) ==
  /\ Runnable(t)
  /\ version' = [version EXCEPT ![t] = v]
  /\ status' = [status EXCEPT ![t] = IF v = Error THEN "FAILED" ELSE "SUCCEEDED"]
  /\ Announce(IF v = Error THEN "task_failed" ELSE "task_completed", 0, t, Null, {})
  /\ UNCHANGED <<parent, count, active, rows, jobs>>
=============================================================================

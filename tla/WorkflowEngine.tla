---------------------------- MODULE WorkflowEngine ----------------------------
(***************************************************************************)
(* Engines take a workflow task under a lease, start it and see it through  *)
(* (pipeline-runner/src/engine).  Each engine runs four things side by side:*)
(* the discovery loop with the bootstrap it awaits, retry timers that do    *)
(* the same, the lease extension loop and the event loop.  They share the   *)
(* task's row with the other engines, through single GraphQL calls.         *)
(*                                                                          *)
(* The pipeline has one node; its task is done by some worker.  The lease   *)
(* is `left`, expiration_time - now, in ticks (TaskStore has both columns). *)
(***************************************************************************)
EXTENDS Integers, FiniteSets

CONSTANTS
  Engine,
  TTL,         \* claim_ttl_seconds, in ticks
  MaxRevision, \* bound: claims of the workflow
  MaxFault,    \* bound: crashes, failed calls and stalls
  Nobody       \* no claim; also the id of a process that is gone

ASSUME EngineAssumption ==
  /\ TTL \in Nat \ {0} /\ MaxRevision \in Nat \ {0} /\ MaxFault \in Nat
  /\ Nobody \notin Engine

VARIABLES
  status,    \* runtime_status of the workflow task
  holder, left,  \* its claim
  version,   \* type of its current version
  count,     \* its REVISION versions; the last is the active revision
  nodes,     \* runtime status of the node's row in each revision
  root,      \* the node's task
  offset,    \* the event of that task is covered by the committed offset
  up,        \* engine processes that run
  passed,    \* this event's handling is behind the engine
  seen,      \* discoveryLastCursor has passed the workflow
  timer,     \* a retry is scheduled
  tracked,   \* the workflow is in activeLeases
  watched,   \* the workflow is in activeWorkflows
  boot,      \* handleDiscoveredWorkflow: where it is, in which revision
  event,     \* handleTaskCompletedEvent: where it is
  forgot,    \* history: engines that dropped the workflow for a call that failed
  excuse,    \* history: why nobody may finish the workflow
  faults

taskVars == <<status, holder, left, version, count>>
storeVars == <<taskVars, nodes, root, offset>>
localVars == <<up, passed, seen, timer, tracked, watched>>
history == <<forgot, excuse, faults>>
vars == <<storeVars, localVars, boot, event, history>>

Outcome == {"OUTPUT", "ERROR"}
BootStep == {"none", "look", "claim", "revision", "start", "record",
             "state", "refresh", "reclaim", "report", "rows", "check"}
EventStep == {"none", "state", "refresh", "reclaim", "report", "rows", "commit"}
Excuse == {"bootstrap", "race", "stall", "again", "refused", "report", "event"}

TypeOK ==
  /\ status \in {"PENDING", "RUNNING", "SUCCEEDED", "FAILED"}
  /\ holder \in Engine \cup {Nobody} /\ left \in -1..TTL
  /\ version \in {"NONE", "REVISION"} \cup Outcome
  /\ count \in 0..MaxRevision
  /\ nodes \in [0..MaxRevision -> {"none", "RUNNING", "IDLE", "FAILED"}]
  /\ root \in {"none", "PENDING"} \cup Outcome
  /\ offset \in BOOLEAN
  /\ up \subseteq Engine /\ passed \subseteq Engine /\ seen \subseteq Engine
  /\ timer \subseteq Engine /\ tracked \subseteq Engine /\ watched \subseteq Engine
  /\ boot \in [Engine -> [step : BootStep, rev : 0..MaxRevision, root : {"none", "PENDING"} \cup Outcome]]
  /\ event \in [Engine -> [step : EventStep, rev : 0..MaxRevision]]
  /\ forgot \subseteq Engine /\ excuse \subseteq Excuse /\ faults \in 0..MaxFault

NoBoot == [step |-> "none", rev |-> 0, root |-> "none"]
NoEvent == [step |-> "none", rev |-> 0]

(* requestExecution has created the workflow task; nobody has seen it. *)
Init ==
  /\ status = "PENDING" /\ holder = Nobody /\ left = -1
  /\ version = "NONE" /\ count = 0
  /\ nodes = [r \in 0..MaxRevision |-> "none"]
  /\ root = "none" /\ offset = FALSE
  /\ up = Engine /\ passed = {} /\ seen = {} /\ timer = {} /\ tracked = {} /\ watched = {}
  /\ boot = [e \in Engine |-> NoBoot] /\ event = [e \in Engine |-> NoEvent]
  /\ forgot = {} /\ excuse = {} /\ faults = 0

Finished == version \in Outcome
RootDone == root \in Outcome

-----------------------------------------------------------------------------
(* Single calls on the workflow task. *)

Runnable == ~Finished /\ (status = "PENDING" \/ (status = "RUNNING" /\ left < 0))
(* Mutant: a claim that is good does not keep others out. *)
ClaimableByAll(e) == status \in {"PENDING", "RUNNING"}

Claimable(e) == status = "PENDING" \/ (status = "RUNNING" /\ (left < 0 \/ holder = e))
Holds(e) == holder = e /\ left > 0

Take(e) == status' = "RUNNING" /\ holder' = e /\ left' = TTL

(* executeClaimWorkflowTaskInternal: the claim and a REVISION without rows. *)
ClaimWorkflow(e) ==
  /\ Claimable(e) /\ count < MaxRevision
  /\ Take(e)
  /\ count' = count + 1 /\ version' = "REVISION"
  /\ excuse' = IF Finished THEN excuse \cup {"again"} ELSE excuse

(* refreshTask: the claim is cleared and the old version stays current. *)
RefreshWorkflow ==
  /\ status' = "PENDING" /\ holder' = Nobody /\ left' = -1
  /\ UNCHANGED <<version, count>>

(* reportTaskSuccess and reportTaskFailure. *)
RecordOutcome ==
  /\ status' = IF root = "OUTPUT" THEN "SUCCEEDED" ELSE "FAILED"
  /\ version' = root
  /\ holder' = Nobody /\ left' = -1
  /\ UNCHANGED count

-----------------------------------------------------------------------------
(* handleDiscoveredWorkflow, from the discovery loop or a timer. *)

BootAt(e, step) == e \in up /\ boot[e].step = step
BootTo(e, step) == boot' = [boot EXCEPT ![e].step = step]
BootEnds(e) == boot' = [boot EXCEPT ![e] = NoBoot]
NotTask == UNCHANGED storeVars
NotLocal == UNCHANGED localVars

(* findRunnableTasks shows the workflow; the cursor never comes back to it. *)
Discover(e) ==
  /\ BootAt(e, "none") /\ e \notin seen /\ Runnable
  /\ seen' = seen \cup {e}
  /\ IF e \in watched THEN UNCHANGED boot ELSE BootTo(e, "look")
  /\ NotTask /\ UNCHANGED <<up, passed, timer, tracked, watched, event, history>>

RetryTimer(e) ==
  /\ BootAt(e, "none") /\ e \in timer
  /\ timer' = timer \ {e}
  /\ IF e \in watched THEN UNCHANGED boot ELSE BootTo(e, "look")
  /\ NotTask /\ UNCHANGED <<up, passed, seen, tracked, watched, event, history>>

(* The engine drops the workflow: no timer, and the cursor has passed it.          *)
Forget(e) ==
  /\ faults < MaxFault /\ faults' = faults + 1
  /\ forgot' = forgot \cup {e}
  /\ BootEnds(e)

(* getTask.  Whatever checkLeaseExpirationAndScheduleRetry finds, it answers that *)
(* the task may be claimed: its query shows no task with a claim that is good.    *)
Look(e) ==
  /\ BootAt(e, "look")
  /\ IF Finished THEN BootEnds(e) ELSE BootTo(e, "claim")
  /\ NotTask /\ NotLocal /\ UNCHANGED <<event, history>>

(* A getTask that fails answers null, and the handler returns.                     *)
LookFails(e) ==
  /\ BootAt(e, "look")
  /\ Forget(e)
  /\ NotTask /\ NotLocal /\ UNCHANGED <<event, excuse>>

Claim(e) ==
  /\ BootAt(e, "claim")
  /\ ClaimWorkflow(e)
  /\ BootTo(e, "revision")
  /\ UNCHANGED <<nodes, root, offset, localVars, event, forgot, faults>>

(* Mutant: no retry is scheduled. *)
ClaimGivenUp(e) ==
  /\ BootAt(e, "claim") /\ ~Claimable(e)
  /\ BootEnds(e)
  /\ NotTask /\ NotLocal /\ UNCHANGED <<event, history>>

ClaimRefused(e) ==
  /\ BootAt(e, "claim") /\ ~Claimable(e)
  /\ timer' = timer \cup {e}
  /\ BootEnds(e)
  /\ NotTask /\ UNCHANGED <<up, passed, seen, tracked, watched, event, history>>

(* The claim took effect and its answer was lost: the client says "not claimed". *)
ClaimAnswerLost(e) ==
  /\ BootAt(e, "claim") /\ faults < MaxFault
  /\ ClaimWorkflow(e)
  /\ faults' = faults + 1
  /\ timer' = timer \cup {e}
  /\ BootEnds(e)
  /\ UNCHANGED <<nodes, root, offset, up, passed, seen, tracked, watched, event, forgot>>

(* claimWorkflowTask of the client asks for the current version in a second call. *)
ReadRevision(e) ==
  /\ BootAt(e, "revision")
  /\ boot' = [boot EXCEPT ![e] = [step |-> "start", rev |-> IF version = "REVISION" THEN count ELSE 0,
                                  root |-> "none"]]
  /\ tracked' = tracked \cup {e}
  /\ NotTask /\ UNCHANGED <<up, passed, seen, timer, watched, event, history>>

(* That call fails: the claim has no revision, and is given neither timer nor lease. *)
RevisionUnread(e) ==
  /\ BootAt(e, "revision")
  /\ Forget(e)
  /\ NotTask /\ NotLocal /\ UNCHANGED <<event, excuse>>

(* orchestrateWorkflow throws (a definition, an asset or a task cannot be read, a *)
(* row cannot be written): the lease stays tracked, and is extended for ever.     *)
BootstrapFails(e) ==
  /\ e \in up /\ boot[e].step \in {"start", "record", "state"}
  /\ Forget(e)
  /\ excuse' = excuse \cup {"bootstrap"}
  /\ NotTask /\ NotLocal /\ UNCHANGED event

(* handleWorkflowStart: createTask, and the task as getTask returns it. *)
Start(e) ==
  /\ BootAt(e, "start")
  /\ root' = IF root = "none" THEN "PENDING" ELSE root
  /\ boot' = [boot EXCEPT ![e].step = "record", ![e].root = root']
  /\ UNCHANGED <<taskVars, nodes, offset, localVars, event, history>>

RuntimeOf(t) == CASE t = "OUTPUT" -> "IDLE" [] t = "ERROR" -> "FAILED" [] OTHER -> "RUNNING"

(* Mutant: the initial tasks are left to the event bus, finished or not. *)
RecordOnly(e) ==
  /\ BootAt(e, "record")
  /\ nodes' = [nodes EXCEPT ![boot[e].rev] = RuntimeOf(root)]
  /\ BootTo(e, "check")
  /\ UNCHANGED <<taskVars, root, offset, localVars, event, history>>

(* createTaskRecord looks the status up again; the bootstrap goes by what getTask *)
(* returned before.                                                               *)
Record(e) ==
  /\ BootAt(e, "record")
  /\ nodes' = [nodes EXCEPT ![boot[e].rev] = RuntimeOf(root)]
  /\ BootTo(e, IF boot[e].root \in Outcome THEN "state" ELSE "check")
  /\ UNCHANGED <<taskVars, root, offset, localVars, event, history>>

(* updateNodeStateForCompletedTask: the rows of every revision that has one. *)
BootRows(e) ==
  /\ BootAt(e, "rows")
  /\ nodes' = [r \in 0..MaxRevision |-> IF nodes[r] = "none" THEN "none" ELSE RuntimeOf(root)]
  /\ BootTo(e, "check")
  /\ UNCHANGED <<taskVars, root, offset, localVars, event, history>>

(* checkWorkflowCompletion decides who forgets the workflow. *)
Check(e) ==
  /\ BootAt(e, "check")
  /\ IF Finished THEN tracked' = tracked \ {e} /\ UNCHANGED watched
     ELSE watched' = watched \cup {e} /\ UNCHANGED tracked
  /\ BootEnds(e)
  /\ NotTask /\ UNCHANGED <<up, passed, seen, timer, event, history>>

-----------------------------------------------------------------------------
(* The event loop. *)

EventAt(e, step) == e \in up /\ event[e].step = step
EventTo(e, step) == event' = [event EXCEPT ![e].step = step]

(* A bootstrap has created the task, saw it unfinished and has no row of it yet. *)
TooEarly(f) ==
  boot[f].step = "record" /\ boot[f].root = "PENDING" /\ nodes[boot[f].rev] = "none"

(* listActiveWorkflowRevisionNodeStatesByTask: the node's row in the active      *)
(* revision.  Without one there is nothing to do but to commit.                   *)
TakeEvent(e) ==
  /\ EventAt(e, "none") /\ RootDone /\ e \notin passed
  /\ event' = [event EXCEPT ![e] =
       [step |-> IF nodes[count] # "none" THEN "state" ELSE "commit", rev |-> count]]
  /\ excuse' = IF \E f \in up : TooEarly(f) THEN excuse \cup {"race"} ELSE excuse
  /\ NotTask /\ NotLocal /\ UNCHANGED <<boot, forgot, faults>>

(* A getTask or getVersion that fails answers null: the handler returns, or skips  *)
(* the revision, and the event is committed.                                      *)
EventUnread(e) ==
  /\ EventAt(e, "state") /\ faults < MaxFault
  /\ faults' = faults + 1
  /\ EventTo(e, "commit")
  /\ excuse' = excuse \cup {"event"}
  /\ NotTask /\ NotLocal /\ UNCHANGED <<boot, forgot>>

(* Other calls of the handler throw; the engine keeps its position and polls again. *)
EventThrows(e) ==
  /\ e \in up /\ event[e].step # "none" /\ faults < MaxFault
  /\ faults' = faults + 1
  /\ event' = [event EXCEPT ![e] = NoEvent]
  /\ NotTask /\ NotLocal /\ UNCHANGED <<boot, forgot, excuse>>

EventRows(e) ==
  /\ EventAt(e, "rows")
  /\ nodes' = [nodes EXCEPT ![event[e].rev] = RuntimeOf(root)]
  /\ EventTo(e, "commit")
  /\ UNCHANGED <<taskVars, root, offset, localVars, boot, history>>

CommitEvent(e) ==
  /\ EventAt(e, "commit")
  /\ offset' = TRUE
  /\ passed' = passed \cup {e}
  /\ event' = [event EXCEPT ![e] = NoEvent]
  /\ UNCHANGED <<taskVars, nodes, root, up, seen, timer, tracked, watched, boot, history>>

-----------------------------------------------------------------------------
(* reportTaskOutcome: getTaskExecutionState, for a finished task refreshTask and *)
(* claimTask, createVersion, then the report.  It runs in either thread.         *)

At(e, thread, step) == IF thread = "boot" THEN BootAt(e, step) ELSE EventAt(e, step)
To(e, thread, step) == IF thread = "boot" THEN BootTo(e, step) /\ UNCHANGED event
                       ELSE EventTo(e, step) /\ UNCHANGED boot
Rest == UNCHANGED <<nodes, root, offset, localVars, history>>

ReadState(e, th) ==
  /\ At(e, th, "state")
  /\ To(e, th, IF status \in {"SUCCEEDED", "FAILED"} THEN "refresh" ELSE "report")
  /\ UNCHANGED taskVars /\ Rest

Refresh(e, th) ==
  /\ At(e, th, "refresh")
  /\ IF status \in {"SUCCEEDED", "FAILED"} THEN RefreshWorkflow /\ To(e, th, "reclaim")
     ELSE UNCHANGED taskVars /\ To(e, th, "rows")
  /\ Rest

Reclaim(e, th) ==
  /\ At(e, th, "reclaim")
  /\ IF Claimable(e) THEN Take(e) /\ UNCHANGED <<version, count>> /\ To(e, th, "report")
     ELSE UNCHANGED taskVars /\ To(e, th, "rows")
  /\ Rest

(* A refused report is logged, and the handler goes on. *)
Report(e, th) ==
  /\ At(e, th, "report")
  /\ IF Holds(e) THEN RecordOutcome ELSE UNCHANGED taskVars
  /\ To(e, th, "rows")
  /\ excuse' = IF holder = e /\ left <= 0 THEN excuse \cup {"refused"} ELSE excuse
  /\ UNCHANGED <<nodes, root, offset, localVars, forgot, faults>>

(* The client catches every error and answers null or false; the handler goes on.  *)
(* A refresh or a claim may have taken effect; a report that did is Report.        *)
StateUnread(e, th) ==
  /\ At(e, th, "state") /\ To(e, th, "report")
  /\ UNCHANGED <<taskVars, excuse>>

RefreshFails(e, th) ==
  /\ At(e, th, "refresh") /\ To(e, th, "rows")
  /\ (status \in {"SUCCEEDED", "FAILED"} /\ RefreshWorkflow) \/ UNCHANGED taskVars
  /\ UNCHANGED excuse

ReclaimFails(e, th) ==
  /\ At(e, th, "reclaim") /\ To(e, th, "rows")
  /\ (Claimable(e) /\ Take(e) /\ UNCHANGED <<version, count>>) \/ UNCHANGED taskVars
  /\ UNCHANGED excuse

ReportFails(e, th) ==
  /\ At(e, th, "report") /\ To(e, th, "rows")
  /\ excuse' = excuse \cup {"report"}
  /\ UNCHANGED taskVars

CallFails(e, th) ==
  /\ faults < MaxFault /\ faults' = faults + 1
  /\ StateUnread(e, th) \/ RefreshFails(e, th) \/ ReclaimFails(e, th) \/ ReportFails(e, th)
  /\ UNCHANGED <<nodes, root, offset, localVars, forgot>>

-----------------------------------------------------------------------------
(* The loops that look after a workflow. *)

(* monitorOrchestrators.  A getTask that fails answers null: it is asked again.  *)
Monitor(e) ==
  /\ e \in up \cap watched /\ Finished
  /\ watched' = watched \ {e} /\ tracked' = tracked \ {e}
  /\ NotTask /\ UNCHANGED <<up, passed, seen, timer, boot, event, history>>

(* extendLease is claimTask.  A refusal, and a call that fails, both read as a   *)
(* lost lease, which is never asked for again.                                    *)
Extend(e) ==
  /\ e \in up \cap tracked /\ left < TTL
  /\ IF Claimable(e) THEN Take(e) /\ UNCHANGED tracked
     ELSE tracked' = tracked \ {e} /\ UNCHANGED <<status, holder, left>>
  /\ UNCHANGED <<version, count, nodes, root, offset, up, passed, seen, timer, watched,
                 boot, event, history>>

ExtendFails(e) ==
  /\ e \in up \cap tracked /\ faults < MaxFault
  /\ faults' = faults + 1
  /\ tracked' = tracked \ {e}
  /\ NotTask /\ UNCHANGED <<up, passed, seen, timer, watched, boot, event, forgot, excuse>>

-----------------------------------------------------------------------------
(* The worker, the clock and the processes. *)

FinishRoot ==
  /\ root = "PENDING"
  /\ root' \in Outcome
  /\ UNCHANGED <<taskVars, nodes, offset, localVars, boot, event, history>>

(* The extension loop looks every minute and extends at three quarters of the    *)
(* lease; a call takes far less than that.  A stall is a fault.                   *)
Timely == left # 1 \/ ~(holder \in up /\ (holder \in tracked \/ boot[holder].step = "revision"))

Tick ==
  /\ left >= 0
  /\ Timely \/ faults < MaxFault
  /\ faults' = IF Timely THEN faults ELSE faults + 1
  /\ left' = left - 1
  /\ excuse' = IF ~Timely /\ boot[holder].step = "revision" THEN excuse \cup {"stall"} ELSE excuse
  /\ UNCHANGED <<status, holder, version, count, nodes, root, offset, localVars, boot, event,
                 forgot>>

(* A new process has a new id: the claim of the old one is nobody's. *)
Crash(e) ==
  /\ e \in up /\ faults < MaxFault
  /\ faults' = faults + 1
  /\ up' = up \ {e} /\ seen' = seen \ {e} /\ timer' = timer \ {e}
  /\ tracked' = tracked \ {e} /\ watched' = watched \ {e}
  /\ passed' = IF offset THEN passed \cup {e} ELSE passed \ {e}
  /\ boot' = [boot EXCEPT ![e] = NoBoot] /\ event' = [event EXCEPT ![e] = NoEvent]
  /\ forgot' = forgot \ {e}
  /\ holder' = IF holder = e THEN Nobody ELSE holder
  /\ UNCHANGED <<status, left, version, count, nodes, root, offset, excuse>>

Restart(e) ==
  /\ e \notin up
  /\ up' = up \cup {e}
  /\ passed' = IF offset THEN passed \cup {e} ELSE passed
  /\ NotTask /\ UNCHANGED <<seen, timer, tracked, watched, boot, event, history>>

HandleDiscovered(e) == Look(e) \/ Claim(e) \/ ClaimRefused(e) \/ ReadRevision(e)

Orchestrate(e) ==
  \/ Start(e) \/ Record(e) \/ BootRows(e) \/ Check(e)
  \/ ReadState(e, "boot") \/ Refresh(e, "boot") \/ Reclaim(e, "boot") \/ Report(e, "boot")

BootNext(e) == HandleDiscovered(e) \/ Orchestrate(e)

EventNext(e) ==
  \/ TakeEvent(e) \/ EventRows(e) \/ CommitEvent(e)
  \/ ReadState(e, "event") \/ Refresh(e, "event") \/ Reclaim(e, "event") \/ Report(e, "event")

Faulty(e) ==
  \/ LookFails(e) \/ ClaimAnswerLost(e) \/ RevisionUnread(e) \/ BootstrapFails(e)
  \/ EventUnread(e) \/ EventThrows(e) \/ CallFails(e, "boot") \/ CallFails(e, "event")
  \/ ExtendFails(e) \/ Crash(e)

Next ==
  \/ \E e \in Engine :
       \/ Discover(e) \/ RetryTimer(e) \/ BootNext(e) \/ EventNext(e)
       \/ Monitor(e) \/ Extend(e) \/ Faulty(e) \/ Restart(e)
  \/ FinishRoot \/ Tick

Spec == Init /\ [][Next]_vars

(* Loops poll, timers fire, started calls go on, the clock runs, and some worker *)
(* finishes the node's task.  Nobody promises to restart a process.               *)
FairSpec ==
  /\ Spec
  /\ WF_vars(FinishRoot) /\ WF_vars(Tick)
  /\ \A e \in Engine :
       /\ WF_vars(Discover(e)) /\ WF_vars(RetryTimer(e))
       /\ WF_vars(BootNext(e)) /\ WF_vars(EventNext(e))
       /\ WF_vars(Monitor(e)) /\ WF_vars(Extend(e))

-----------------------------------------------------------------------------
(* Properties. *)

(* What may keep the outcome from a workflow.                                      *)
Hopeless == excuse \ {"stall", "again"} # {}

(* Bound of the runs: a behaviour is followed until then, or until its outcome is  *)
(* taken away.                                                                    *)
Followed == excuse \subseteq {"stall"}

(* The bound on claims keeps an engine from claiming. *)
OutOfRevisions == count = MaxRevision /\ \E e \in up : boot[e].step = "claim" /\ Claimable(e)

(* The workflow gets its outcome while an engine lives that has not dropped it,    *)
(* through crashes, lost answers, stalls and handlers that throw, whoever claims   *)
(* it and whoever handles the event.  It may not once a bootstrap has thrown (its  *)
(* lease is extended for ever), a report has failed or came after the lease's end, *)
(* an event was committed unhandled for a read that failed, or passed while a      *)
(* bootstrap had created the task and not recorded it.                             *)
WorkflowEnds == <>(Finished \/ up \subseteq forgot \/ Hopeless \/ OutOfRevisions)

(* orchestrateWorkflow says that step 4 "handles race where task completed before *)
(* orchestration started" and that the "event bus takes over from here".  With no *)
(* fault at all the workflow should then get its outcome.                          *)
EventBusTakesOver == <>(Finished \/ faults > 0)

(* Two engines that are starting the workflow work in revisions of their own,     *)
(* unless one stalled between its claim and the second call that asks for it, or   *)
(* a claim was granted on a workflow that had its outcome.                         *)
StartsAreSeparate ==
  /\ TypeOK
  /\ \A e, f \in Engine :
       /\ excuse \cap {"stall", "again"} = {} /\ e # f
       /\ boot[e].step \in {"start", "record"} /\ boot[f].step \in {"start", "record"}
       => boot[e].rev # boot[f].rev

(* Until the workflow has its outcome, some engine that runs has still to find it, *)
(* or to try it again, or is starting or watching it.  Two failed calls make an    *)
(* engine forget (a getTask at discovery and the one after a granted claim) and so *)
(* does a bootstrap that throws; a claim on a workflow that had its outcome takes  *)
(* it away again, when its watchers may be gone.                                   *)
SomebodyKnows ==
  Finished \/ up \subseteq forgot \/ "again" \in excuse
    \/ \E e \in up : e \notin seen \/ e \in timer \cup watched \/ boot[e].step # "none"
=============================================================================

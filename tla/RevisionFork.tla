----------------------------- MODULE RevisionFork -----------------------------
(***************************************************************************)
(* Callers of the API fork the revisions of a workflow while an engine      *)
(* carries the results of its tasks on through the pipeline.  A caller's    *)
(* resolver reads the active revision, awaits, and only then opens its      *)
(* transaction (mutations.ts).  The engine handles the events of EventLog   *)
(* one after the other (task-update-handler.ts); a handler is a series of   *)
(* awaited calls, among them processNodeReady of scheduler.ts.              *)
(***************************************************************************)
EXTENDS RevisionStore

CONSTANTS
  Succ,          \* [Node -> SUBSET (Node \cup {Output})]: data edges
  Output,        \* the pipeline's output node
  Root,          \* the node fed by the pipeline's input
  Start,         \* that input
  Caller,        \* API calls
  AutoPropagate, \* PLAYTISS_AUTO_PROPAGATE
  MaxEvent,      \* bound: length of the log
  MaxFault,      \* bound: handler failures and restarts
  Results,       \* [Node -> SUBSET (Value \cup {Error})]: what a node's action may return
  Targets,       \* sets of nodes a caller may ask to update
  NoCall         \* a caller that has not read yet, or is done

ASSUME PipelineAssumption ==
  /\ Output \notin Node
  /\ NoCall \notin Revision /\ MaxFault \in Nat
  /\ Results \in [Node -> SUBSET (Value \cup {Error})]
  /\ Succ \in [Node -> SUBSET (Node \cup {Output})]
  /\ Targets \subseteq SUBSET Node
  /\ Root \in Node /\ Start \in Value /\ AutoPropagate \in BOOLEAN

VARIABLES
  call,      \* the active revision a caller's resolver read before its await
  handled,   \* events committed
  h,         \* the handler of event handled + 1
  made,      \* taskCache of each client: tasks whose createTask is cached
  sent,      \* nodeStateCache of each client: writes whose promise is cached
  workflow,  \* execution state of the workflow instance task
  skipped,   \* history: revisions where the cache answered a write the row did not have
  reused,    \* history: tasks scheduled again while they had a version
  overtaken, \* history: revisions forked while a handler was at work on the parent
  faults

vars == <<storeVars, call, handled, h, made, sent, workflow, skipped, reused, overtaken, faults>>
engineVars == <<handled, h, made, sent, workflow, faults>>

(* The handlers write through the engine's GraphQL client, scheduler.ts and model.ts *)
(* through a shared client of their own.                                             *)
Client == {"engine", "scheduler"}

Write == [node : Node, dep : Dependency, run : Runtime, task : Task \cup {Null, Keep},
          inputs : Value \cup {Null, Keep}]
Step == {"idle", "list", "records", "feed", "create", "record", "own",
         "revision", "staleNode", "staleCreate", "freshen"}

(* Where a handler stands: the revision it took, the task and the output it     *)
(* carries, the rows it read, the nodes it still has to feed and to finish, the *)
(* stale nodes left, and the node and task it is creating.                      *)
Handler == [step : Step, rev : Revision \cup {0}, task : Task \cup {Null},
            value : Value \cup {Null}, failed : BOOLEAN, player : BOOLEAN,
            snap : [Node -> Row \cup {NoRow}], todo : SUBSET (Node \cup {Output}),
            own : SUBSET Node, stale : SUBSET Node, node : Node, made : Task \cup {Null}]

Idle == [step |-> "idle", rev |-> 0, task |-> Null, value |-> Null, failed |-> FALSE,
         player |-> FALSE, snap |-> [n \in Node |-> NoRow], todo |-> {}, own |-> {},
         stale |-> {}, node |-> Root, made |-> Null]

TypeOK ==
  /\ StoreTypeOK
  /\ call \in [Caller -> Revision \cup {NoCall}]
  /\ handled \in 0..Len(log)
  /\ h \in Handler
  /\ made \in SUBSET (Client \X Task)
  /\ sent \in SUBSET (Client \X Revision \X Write)
  /\ workflow \in {"RUNNING", "SUCCEEDED", "FAILED"}
  /\ skipped \in SUBSET Revision
  /\ reused \in SUBSET Task
  /\ overtaken \in SUBSET Revision
  /\ faults \in 0..MaxFault

(* The cache key: a field that is not given and one given as null look the same. *)
Key(c, r, n, w) == <<c, r, [node |-> n, dep |-> w.dep, run |-> w.run,
                            task |-> AsRead(w.task), inputs |-> AsRead(w.inputs)]>>

(* The engine has claimed the workflow and fed its input to the root node.  A root *)
(* task that had failed before is PENDING again with its old version, and is       *)
(* treated as failed at once (processFailedTask).                                  *)
Init ==
  \E failed \in BOOLEAN :
    LET t == <<Root, Start>>
        first == [dep |-> "FRESH", run |-> "RUNNING", task |-> t, inputs |-> Start]
        then == [dep |-> "STALE", run |-> "FAILED", task |-> t, inputs |-> Keep] IN
    /\ parent = [r \in Revision |-> 0]
    /\ count = 1 /\ active = 1
    /\ rows = [r \in Revision |-> [n \in Node |->
                 IF r # 1 \/ n # Root THEN NoRow
                 ELSE IF failed THEN Upsert(first, then) ELSE first]]
    /\ status = [u \in Task |-> IF u = t THEN "PENDING" ELSE "ABSENT"]
    /\ version = [u \in Task |-> IF u = t /\ failed THEN Error ELSE Null]
    /\ log = <<>> /\ jobs = {}
    /\ call = [c \in Caller |-> NoCall]
    /\ handled = 0 /\ h = Idle
    /\ made = {<<"scheduler", t>>}
    /\ sent = {Key("scheduler", 1, Root, first)}
             \cup IF failed THEN {Key("engine", 1, Root, then)} ELSE {}
    /\ workflow = IF failed THEN "FAILED" ELSE "RUNNING"
    /\ reused = IF failed THEN {t} ELSE {}
    /\ skipped = {} /\ overtaken = {} /\ faults = 0

-----------------------------------------------------------------------------
(* The callers. *)

(* getWorkflowTaskFromHandle: the active revision, read before the await. *)
ReadActive(c) ==
  /\ call[c] = NoCall
  /\ count < MaxRevision
  /\ call' = [call EXCEPT ![c] = active]
  /\ UNCHANGED <<storeVars, engineVars, skipped, reused, overtaken>>

(* A fork misses what a handler is writing to its parent, or what was written to *)
(* the revision that became active after the caller read.                        *)
Overtakes(from) == from # active \/ h.rev = from \/ from \in overtaken

(* The transaction that follows the await; the kind of call no longer matters. *)
Fork(from) ==
  \/ \E n \in Node : RequestNodeRerun(from, n) \/ FailPlayerTask(from, n)
  \/ \E n \in Node, v \in Value : SubmitPlayerInput(from, n, v)
  \/ \E ts \in Targets : RequestStaleNodesUpdate(from, ts)
  \/ ForkWorkflowRevision(from)

Commit(c) ==
  /\ call[c] # NoCall
  /\ Len(log) < MaxEvent
  /\ Fork(call[c])
  /\ overtaken' = IF Overtakes(call[c]) THEN overtaken \cup {count + 1} ELSE overtaken
  /\ skipped' = IF call[c] \in skipped THEN skipped \cup {count + 1} ELSE skipped
  /\ call' = [call EXCEPT ![c] = NoCall]
  /\ UNCHANGED <<engineVars, reused>>

(* A transaction that throws is rolled back, and the caller gets the error. *)
Throw(c) ==
  /\ call[c] # NoCall
  /\ call' = [call EXCEPT ![c] = NoCall]
  /\ UNCHANGED <<storeVars, engineVars, skipped, reused, overtaken>>

Work ==
  /\ Len(log) < MaxEvent
  /\ \E t \in Task : \E v \in Results[t[1]] : ReportTask(t, v)
  /\ UNCHANGED <<call, engineVars, skipped, reused, overtaken>>

-----------------------------------------------------------------------------
(* A client's write of node states, behind its cache of promises. *)

Uncached(c, r, ws) == [n \in {m \in DOMAIN ws : Key(c, r, m, ws[m]) \notin sent} |-> ws[n]]

(* updateNodeStates: an update whose promise is cached is not sent. *)
WriteNodes(c, r, ws) ==
  /\ UpdateNodeStates(r, Uncached(c, r, ws))
  /\ sent' = sent \cup {Key(c, r, n, ws[n]) : n \in DOMAIN ws}
  /\ skipped' = IF \E n \in DOMAIN ws \ DOMAIN Uncached(c, r, ws) :
                     Upsert(rows[r][n], ws[n]) # rows[r][n]
                THEN skipped \cup {r} ELSE skipped

-----------------------------------------------------------------------------
(* Events are taken up in order: getTask, and what the payload names. *)

Event1 == log[handled + 1]
Free == h = Idle /\ handled < Len(log)
Done == h' = Idle /\ handled' = handled + 1

(* Nothing but the handler moves. *)
OnlyHandler == UNCHANGED <<storeVars, call, made, sent, workflow, skipped, reused,
                           overtaken, faults>>

TakeCompleted ==
  /\ Free /\ Event1.topic = "task_completed"
  /\ version[Event1.task] \in Value
  /\ h' = [Idle EXCEPT !.step = "list", !.task = Event1.task, !.value = version[Event1.task]]
  /\ UNCHANGED handled /\ OnlyHandler

TakeFailed ==
  /\ Free /\ Event1.topic = "task_failed"
  /\ h' = [Idle EXCEPT !.step = "list", !.task = Event1.task, !.failed = TRUE]
  /\ UNCHANGED handled /\ OnlyHandler

(* Mutant: what the player gave is taken from the task, as for a completed one. *)
TakePlayerFromTask ==
  /\ Free /\ Event1.topic \in {"task_player_submitted", "task_player_failed"}
  /\ version[Event1.task] \in Value
  /\ h' = [Idle EXCEPT !.step = "records", !.rev = Event1.rev, !.task = Event1.task,
                       !.value = version[Event1.task], !.player = TRUE,
                       !.failed = Event1.topic = "task_player_failed"]
  /\ UNCHANGED handled /\ OnlyHandler

TakePlayer ==
  /\ Free /\ Event1.topic \in {"task_player_submitted", "task_player_failed"}
  /\ h' = [Idle EXCEPT !.step = "records", !.rev = Event1.rev, !.task = Event1.task,
                       !.value = Event1.value, !.player = TRUE,
                       !.failed = Event1.topic = "task_player_failed"]
  /\ UNCHANGED handled /\ OnlyHandler

TakeStale ==
  /\ Free /\ Event1.topic = "stale_update_revision_created"
  /\ h' = [Idle EXCEPT !.step = "revision", !.rev = Event1.rev, !.stale = Event1.targets]
  /\ UNCHANGED handled /\ OnlyHandler

(* A completed task whose version is no OUTPUT any more; a topic nobody reads. *)
PassOver ==
  /\ Free
  /\ \/ Event1.topic = "task_completed" /\ version[Event1.task] \notin Value
     \/ Event1.topic = "revision_forked"
  /\ Done /\ OnlyHandler

-----------------------------------------------------------------------------
(* The nodes that use the task. *)

(* Mutant: the listing the handler's header warns of, over all revisions. *)
ListAll ==
  /\ h.step = "list"
  /\ \E r \in 1..count :
       /\ NodesOfTask(r, h.task) # {}
       /\ h' = [h EXCEPT !.step = "records", !.rev = r, !.snap = rows[r],
                         !.own = NodesOfTask(r, h.task)]
  /\ UNCHANGED handled /\ OnlyHandler

(* listActiveWorkflowRevisionNodeStatesByTask: rows of the revision active now. *)
ListActive ==
  /\ h.step = "list" /\ NodesOfTask(active, h.task) # {}
  /\ h' = [h EXCEPT !.step = "records", !.rev = active, !.snap = rows[active],
                    !.own = NodesOfTask(active, h.task)]
  /\ UNCHANGED handled /\ OnlyHandler

NobodyUses ==
  /\ h.step = "list" /\ NodesOfTask(active, h.task) = {}
  /\ Done /\ OnlyHandler

(* reportTaskOutcome of the workflow task.  While the engine's claim is good only *)
(* the engine is heard; a finished workflow is refreshed and claimed first.       *)
ReportOutcome(outcome) ==
  workflow' = IF workflow = "RUNNING" /\ h.player THEN workflow ELSE outcome

(* getTaskRecords; handleTaskCompletion goes on to the edges of the nodes found. *)
ListRecords ==
  /\ h.step = "records" /\ ~h.failed
  /\ h' = [h EXCEPT !.step = "feed", !.todo = UNION {Succ[n] : n \in NodesOfTask(h.rev, h.task)}]
  /\ UNCHANGED handled /\ OnlyHandler

(* handleTaskFailure aborts the workflow if any node was found. *)
AbortWorkflow ==
  /\ h.step = "records" /\ h.failed
  /\ IF NodesOfTask(h.rev, h.task) # {} THEN ReportOutcome("FAILED") ELSE UNCHANGED workflow
  /\ h' = [h EXCEPT !.step = "feed"]
  /\ UNCHANGED <<storeVars, call, handled, made, sent, skipped, reused, overtaken, faults>>

-----------------------------------------------------------------------------
(* propagateToNode, with processNodeReady cut at its awaits. *)

Feeding(n) == h.step = "feed" /\ n \in h.todo
Fed(n) == h' = [h EXCEPT !.todo = @ \ {n}]
RowOf(n) == rows[h.rev][n]
FirstRun(n) == RowOf(n) # NoRow => AsRead(RowOf(n).task) = Null
SameInputs(n) == AsRead(RowOf(n).inputs) = h.value

Deliver ==
  /\ Feeding(Output) /\ Fed(Output)
  /\ ReportOutcome("SUCCEEDED")
  /\ UNCHANGED <<storeVars, call, handled, made, sent, skipped, reused, overtaken, faults>>

StartTask(n) ==
  /\ Feeding(n)
  /\ ~FirstRun(n) => ~SameInputs(n) /\ AutoPropagate
  /\ h' = [h EXCEPT !.step = "create", !.todo = @ \ {n}, !.node = n]
  /\ UNCHANGED handled /\ OnlyHandler

SkipNode(n) ==
  /\ Feeding(n) /\ ~FirstRun(n) /\ SameInputs(n)
  /\ Fed(n)
  /\ UNCHANGED handled /\ OnlyHandler

MarkStale(n) ==
  /\ Feeding(n) /\ ~FirstRun(n) /\ ~SameInputs(n) /\ ~AutoPropagate
  /\ WriteNodes("scheduler", h.rev,
                [m \in {n} |-> [dep |-> "STALE", run |-> "IDLE", task |-> Null,
                               inputs |-> h.value]])
  /\ Fed(n)
  /\ UNCHANGED <<parent, count, active, status, version, log, jobs, call, handled, made,
                 workflow, reused, overtaken, faults>>

(* createTask of the node on an input, behind the cache of tasks. *)
CreateTask(c, t) ==
  /\ IF <<c, t>> \in made THEN UNCHANGED <<status, made, reused>>
     ELSE /\ CreateAndSchedule(t)
          /\ made' = made \cup {<<c, t>>}
          /\ reused' = IF version[t] # Null THEN reused \cup {t} ELSE reused
  /\ UNCHANGED <<parent, count, active, rows, version, log, jobs, call, handled, sent,
                 workflow, skipped, overtaken, faults>>

CreateNodeTask ==
  /\ h.step = "create"
  /\ CreateTask("scheduler", <<h.node, h.value>>)
  /\ h' = [h EXCEPT !.step = "record", !.made = <<h.node, h.value>>]

(* createTaskRecord: the node's status follows the task's. *)
RuntimeOf(t) == CASE status[t] = "SUCCEEDED" -> "IDLE" [] status[t] = "FAILED" -> "FAILED"
                  [] OTHER -> "RUNNING"

RecordTask ==
  /\ h.step = "record"
  /\ WriteNodes("scheduler", h.rev,
                [m \in {h.node} |-> [dep |-> "FRESH", run |-> RuntimeOf(h.made), task |-> h.made,
                                    inputs |-> h.value]])
  /\ h' = [h EXCEPT !.step = "feed", !.made = Null]
  /\ UNCHANGED <<parent, count, active, status, version, log, jobs, call, handled, made,
                 workflow, reused, overtaken, faults>>

-----------------------------------------------------------------------------
(* The end of a handler: the nodes of the finished task, one call each. *)

WriteBack(n, run) ==
  /\ h.step = "feed" /\ h.todo = {} /\ n \in h.own
  /\ WriteNodes("engine", h.rev,
                [m \in {n} |-> [dep |-> h.snap[n].dep, run |-> run, task |-> h.task,
                               inputs |-> Keep]])
  /\ h' = [h EXCEPT !.own = @ \ {n}]
  /\ UNCHANGED <<parent, count, active, status, version, log, jobs, call, handled, made,
                 workflow, reused, overtaken, faults>>

FinishNode(n) == ~h.failed /\ WriteBack(n, "IDLE")
FailNode(n) == h.failed /\ WriteBack(n, "FAILED")

CommitOffset ==
  /\ h.step = "feed" /\ h.todo = {} /\ h.own = {} /\ h.stale = {}
  /\ Done /\ OnlyHandler

-----------------------------------------------------------------------------
(* handleStaleUpdateRevisionCreated. *)

(* getRevision, and the targeted stale nodes back to IDLE in one call. *)
ResetStale ==
  LET stale == {n \in h.stale : RowOf(n) # NoRow /\ RowOf(n).dep = "STALE"} IN
  /\ h.step = "revision"
  /\ WriteNodes("engine", h.rev,
                [n \in stale |-> [dep |-> "STALE", run |-> "IDLE", task |-> AsRead(RowOf(n).task),
                                 inputs |-> AsRead(RowOf(n).inputs)]])
  /\ h' = [h EXCEPT !.step = "feed", !.snap = rows[h.rev], !.stale = stale]
  /\ UNCHANGED <<parent, count, active, status, version, log, jobs, call, handled, made,
                 workflow, reused, overtaken, faults>>

(* processStaleNode, with the node's task if it has one, or one for its inputs. *)
NextStale(n) == h.step = "feed" /\ h.todo = {} /\ n \in h.stale

(* getTask: what the task has come to is read here. *)
Freshening(n, t) ==
  h' = [h EXCEPT !.step = "freshen", !.node = n, !.made = t, !.failed = version[t] = Error,
                 !.value = IF version[t] = Error THEN Null ELSE version[t]]

UseTask(n) ==
  /\ NextStale(n) /\ AsRead(h.snap[n].task) # Null
  /\ Freshening(n, h.snap[n].task)
  /\ UNCHANGED handled /\ OnlyHandler

CreateStaleTask(n) ==
  /\ NextStale(n) /\ AsRead(h.snap[n].task) = Null /\ AsRead(h.snap[n].inputs) # Null
  /\ CreateTask("engine", <<n, h.snap[n].inputs>>)
  /\ Freshening(n, <<n, h.snap[n].inputs>>)

(* FRESH, with the runtime status read before the reset; a task that has finished *)
(* is carried on in this revision.                                               *)
Freshen ==
  /\ h.step = "freshen"
  /\ WriteNodes("engine", h.rev,
                [m \in {h.node} |-> [dep |-> "FRESH", run |-> h.snap[h.node].run, task |-> h.made,
                                    inputs |-> AsRead(h.snap[h.node].inputs)]])
  /\ h' = [h EXCEPT !.stale = @ \ {h.node}, !.made = Null, !.task = h.made,
                    !.step = IF h.value = Null /\ ~h.failed THEN "feed" ELSE "records"]
  /\ UNCHANGED <<parent, count, active, status, version, log, jobs, call, handled, made,
                 workflow, reused, overtaken, faults>>

-----------------------------------------------------------------------------
(* Faults.  A failed call makes the handler throw, and the event is retried.     *)
(* Inside propagateToNode it also rejects a promise nobody awaits, which ends    *)
(* the process; a restarted engine has empty caches.                             *)

Propagating == h.step \in {"create", "record"} \/ (h.step = "feed" /\ h.todo # {})

HandlerFails ==
  /\ h # Idle /\ ~Propagating /\ faults < MaxFault
  /\ h' = Idle /\ faults' = faults + 1
  /\ UNCHANGED <<storeVars, call, handled, made, sent, workflow, skipped, reused, overtaken>>

Restart ==
  /\ faults < MaxFault
  /\ h' = Idle /\ made' = {} /\ sent' = {} /\ faults' = faults + 1
  /\ UNCHANGED <<storeVars, call, handled, workflow, skipped, reused, overtaken>>

EngineNext ==
  \/ TakeCompleted \/ TakeFailed \/ TakePlayer \/ TakeStale \/ PassOver
  \/ ListActive \/ NobodyUses \/ ListRecords \/ AbortWorkflow
  \/ Deliver \/ CreateNodeTask \/ RecordTask \/ CommitOffset
  \/ ResetStale \/ Freshen
  \/ \E n \in Node : \/ StartTask(n) \/ SkipNode(n) \/ MarkStale(n) \/ FinishNode(n) \/ FailNode(n)
                       \/ UseTask(n) \/ CreateStaleTask(n)

Next ==
  \/ \E c \in Caller : ReadActive(c) \/ Commit(c) \/ Throw(c)
  \/ Work
  \/ EngineNext
  \/ HandlerFails \/ Restart

Spec == Init /\ [][Next]_vars

-----------------------------------------------------------------------------
(* Properties. *)

UnhandledFor(t) == \E i \in (handled + 1)..Len(log) :
  log[i].task = t /\ log[i].topic \in {"task_completed", "task_failed"}

(* A node that the active revision shows as RUNNING has work ahead: a worker can *)
(* take its task, or the event of its result is still to be handled.  Three      *)
(* things break this, and only these: a fork that copied the node while its      *)
(* result was being written elsewhere, a finished task that was scheduled again  *)
(* and so is shown to no worker, and a write-back that the client's cache        *)
(* swallowed.                                                                    *)
RunningNodeHasWork ==
  /\ TypeOK
  /\ \A n \in Node :
       rows[active][n] # NoRow /\ rows[active][n].run = "RUNNING" =>
         LET t == rows[active][n].task IN
         Runnable(t) \/ UnhandledFor(t) \/ active \in overtaken \cup skipped \/ t \in reused

(* When the handler of a player's submission is done, the nodes behind the player's *)
(* node have the submitted value as their input, in the revision the submission      *)
(* made, unless the client's cache swallowed a write there (see CacheHidesNothing).   *)
(* From then on, as always, only a result of the node before replaces an input, or   *)
(* the update of a stale node, which writes the input back that was read before the  *)
(* loop over the stale nodes began.                                                   *)
SubmissionIsCarried ==
  [][ /\ handled' # handled /\ Event1.topic = "task_player_submitted" /\ Event1.rev \notin skipped =>
           \A n \in NodesOfTask(Event1.rev, Event1.task) : \A m \in Succ[n] \ {Output} :
             rows[Event1.rev][m] # NoRow /\ rows[Event1.rev][m].inputs = Event1.value
      /\ \A r \in 1..count : \A m \in Node :
           rows[r][m] # NoRow /\ rows'[r][m].inputs # rows[r][m].inputs =>
             \/ r = h.rev /\ m \in Succ[h.task[1]] /\ rows'[r][m].inputs = h.value
             \/ r = h.rev /\ h.step = "freshen" /\ m = h.node ]_vars

(* updateNodeStates answers a repeated update from its cache: the row already has *)
(* what the update would write.                                                   *)
CacheHidesNothing == skipped = {}

(* A handler writes to one revision: the one the event names, or the one that was *)
(* active when it listed the nodes of the task.                                   *)
HandlersKeepToTheirRevision ==
  [][ /\ \A r \in Revision : rows'[r] # rows[r] => r = h.rev \/ r = count + 1
      /\ h'.rev # h.rev => h'.rev \in {0, active, Event1.rev} ]_vars

(* What task-update-handler.ts promises of its listing: events are not applied to *)
(* historical revisions, "breaking the immutable history guarantee".              *)
HistoryIsImmutable ==
  [][\A r \in Revision : r <= count /\ r # active => rows'[r] = rows[r]]_vars
=============================================================================

# A TLA+ model of playtiss and retcon

This directory specifies the parts of the repository whose correctness depends on
the order of steps: TLA+ modules translated from the TypeScript source, TLC
configurations that check them on small instances, and TLAPS proofs of the most
important results for every value of the constants. `PROJECT.json` records, for
every definition, the source lines it stands for, for every property a mutant of
the code that breaks it, and for every hazard of the code the properties aimed at
it.

To check a run: `tlc -config RevisionFork.cfg MCRevisionFork`; section 3 has the
module of each configuration. To check the proofs: `tlapm RevisionForkProofs.tla`,
likewise for the other `*Proofs` modules.

## 1. The system

The repository holds two programs over one core library.

*playtiss* runs pipelines. A GraphQL server owns a SQLite database of tasks,
versions, revisions and node states. Engines (`pipeline-runner`) claim workflow
tasks, walk the pipeline graph and create one computational task per node. Workers
(`typescript-worker`) poll for runnable computational tasks, claim one for a time,
execute it, store its output and report. The server's mutations also append rows to
`EventLog`; engines poll that log to carry results on through the graph.

*retcon* (`playtiss-proxy`) is a daemon between an AI coding client and its
upstream API. It records every turn, offers MCP tools to look at and rewind the
conversation, and keeps a rewind in force by splicing the rewound history into
every later request.

| Component | State | Operations | Talks to | Hard behaviour |
|---|---|---|---|---|
| Task store (`graphql-server/src/db`, `resolvers`) | rows of Tasks, Versions, TaskExecutionStates | create, schedule, claim, report, refresh, discovery query | workers and engines by GraphQL; EventLog in the same transaction | expiring claims, resent mutations, three SQL conditions about one lease |
| TypeScript worker | process id, tasks in progress, tasks yielded, poll cursor | poll, claim, execute, store, report | task store, asset store | dies or loses an answer between any two awaits; late reports |
| Pipeline client (`pipeline-runner/src/graphql`) | LRU cache of created tasks, node-state cache | createTask, refreshTask, updateNodeStates | task store | cached promises, RetryLink, batching |
| Event bus | EventLog, ProjectionOffsets; per engine its position and batch | produce, poll, handle, commit | server transactions; engines | ids that are older than their rows; shared offset; failed handlers |
| Revisions and node states (server) | revisions, their node states, the handle's active revision | the four fork mutations, node-state upsert | callers, engines | revision read before an await and forked after it; COALESCE |
| Event handlers (`task-update-handler.ts`) | local variables between awaits | task_completed, task_failed, the player's events, stale_update_revision_created | event bus, client, scheduler | rows read early and written late; the cache of sent writes |
| Scheduler | merge accumulators, promise chain per merge node | propagate, split, merge, report an outcome | client, task store | two inputs of a merge node at once; equal items of a list; a process that ends half-way |
| Workflow engine | leases to extend, workflows watched, timers, discovery cursor | discover, claim, bootstrap, extend, monitor | task store, scheduler, event bus | two engines on a workflow; a task that finishes while it is being recorded |
| retcon fork anchors | fork_anchors rows, pending synthetic metadata | rewind_to, submit_file, splice, release, announce | client, upstream, event log | bookkeeping of a rewind spread over many turns; hooks, subagents, restarts |
| retcon revision DAG, views, MCP tools | revisions, branch views, departure markers | turn opened and sealed, rewind, bookmark, dump, submit | projectors, fork anchors | a history pieced together from children, probes and edits |
| retcon sessions and hooks | binding table, sessions, tasks, actors | launch, initialize, SessionStart hook, promote, merge | client's hooks, MCP | ids resolved before a request queues; /clear and --resume |
| retcon daemon control | pid file, schema version, a port per invocation | run, stop, clean; boot, migrate, shut down | command lines | ports and the one pid file are not tied together |
| Core channel | events, projections, offsets, exception rows | submit, dispatch to projectors | retcon | a projector that throws is rolled back alone |
| Core hashing, asset stores; parser; compiler; command line tools | none, or content-addressed files | pure functions and I/O | everything | none that depends on order |

What makes each of them correct:

* **Task store and worker.** While a claim is good for a report, nobody else can
  claim the task; only the attempt that made the latest claim decides it; a
  finished task, its current version and the newest event agree; a task nobody
  works on is taken up again.
* **Event bus.** No event is passed over; one is repeated only because of a fault;
  every one is handled in the end.
* **Revisions and handlers.** A node shown as running has work ahead of it; a
  player's input goes on to the nodes behind; a handler works in one revision.
* **Scheduler.** A merge node gets every input, the latest of each, one arrival at a
  time; a list that is split comes out again, whole and under the right keys.
* **Workflow engine.** A workflow is never forgotten and gets its outcome; engines
  that start it at once work in different revisions.
* **Fork anchors.** One rewind of a session is active; each is announced at most
  once, a success with the turn it landed on; none is owed an announcement that
  nobody will make, as long as no other end runs into the end of its turn.
* **DAG, views, tools.** Parents lie in the past; nothing rolled back comes back into
  a rewound history; a bookmark stays on its line.
* **Sessions.** A request is recorded under the session it belongs to; sessions have
  tasks of their own; an actor, once named, stays.
* **Daemon control.** No migration under a serving daemon; stop and clean overlook
  nobody; commands end.
* **Channel.** Every dispatched event is projected or excepted, dependencies first,
  never by half.

## 2. The modules

| Module | What it is | Proofs |
|---|---|---|
| `TaskStore` | rows of computational tasks and the transactions on them | |
| `TaskLease` | clients, workers and the clock over `TaskStore` | `TaskLeaseProofs` |
| `GrantedResult` | abstract: a cell granted to one agent at a time, decided by the latest, announced in the same step | |
| `EventBus` | the server's events and the engines' loops over EventLog and ProjectionOffsets | `EventBusProofs` |
| `RevisionStore` | rows of one workflow instance and the mutations on them | |
| `RevisionFork` | callers that fork, workers, and the event handlers, over `RevisionStore` | `RevisionForkProofs` |
| `MergeNode` | calls of propagateToNode for one merge node | `MergeNodeProofs` |
| `SplitMerge` | split and merge of lists | `PipelineProofs` |
| `WorkflowEngine` | engines around one workflow task | `PipelineProofs` |
| `ForkAnchors` | one retcon session: client conversations, queue, calls outside it, rows, upstream, hook, restart | `ForkAnchorsProofs` |
| `RewindOutcome` | abstract: one live rewind, landed on its first answered turn, announced at most once unless spoilt | |
| `Conversation` | the revision DAG, branch views and the navigation tools | `RetconProofs` |
| `SessionBinding` | launches, conversations, sessions and calls | `SessionBindingProofs` |
| `Daemon` | commands and daemons around ports, one pid file and one database | `RetconProofs` |
| `Channel` | submit and dispatch of the core library | `RetconProofs` |
| `MC...` | definitions of constants and symmetry sets for TLC | |

`TaskLease` EXTENDS `TaskStore` and `RevisionFork` EXTENDS `RevisionStore`: the store
has one operator per mutation, the composed module the processes that call them. Where
two modules meet, each takes the other's part in the form its own property needs:
`RevisionFork`, `MergeNode` and `SplitMerge` handle events in the order in which
`EventBus` delivers them, `Conversation` runs the calls one by one as the queue of
`ForkAnchors` does.

### TaskStore and TaskLease

A mutation of the server is one synchronous better-sqlite3 transaction, so each
operator of `TaskStore` is a whole mutation: `ClaimTask` is
`executeClaimTaskInternal`, `ReportTask` is both report functions,
`ScheduleTaskForExecution` the INSERT OR REPLACE behind createTask, `RefreshTask`
the refresh with or without clearing the version. `Runnable`, `Eligible` and
`HoldsLease` are the three WHERE clauses, over the columns each of them really
reads: the claim compares `claim_timestamp + claim_ttl_seconds`, the report and the
discovery compare `expiration_time`. Time is kept as `age` and `left` of a
claim, which saturate one tick past expiry.

`TaskLease` adds the processes. `attempt[w][t]` is where executeTask of a worker
stands between its awaits; `known` and `cursor` are its TaskIterator; `creating`
is the two-call createTask with its cache, in which the second call may be applied
again (RetryLink). A worker crashes at any point; the restarted process has a new
id, so it is a new worker. `fence` and `dropped` are history variables.

### EventBus

An id is `Stamp(millisecond, random part)`: a TraceID, compared as a string. The
millisecond is that of the generator's creation. `Produce` makes its id inside the
transaction; `StartBulkUpdate` and `CommitBulkUpdate` are requestStaleNodesUpdate,
which makes its generator, awaits two asset writes and only then inserts. An
engine polls a page above its position, handles events in order, commits each to
the row all engines share. `HandlerFails` drops the rest of the batch, `Restart`
forgets the position. `late` is a history variable: ids inserted below what some
engine had polled, or the row's offset.

### RevisionStore and RevisionFork

`rows[r][n]` is the node state of a node in a revision: dependency and runtime status,
required task, inputs. `Upsert` is the COALESCE of a partial update, with the
`__KEEP__` marker. Each fork mutation takes `from`, the revision its resolver read
(`ReadActive`) before its await; `Commit` is the transaction, `ForkTo` the copy of the
rows of `from`. A task is named by node and input, as its content hash does.

`h` is the one handler at work: where it stands between two awaits, the revision it
took, the rows it read (`snap`), the nodes it still has to feed (`todo`) and to write
back (`own`), the stale nodes left. `TakeCompleted` reads the task's current version,
not the event's. `ListActive` lists the rows of the revision that is active then;
everything after it goes to that revision, active or not. `StartTask`, `SkipNode`,
`MarkStale` are the cases of processNodeReady. `made` and `sent` are the caches of the two
GraphQL clients: the handlers have the engine's, scheduler.ts and model.ts share another.
`Init` is the state a bootstrap leaves, with a root task that is new or that had failed
before: the latter is PENDING again, keeps its version, and its node is STALE and FAILED.
Histories: `overtaken` (revisions forked while a handler was at work on the parent, or
from one no longer active), `reused` (tasks scheduled again while they had a version),
`skipped` (revisions where the cache answered a write that the row did not have).

### MergeNode and SplitMerge

`MergeNode` is one merge node with any wiring of sources to slots. `tail[r]` is the map
criticalZoneLock, `ahead[s]` the promise a call found in it and awaits; after its turn
a call reads the accumulator, merges its slots, stores or drops the row, goes through
processNodeReady in either mode, and resolves. The bootstrap runs beside the event loop,
and one event may deliver several sources at once. Meta slots are gathered with the data
slots and left out of the task, so `ReadTask` brings back the data slots only. `Fork` copies
rows and accumulators, or the rows only: the code catches an error of the second copy
(database-operations.ts:181-203). `sent` is nodeStateCache: an update of the
row that was sent before may be dropped (`UpdateNodeState`). A call that throws rejects a promise
that nobody awaits, which ends the process: `Crash`. `given` is a history: what the
finished calls delivered; a forked revision inherits it with the accumulator. `lossy`
collects the revisions that lost an input in one of five ways, which `ArrivalsAreKept` lists.

`SplitMerge` is a list that is split, run entry by entry and merged. A row of the element
node is keyed by its context (the shape of the list and the key). Equal items name one
task, whose single event then brings several entries, page by page (getTaskRecords) and
in parallel within a page. The accumulator is written key by key and never deleted, so a
second list starts from the first one's results. A forked revision starts from the rows and
results of its parent. `waves` and `heard` are histories, copied with them, and `lossy`
collects the revisions that lost a result in one of the six ways `MergedListIsWhole` lists: a
fork is one only if a handler is at work on the parent (it goes on there), or the copy of the
accumulators failed; a write is one if the cache swallows it.

### WorkflowEngine

The workflow task under a lease of `TTL` ticks, and per engine the four things that run
side by side: discovery with the bootstrap it awaits (`boot`: claim, the second call that
asks for the revision, handleWorkflowStart, createTaskRecord, the report if the task was
finished already, the check), the retry timer, the extension loop (`tracked`), the monitor
(`watched`), and the event loop (`event`). `At`/`To` run reportTaskOutcome in either
thread: read the state, refresh and claim again if the workflow was finished, report.
Every call may fail, and each failure is an action that does what the code's catch makes of it:
`LookFails` (getTask at discovery answers null, and the engine returns without a timer although
its cursor has passed), `ClaimAnswerLost`, `RevisionUnread` (the claim was granted, the second
getTask failed: no tracking, no timer), `BootstrapFails`, `EventUnread` (the event is
committed unhandled), `EventThrows` (the batch is polled again), `StateUnread`, `RefreshFails`,
`ReclaimFails`, `ReportFails` (logged, and the event is committed), `ExtendFails`. A failed
getTask of the monitor changes nothing. `forgot` has the engines that dropped the workflow in
one of the three ways there are, and `excuse` what has happened that the code does not recover
from; section 3 says why each is there.

### ForkAnchors

`convo[g]` is the list of anchor tokens in the local conversation of an agent,
`queue` and `running` are SessionQueue with the bodies as they were when sent (calls for an
answer, tool calls such as rewind_to, and count_tokens probes, which queue as well),
`row` is the table, `outcome` and `settled` the fork.forked and
fork.synthesis_failed events. `Dispatch` is the handler up to the upstream call:
the four results of applyAnchorSplice and the abort on parallel tools.

The end of an answer is several steps, as the code awaits between them: the terminal event
together with what is read of the active row (`SpliceClosed`, `SpliceOpen`, `SpliceDangling`,
`OtherEnded`), then in `ending` the write of the landing (`TurnDefers`), the announcement
(`TurnTells`), the clearing of the record (`TurnClears`). A queued call holds the queue until
its end is through. A call whose URL has no `/messages`, such as GET /v1/models, is not queued
(proxy-handler.ts:608-614), but its end takes the dangling branch like any other
(1233-1283): `ListingEnds`, `ListingTells` and `ListingClears` run beside everything,
and so do `SessionStartHook` and `Restart`. `Interrupt` leaves the call where it is, without an
owner. `struck` is a history: the rewinds whose end another end ran into, or a restart cut.

The content of messages is reduced to the tokens, a turn to the anchor it was spliced
with and whether it was the first answered on it.

### Conversation

A body is the sequence of the turns in it. A call opens a revision (`rev`), whose parent is
the last forkable turn sealed before it began, and seals it with its class; /v1/models is not
queued and may be out during anything. `views` are the branch views and their heads, moved
in the same step as the event, as the projector is. rewind_to, bookmark, delete_bookmark,
dump_to_file and submit_file act as mcp-tools.ts does: the confirm token of the first
answer, the walk back over forkable parents, the history rebuilt from the first child's
body. A model that follows one conversation of every kind at once is too large; `Habits`
lists the combinations of side calls, tools and edits a run explores.

### SessionBinding

A launch has a transport id, its agent a conversation id, which is the transport id unless
it resumes or clears. `Launched`, `Called` and `Hooked` are the launch with its actor
registration and MCP initialize, a call (its id resolved on arrival, recorded later, sealed
later), and the SessionStart hook with the rebind: bind, promote (re-key the session's
rows), merge into an existing session, or refuse. At most one fault of `Faults` happens:
a restart of the daemon (the binding table is memory), a hook that is lost, a call that is
overtaken by the hook between its resolution and its record, a return to a cleared
conversation.

### Daemon

Commands (`run`, `stop`, `clean`) and daemons are sequential processes; every probe,
signal, file operation and spawn is a step of its own. `port[p]` is who is asked on port p,
`pidfile` who is signalled. An invocation uses the port its RETCON_PORT says, a daemon that of
the run that spawned it; the pid file and the database are everybody's, so two daemons may serve
at once and the file names the last of them to come up. `Plans` says what is invoked, with
which version, upstream and port, whether commands overlap, and what may go wrong (a crash, a
shutdown, a daemon that is late, stuck or slow to answer). `mixed` is a history: retcon was
run for one port while a daemon of another lived.

### Channel

`Submit` opens a transaction, one step per projector in dispatch order (`Visit` puts a task
on the list behind what it refers to, `Through` does so for one task after the other), each
in its savepoint: it succeeds, throws
and is rolled back with an exception row, or the whole transaction fails; then commit.
The ids are those of TraceIdGenerator; exception rows are events of their own.

## 3. The runs

| Run | Module, configuration | Kind | Shows |
|---|---|---|---|
| `lease` | `TaskLease`, `TaskLease.cfg` | pass | the lease conditions agree, reports are fenced, results are announced, `GrantedResult` is implemented, a waiting task without a result is taken up |
| `workflow` | `MCRevisionFork`, `RevisionFork.cfg` | pass | a running node has work ahead, a submission is carried on, handlers keep to one revision |
| `merge` | `MCMergeNode`, `MergeNode.cfg` | pass | no arrival is lost, one arrival at a time, the chain of promises has no lost wakeup |
| `split` | `MCSplitMerge`, `SplitMerge.cfg` | pass | a split list comes out of the merge, whole, under its keys |
| `engine` | `WorkflowEngine`, `WorkflowEngine.cfg` | pass | a workflow gets its outcome, is not forgotten, concurrent starts are in separate revisions |
| `anchors_safety` | `MCForkAnchors`, `ForkAnchorsSafety.cfg` | pass | one active row, rewinds accounted for, forks named by their landing, `RewindOutcome` is implemented |
| `conversation` | `MCConversation`, `Conversation.cfg` | pass | parents lie in the past, nothing rolled back returns, bookmarks stay on their line |
| `sessions` | `MCSessionBinding`, `SessionBinding.cfg` | pass | sessions have tasks of their own, calls keep their actor, named actors stick, a resumed session can be walked |
| `daemon` | `MCDaemon`, `Daemon.cfg` | pass | the schema fits the serving daemon, stop and clean overlook nobody, commands end |
| `channel` | `MCChannel`, `Channel.cfg` | pass | every outcome is recorded, dependencies first, no half projection |
| `bus_delivery` | `MCEventBus`, `EventBusDelivery.cfg` | pass | the offset covers handled events, redelivery needs a fault, events in order are handled |
| `bus_skipped` | `MCEventBus`, `EventBusSkipped.cfg` | violation | an event inserted behind the position of the engines is never delivered |

Deadlock is checked in `lease`, `anchors_safety` and the bus runs. The other models stop:
their callers, lists, calls, commands and ids are bounded.

### Bounds, and why they are enough

* `lease`: tasks do not touch each other except through the worker's page and
  cursor, so one task. Three workers give a holder, a late reporter and a claimer; two
  clients two overlapping createTasks. A lease of two ticks has a middle, a last good
  instant, the instant of expiry and a time after; `age` and `left` saturate.
* `workflow`: a chain of two nodes has a node that feeds and one that is fed. Two callers
  can fork one parent; three revisions give a fork of a fork; three events a completed
  task, a player's event and a stale update in any order; one failure or restart. Interactive
  mode, where stale nodes exist; the theorems cover both modes and every pipeline.
* `merge`: three data slots and a meta slot of three sources, one in the bootstrap and two in
  events, alone or together; one source gives the meta slot with a data slot, so its event may
  complete the inputs where another's may not. Processes of both modes; two revisions, three
  events, one of them not yet committed (`MaxWaiting`), two values, one crash at any step.
* `split`: lists of two entries, equal or not, arrays and an object with keys that are
  not an array's; a page of one record gives several pages; up to two of: fork, crash, a further list,
  a task finished before.
* `engine`: two engines; a lease of two ticks; two claims give a takeover; one fault of any
  kind. The constraint `Followed` follows a behaviour until something happens after which the
  properties promise nothing; a stall is followed further.
* `anchors_safety`: two anchors, as every rule is about the active row and one other. A main
  conversation and a subagent; one call with upstream and one queued behind it, and the end of
  one call outside the queue at a time. A token is inserted once and `settled` saturates at two, so the
  state machine is finite without any other bound. The constraint `SomeUnstruck` drops what
  follows once both anchors are struck, of which only `OneActiveAnchor` and `TypeOK` say anything
  (without it TLC finds 6 841 149 states and no error).
* `conversation`: six revisions allow three turns, a rewind of one of them and two turns on
  the new branch; two bookmarks, steps back of one, one side call; five habits cover every
  tool, edit and side call.
* `sessions`: two launches, one of which may follow the other or run beside it; two conversations,
  one from before retcon; two actors; two calls; one fault.
* `daemon`: any three commands one after the other, and any two with a stop or clean as the
  third at once; two versions, two upstreams and two ports.
* `channel`: the proxy's four kinds of projector with their references, in every order of
  registration; four ids give two events with exceptions between them; one crash.
* The bus: three events with two milliseconds and two random parts each give every order of
  generator creation and insertion. Two engines give the shared offset going back; a
  batch of two with three events a rest of a batch; one failure anywhere.

### Fairness

* `TaskLease!LiveSpec`: the clock advances; a live worker polls (runWorkerLoop
  always polls again after pollInterval), tries the tasks it was shown, and its
  actions end and are reported. Nothing forces a client, a refresh or a crash.
  `WaitingTaskIsTaken` is stated up to the death of every worker and up to
  the claim: nothing extends a worker's lease, so an action longer than
  its lease never gets its result accepted.
* `EventBus!Spec`: weak fairness of poll, handle and commit of each engine: its loop
  polls every second while the process runs.
* `MergeNode!FairSpec`: an awaited call returns and the event loop goes on. `CallsEnd` is about
  the chain of promises: whoever queues is let in.
* `SplitMerge!FairSplit`: the event loop, and workers that finish tasks.
* `WorkflowEngine!FairSpec`: each loop polls, each timer fires, a started call goes on, the
  clock runs, some worker finishes the node's task. No process is promised to be restarted.
  `WorkflowEnds` is stated up to the death of every engine, up to every living engine having
  forgotten the workflow (`forgot`: a failed getTask at discovery, a failed one after the
  claim, a bootstrap that threw), and up to `Hopeless`: a bootstrap that threw, which keeps its
  lease for ever; a report that failed, or was refused as the lease had run out; an event
  committed unhandled for a read that failed; and the race of section 4 (6). A stall between a
  claim and the call that asks for its revision excuses only `StartsAreSeparate`; a claim
  granted on a workflow that had its outcome (`"again"`) excuses that one and `SomebodyKnows`.
* `Daemon!LiveSpec`: processes that run take their next step; the polls of a command are
  counted, so it gives up.
* `ForkAnchors` has none: the proxy puts no timeout on upstream, so no code justifies
  fairness of the answer. `RevisionFork`, `Conversation`, `SessionBinding` and `Channel` state safety only.

## 4. What disagrees with the code's own words

`PROJECT.json` lists the disagreement of run `bus_skipped`: the consumer polls "new events
since last processed offset", but not those whose id is older than their row. The
configurations below lie beside the runs; TLC answers each with a counterexample that
shows a sentence of the repository which the code does not keep.

| | Configuration (module) | Property | What the source says, and what happens |
|---|---|---|---|
| 1 | `TaskLeaseDropped` (`TaskLease`) | `DroppedTaskIsRescheduled` | runner.ts:211, a dropped task "will be rescheduled by another worker": findRunnableTasks hides a task that has an OUTPUT or ERROR version, so after a refresh that kept it the task stays RUNNING |
| 2 | `TaskLeasePaging` (`TaskLease`) | `WaitingTaskIsTaken` | task-iterator.ts:164, yielded tasks "can be checked again": the cursor only moves forward once a page is full |
| 3 | `RevisionForkCache` (`MCRevisionFork`) | `CacheHidesNothing` | graphql/pipeline.ts:1205, caching is safe as updates are idempotent: of A, B, A the third is not sent |
| 4 | `RevisionForkHistory` (`MCRevisionFork`) | `HistoryIsImmutable` | task-update-handler.ts:13, historical revisions must not be touched: the player's and the stale-update events are handled in their own revision, which a fork may have made historical, and a handler goes on in the revision it listed |
| 5 | `MergeNodeCrash` (`MCMergeNode`) | `CommittedInputsSurvive` | mutations.ts:1292, the accumulator is deleted "when task is scheduled": it is deleted before createTask, and a process that ends in between loses inputs whose events are committed |
| 6 | `WorkflowEngineRace` (`WorkflowEngine`) | `EventBusTakesOver` | workflow-orchestration.ts:12 and :93, step 4 handles tasks that completed before, then the event bus takes over: a task that finishes between createTask and createTaskRecord is seen by neither |
| 7 | `ForkAnchorsTruncation` (`MCForkAnchors`) | `MissingAnchorIsReleased` | fork-anchors.ts:25, an active row whose token is missing is released: not if an older token is left in the body |
| 8 | `ConversationHistory` (`MCConversation`) | `RewindKeepsHistory` | mcp-tools.ts:2571, the history up to the fork point is rebuilt from the first child: that child may be a count_tokens probe or the first call after /clear |
| 9 | `ConversationBookmark` (`MCConversation`) | `BookmarkTracksTheHead` | mcp-tools.ts:1849, a bookmark's head auto-advances: it does not |
| 10 | `DaemonUpstream` (`MCDaemon`) | `EnsuredUpstream` | daemon-control.ts:64, returns once version and upstream match: after a spawn only the version is polled |
| 11 | `SessionBindingApart` (`MCSessionBinding`) | `SessionsKeepApart` | sessions-v1.ts:6, each session owns one task: a promoted session keeps its task's id, and resuming the cleared conversation mints the same id again |
| 12 | `ConversationHidden` (`MCConversation`) | `NothingRolledBackReturns` | mcp-tools.ts:2589, the rolled-back user input does not land back in the upstream request: an injected prompt sealed after the target does. An injection whose only child is a /v1/models call is the target of a rewind: its own body, prompt included, is the new history; the calls of that branch repeat it, and a later rewind to the turn before finds the first of them as that turn's first child. With `Habits <- Submitted` and the constraint `OnePlot` in its place: the dump of an injection holds an unfinished turn, submit_file forks with it at the closed turn before both, and a later dump for that turn contains them |
| 13 | `ForkAnchorsListing` (`MCForkAnchors`) | `AnnouncedOnce` | proxy-handler.ts:606, calls other than /v1/messages "don't need ordering": the end of a /v1/models answer that comes between the first, deferred turn of a rewind and the end of its chain announces the rewind as failed, and if the chain's last turn is out by then, its end announces the same rewind again |
| 14 | `DaemonPorts` (`MCDaemon`) | `PortsKeepApart` | daemon-control.ts:98 and the README of retcon (line 143), set RETCON_PORT to run on a different port: one orderly run after the other, of version 1 on one port and of version 2 on another, migrates the database under the first daemon; and as the one pid file names the last daemon to come up, run, run elsewhere, stop, clean deletes while the first one serves |

Met while modelling and not judged by a property: a call that fails inside propagateToNode
rejects a promise nobody awaits, which ends the process; an error while a fork copies the
accumulators is caught, and the fork goes on without them (database-operations.ts:181-203); a
getTask that fails at discovery, or after a granted claim, makes an engine forget the workflow
until it is restarted (workflow-engine.ts:205-209, 259-265); a report that fails is logged and its event committed
(graphql/pipeline.ts:999-1120); a count_tokens probe that ends between two turns of a tool chain
announces a deferred rewind as failed (proxy-handler.ts:1233-1283); of two forks from one parent the second drops the first one's rows; a partial
update without a dependency status sets STALE; a freshened node shows IDLE while its task is
pending; two active anchor rows are possible after a merge of sessions; an event whose handler
always fails holds back every later one; a split of an empty list propagates nothing
(scheduler.ts:779), so nothing behind its merge is ever started: `MergedListIsWhole` asks for
an entry.

## 5. What is proved

All proofs are checked by TLAPS to the last leaf, for every value of the constants that the
named assumptions of the modules allow: distinct null values, positive bounds, ids as natural
numbers, well-formed wiring. No property is inductive as it stands; what follows is the
strengthening each proof needs.

* **TaskLease**: `TypeCorrect`, `WindowsAgree`, `Fenced`, `Announced`, `Refinement`. The
  invariant is `TypeOK /\ LeaseShape /\ FenceShape /\ ResultIsAnnounced`. `LeaseShape` makes
  the three SQL conditions agree: a claim's `age + left = TTL` at all times, saturation
  included, and a row has claim columns exactly while RUNNING. `FenceShape`: whoever
  holds the columns with an attempt running made the latest claim, without the expiry that
  `ReportIsFenced` adds.
* **EventBus**: `TypeCorrect`, `CoversHandled`, `NeedsFault`. Of every engine, an event at
  or below its position is handled or late, and its batch has no gap; for redelivery the
  invariant counts, per event, the engines whose position has passed it.
* **RevisionFork**: `NodesHaveWork`, `KeepTheirRevision`, `SubmissionCarried`. `StoreInv` says what rows, tasks and
  log look like together (a running row has a task that exists; a stale one has none, or one
  that was scheduled again with its old version; the event of a failure comes after those of the successes before it), `HandlerInv` what the handler may still
  carry at each step, and `RunningInv` where a running node's work is: its task can be taken,
  or an event of it comes later, or the event being handled counts until this node has been
  written back. The last clause is the point: between the listing and the write-back the
  event is neither ahead nor done. For a submission, `SubmitInv` follows its handler: every node
  behind the player's node is still to be fed, is being fed, or has the value (`CarryInv`),
  which a partial update can only keep because a row's task is always one of its own node
  (`NamesInv`). Afterwards an input changes only by a result of the node before, or in the
  update of stale nodes, which reads all rows once before its loop
  (task-update-handler.ts:485) and so writes back inputs that are older than the loop.
* **MergeNode**: `OneCallInTheZone`, `Kept`, `OneArrival`. `LockInv` states the promise
  chain as what it is, a line: the calls that have entered stand in a bijection with
  1..n, each awaits the one before, and the map has the last. From it follows that one
  call at a time is in the zone, and only with that does `DataInv` (accumulator, row and
  what the calls delivered agree, outside a call's zone) survive a step. A forked revision
  inherits the accumulator and what had been delivered to it, so `DataInv` is about every revision
  that lost nothing, and the next arrival completes the copied row.
* **WorkflowEngine**: `NotForgotten`, `SeparateStarts`. `LeaseInv`: between its claim and the
  second call an engine has the lease and the last revision for itself; a workflow that is
  started without a revision is finished. `KnowInv` is
  `SomebodyKnows` for every engine that no failed call made forget.
* **SplitMerge**: `ListIsWhole`, `KeysAreKept`, from `SplitInvariant`. The first half of `SplitInv` holds
  of every revision: what the handler and each parallel call hold agrees with the event they
  work for, a row's task runs the item of its key, a result in an accumulator was said of an item
  that is or was under its key. The second half, `Live`, is about an active revision that lost nothing,
  and follows a result to where it is: every entry has its row, or the handler has still to make it;
  what was heard of a task is under every key that has it, or a call is about to write it,
  or the event comes again (redelivery after a crash included); a full accumulator is
  with the node behind, on its way, or will be sent again. That nothing is passed on before
  the list is full needs the shapes: lists of one shape share their contexts, and only
  those may follow each other in a revision without loss.
* **ForkAnchors**: `TypeCorrect`, `OneActive`, `AccountedFor`, `NamesItsLanding`, `Refinement`.
  `Remembered` ties what the proxy remembers of a spliced call to the rows (of a rewind that is
  not struck, nothing but a release happens to the row while the call is out), `AtEnd` and `Listed` what the two ends that may be
  under way still owe to what has been announced, `Ledger` announcements to landings for rows
  no longer active. `struck` is what makes it inductive: an end outside the queue may only run
  into the end of a turn whose rewind is struck by that very step.
* **SessionBinding**: `SessionsApart`, `CallsKeepTheirActor`, `Walkable` (all three assume that nobody returns to
  a conversation that its own launch has cleared, the case of section 4 (11)), and `Sticks` without assumption.
  A session's task is named by its own id or by one that is spent, the id of a promoted
  transport, which nobody uses again; a launch whose conversation somebody else
  is in is over. `Walkable` adds the clock: the calls of a task come one after the other, whoever
  is still on its transport's id calls after all of the conversation it resumed, and its own
  calls are linked among themselves, so the merge has one loose end to link and links it to the last
  closed turn (`SeqInv`, `OrderInv`, `LinkedInv`).
* **Daemon**: `SchemaFits`, `Overlooks`, for any number of ports. While commands take turns, and retcon is run for another
  port only after the daemon is gone (`mixed`; needed, by (14) of section 4), at most one daemon lives, and it is
  settled, or rising for a command that polls for it, or falling for one that waits for it;
  no command that is sure no daemon lives is wrong.
* **Conversation**: `ParentsLeadBack`, `ViewsKeepTheirOrigin`, for any habits and any length;
  `RolledBackStaysBack`, for any length and the habits of `InjectionsInSight`.
  `HistoryInv` has the rows (a row is sealed when it leaves its flight, and its parent was
  sealed before it began; the marker's was there before the rewind was asked for), the
  references of views, dumps and local turns, and the anchor: an active one stands at a sealed
  row, and while a departure is still to be recorded there is room for its marker. That the
  parents lead back is not inductive without the anchor, since a spliced call takes its parent
  from there. A view's head only moves to a row whose walk back passes the old head.

  That what was rolled back does not return (`NothingRolledBackReturns`) is about what the
  walk over first children finds, and needs the history of every row that walk may meet
  (`InSightInv`). `Timely`: a body holds only what was sealed when its call began. `OneByOne`:
  queued calls do not overlap, so of a call that hangs off the target nothing after the target
  can be in its body. `Placed` divides the rows: a call that is not at an anchor hangs off
  what was sealed last; calls at an anchor all hang off the fork, later ones with the earlier
  ones in their bodies, and only the first of them is sure to end at it (`AtTheFork`), which
  is enough as the walk takes the earliest child. Hence `TokensSound`: the client's body
  carries the newest token, so no later call is taken for the first at an anchor;
  `AnchorSound` and `DumpSound`: what is kept for a fork or in a file ends at its turn. Injections are the hard
  part: the walk passes through them, and an injection without a child stands for itself. `HeardSound`
  says, where no /v1/models calls are made, that every injection is the parent of a call, or
  nothing has been sealed since and the next call will be its child.

  The hypothesis `InjectionsInSight` is on the constant `Habits`: where the user injects, no
  submit_file, and no rewind by turn id where /v1/models calls are made too. It holds of
  every habit of run `conversation`, and of all habits without injections. Both exclusions
  are needed: (12) of section 4.
* **Channel**: `OutcomesAreRecorded`, `ReferencesGoFirst`, `HalvesAreUndone`, for any
  projectors. Half of `ChannelInv` is about the open transaction: those dispatched to and not
  on the list have had their turn, each with the event in its projection or a row that says it
  threw, and their offsets agree. Before that it is shown what `Visit` computes: it exists
  (its iterates settle as the references make no cycle, `VisitExists`), and takes a list without
  repetitions in which references come first to another such list that has the task
  (`VisitCollects`, by the rank of the task: nothing of its own rank or above is added below it).

## 6. What is only model-checked

* All liveness (`WaitingTaskIsTaken`, `CallsEnd`, `ListComesOut`, `WorkflowEnds`, `CommandEnds`,
  `EventIsHandled`): fairness is outside the prover.
* `NothingRolledBackReturns` for habits outside `InjectionsInSight`: not a theorem, but false, by (12).
* The counterexamples of section 4.

## 7. What is not modelled

* Response parsing, body editing, redaction, hashing, asset stores, the pipeline parser, the
  compiler, the command line tools: pure functions or plain I/O; their results are inputs of
  the modules.
* Of the server: queries for display, pagination of listings, task creators. Of the client: read-only
  queries. Of the worker: `executeSingleTask`, the one-shot mode.
* Of retcon: the reminder of a released rewind and its mute, header filters, cache_control
  editing, SSE; recall's pages and details, session and branch listings; `onMcpClosed`, which
  only stamps `ended_at`; what clean deletes inside its one transaction.
* Of the channel: the migration of an old database, the row storage behind the views.
* Of the ends in `ForkAnchors`: a write of the event log that fails within one; an aborted
  splice, whose event and release are one step; two ends outside the queue at the same time
  (one of them strikes a rewind already).
* Two daemons on two ports beyond what (14) of section 4 shows: the properties of `Daemon` ask that a
  port is changed after a stop, and the modules of the proxy have one daemon on the database.
* A takeover of a workflow while callers fork it: `WorkflowEngine` has one node and no callers,
  `RevisionFork` starts after a bootstrap whose root task was new or had failed. The bootstrap's write to the rows of every
  revision (`BootRows`) is in the model, without a property about historical rows.
* Process ids that are reused, and two binaries that disagree on the schema while
  commands overlap.

## 8. Where to go on

1. `WorkflowEngine` with the forks of `RevisionStore`: a takeover creates a revision without
   copying node states, concurrently with callers.
2. The released-rewind reminder on top of `ForkAnchors`.
3. A reference definition for the parser and the validator of pipelines, checked over
   bounded graphs.
4. `InjectionsInSight` excludes whole tools; which of their uses are harmless (a rewind to a
   turn that is no injection, a file dumped for the turn it is submitted at) is open.

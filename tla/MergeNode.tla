------------------------------ MODULE MergeNode ------------------------------
(***************************************************************************)
(* A merge node of a pipeline waits until all of its slots are filled.  Its *)
(* inputs arrive from several source nodes, in calls of propagateToNode     *)
(* (pipeline-runner/src/pipeline/scheduler.ts) that run concurrently: the   *)
(* bootstrap of the workflow beside the event loop, and within one event    *)
(* one call per node that uses the finished task.  What has arrived so far  *)
(* is a row of PipelineMergeAccumulator, one per revision.  Within a        *)
(* process the calls for a node queue on a chain of promises.               *)
(*                                                                          *)
(* Meta slots (^name) are gathered like the others, but they are left out   *)
(* of the task's inputs and of last_inputs_hash.  After each start of the   *)
(* node they have to arrive again; meta_asset_hash is never read here.      *)
(*                                                                          *)
(* Rows are written through PipelineGraphQLClient.nodeStateCache, which     *)
(* does not send an update it has sent before.                              *)
(*                                                                          *)
(* A call that throws rejects its promise.  The call behind it, if any,     *)
(* throws in turn; the last one is awaited by nobody, and Node ends the     *)
(* process.  A failed call is therefore a Crash.                            *)
(***************************************************************************)
EXTENDS Integers, Sequences

CONSTANTS
  Slot,          \* the node's input slots, data and meta
  Meta,          \* those of them that are meta slots
  Source,        \* nodes that feed it; "input" and constant nodes included
  Feeds,         \* [Source -> SUBSET Slot]
  Boot,          \* sources delivered by handleWorkflowStart
  Together,      \* sets of sources that one task's event delivers
  Value,
  AutoPropagate, \* values of PLAYTISS_AUTO_PROPAGATE that a process is started with
  MaxRevision,   \* bound: revisions
  MaxEvent,      \* bound: events
  MaxWaiting,    \* bound: events that are not committed yet
  MaxFault,      \* bound: crashes and failed calls
  Null,          \* a slot that is not filled; NULL in a row
  NoRow,         \* no row in the table
  NoCall         \* no call; also no tail of the chain

ASSUME MergeAssumption ==
  /\ Feeds \in [Source -> SUBSET Slot]
  /\ Slot # {} /\ Meta \subseteq Slot /\ \A s \in Source : Feeds[s] # {}
  /\ \A s, t \in Source : s # t => Feeds[s] \cap Feeds[t] = {}
  /\ Boot \subseteq Source /\ Together \subseteq SUBSET (Source \ Boot)
  /\ AutoPropagate \subseteq BOOLEAN /\ AutoPropagate # {} /\ MaxRevision \in Nat \ {0}
  /\ MaxEvent \in Nat /\ MaxWaiting \in Nat /\ MaxFault \in Nat
  /\ Value # {} /\ Null \notin Value /\ NoCall \notin Source
  /\ NoRow \notin [Slot -> Value \cup {Null}]

VARIABLES
  active,   \* the active revision
  acc,      \* rows of PipelineMergeAccumulator for the node
  row,      \* the node's state in each revision: its task's inputs, last_inputs_hash
  events,   \* results of source tasks: which sources, with what value
  handled,  \* events committed
  batch,    \* sources of the event being handled
  call,     \* the call of propagateToNode for a source
  tail,     \* criticalZoneLock: the last call of the chain, per revision
  ahead,    \* the call whose promise a call awaits
  auto,     \* AUTO_PROPAGATE_STALE_NODES of the process
  sent,     \* nodeStateCache: updates of the node's row that the process has sent
  given,    \* history: what calls that ended have delivered and no start has used up
  lossy,    \* history: revisions that lost an input in one of the known ways
  faults

storeVars == <<active, acc, row>>
callVars == <<call, tail, ahead>>
processVars == <<auto, sent>>
vars == <<active, acc, row, events, handled, batch, call, tail, ahead, auto, sent,
          given, lossy, faults>>

Revision == 1..MaxRevision
Inputs == [Slot -> Value \cup {Null}]
Empty == [i \in Slot |-> Null]
DataOf(inputs) == [i \in Slot |-> IF i \in Meta THEN Null ELSE inputs[i]]   \* stripMetaKeys
NodeState == [task : Inputs \cup {NoRow}, inputs : Inputs \cup {NoRow}]
NodeUpdate == [rev : Revision, task : Inputs \cup {NoRow}, inputs : Inputs]
Step == {"none", "todo", "queued", "task", "dispatch", "ready", "record"}
Call == [step : Step, rev : Revision, value : Value, inputs : Inputs]

NoDelivery == [step |-> "none", rev |-> 1, value |-> CHOOSE v \in Value : TRUE, inputs |-> Empty]

TypeOK ==
  /\ active \in Revision
  /\ acc \in [Revision -> Inputs \cup {NoRow}]
  /\ row \in [Revision -> NodeState]
  /\ \A i \in DOMAIN events : events[i].sources \in Together /\ events[i].value \in Value
  /\ handled \in 0..MaxEvent /\ batch \in SUBSET Source
  /\ call \in [Source -> Call]
  /\ tail \in [Revision -> Source \cup {NoCall}]
  /\ ahead \in [Source -> Source \cup {NoCall}]
  /\ auto \in AutoPropagate /\ sent \subseteq NodeUpdate
  /\ given \in [Revision -> Inputs]
  /\ lossy \in SUBSET Revision /\ faults \in 0..MaxFault

(* The workflow is claimed and its bootstrap about to deliver the first inputs. *)
Init ==
  /\ active = 1
  /\ acc = [r \in Revision |-> NoRow]
  /\ row = [r \in Revision |-> [task |-> NoRow, inputs |-> NoRow]]
  /\ events = <<>> /\ handled = 0 /\ batch = {}
  /\ call = [s \in Source |-> IF s \in Boot THEN [NoDelivery EXCEPT !.step = "todo"] ELSE NoDelivery]
  /\ tail = [r \in Revision |-> NoCall]
  /\ ahead = [s \in Source |-> NoCall]
  /\ auto \in AutoPropagate /\ sent = {}
  /\ given = [r \in Revision |-> Empty]
  /\ lossy = {} /\ faults = 0

InFlight(s) == call[s].step # "none"
Booted == \A s \in Boot : ~InFlight(s)

-----------------------------------------------------------------------------
(* Around the node: results arrive, the API forks, the event loop takes events. *)

Arrive ==
  /\ Len(events) < MaxEvent /\ Len(events) - handled < MaxWaiting
  /\ \E S \in Together, v \in Value : events' = Append(events, [sources |-> S, value |-> v])
  /\ UNCHANGED <<storeVars, handled, batch, callVars, processVars, given, lossy, faults>>

PastDrop(s) == call[s].step \in {"ready", "record"}

NewRevision ==
  /\ active < MaxRevision
  /\ active' = active + 1
  /\ row' = [row EXCEPT ![active + 1] = row[active]]
  /\ given' = [given EXCEPT ![active + 1] = given[active]]
  /\ UNCHANGED <<events, handled, batch, callVars, processVars>>

(* Mutant: the accumulators stay behind. *)
ForkRowsOnly == NewRevision /\ UNCHANGED <<acc, lossy, faults>>

(* A fork copies the node states and the accumulators; a call in flight goes on in *)
(* the parent.  If it has deleted its accumulator and not yet written the row, the *)
(* child has neither.  When the copy of the accumulators fails, that is logged and *)
(* the fork goes on.                                                               *)
Fork ==
  /\ NewRevision
  /\ \/ /\ acc' = [acc EXCEPT ![active + 1] = acc[active]]
        /\ lossy' = IF \/ active \in lossy
                       \/ \E s \in Source : PastDrop(s) /\ call[s].rev = active
                    THEN lossy \cup {active + 1} ELSE lossy
        /\ UNCHANGED faults
     \/ /\ faults < MaxFault /\ faults' = faults + 1
        /\ lossy' = lossy \cup {active + 1}
        /\ UNCHANGED acc

(* The handler of the next event, in the revision active now. *)
TakeEvent ==
  /\ batch = {} /\ handled < Len(events)
  /\ batch' = events[handled + 1].sources
  /\ call' = [s \in Source |->
       IF s \in batch' THEN [step |-> "todo", rev |-> active,
                             value |-> events[handled + 1].value, inputs |-> Empty]
       ELSE call[s]]
  /\ UNCHANGED <<storeVars, events, handled, tail, ahead, processVars, given, lossy, faults>>

CommitEvent ==
  /\ batch # {} /\ \A s \in batch : ~InFlight(s)
  /\ handled' = handled + 1 /\ batch' = {}
  /\ UNCHANGED <<storeVars, events, callVars, processVars, given, lossy, faults>>

-----------------------------------------------------------------------------
(* The critical zone. *)

At(s, step) == call[s].step = step
Goto(s, step, inputs) == call' = [call EXCEPT ![s].step = step, ![s].inputs = inputs]
eventVars == <<events, handled, batch>>
OnlyCall == UNCHANGED <<storeVars, eventVars, tail, ahead, processVars, given, lossy, faults>>

(* Mutant: the promise is installed, but nobody's is awaited. *)
EnterUnlocked(s) ==
  /\ At(s, "todo")
  /\ tail' = [tail EXCEPT ![call[s].rev] = s]
  /\ Goto(s, "queued", Empty)
  /\ UNCHANGED <<storeVars, ahead, eventVars, processVars, given, lossy, faults>>

(* acquireMergeNodeLock: take the chain's tail, become it, await the old one. *)
Enter(s) ==
  /\ At(s, "todo")
  /\ ahead' = [ahead EXCEPT ![s] = tail[call[s].rev]]
  /\ tail' = [tail EXCEPT ![call[s].rev] = s]
  /\ Goto(s, "queued", Empty)
  /\ UNCHANGED <<storeVars, eventVars, processVars, given, lossy, faults>>

(* PipelineMergeAccumulator: INSERT OR REPLACE of the whole row, and DELETE. *)
Accumulator(s) == acc[call[s].rev]
Overwrite(s, inputs) == acc' = [acc EXCEPT ![call[s].rev] = inputs]
Discard(s) == acc' = [acc EXCEPT ![call[s].rev] = NoRow]

(* What a call adds to the inputs it has read. *)
Merged(s, base) == [i \in Slot |-> IF i \in Feeds[s] THEN call[s].value ELSE base[i]]
Full(inputs) == \A i \in Slot : inputs[i] # Null

(* getPartialTaskInputs. *)
ReadAccumulator(s) ==
  /\ At(s, "queued") /\ ahead[s] = NoCall
  /\ IF Accumulator(s) # NoRow THEN Goto(s, "dispatch", Merged(s, Accumulator(s)))
     ELSE Goto(s, "task", Empty)
  /\ OnlyCall

(* getTaskInputs: the inputs of the task in the node's row, if it has one; they are *)
(* data.  A node that was marked STALE has none, and only the inputs that arrive now *)
(* count.                                                                            *)
ReadTask(s) ==
  LET state == row[call[s].rev] IN
  /\ At(s, "task")
  /\ Goto(s, "dispatch", Merged(s, IF state.task = NoRow THEN Empty ELSE state.task))
  /\ lossy' = IF state.task = NoRow /\ state.inputs # NoRow
              THEN lossy \cup {call[s].rev} ELSE lossy
  /\ UNCHANGED <<storeVars, eventVars, tail, ahead, processVars, given, faults>>

(* getTask fails: it logs and returns null, and the call goes on without inputs. *)
ReadTaskFails(s) ==
  /\ At(s, "task") /\ row[call[s].rev].task # NoRow
  /\ faults < MaxFault /\ faults' = faults + 1
  /\ Goto(s, "dispatch", Merged(s, Empty))
  /\ lossy' = lossy \cup {call[s].rev}
  /\ UNCHANGED <<storeVars, eventVars, tail, ahead, processVars, given>>

(* Mutant: the promise settles and nobody who awaits it goes on. *)
ReleaseNobody(s, left) ==
  /\ call' = [call EXCEPT ![s] = NoDelivery]
  /\ given' = [given EXCEPT ![call[s].rev] = left]
  /\ UNCHANGED <<active, eventVars, tail, ahead, auto, faults>>

(* resolve(): the promise of the call settles and the next in the chain goes on. *)
Release(s, left) ==
  /\ call' = [call EXCEPT ![s] = NoDelivery]
  /\ ahead' = [t \in Source |-> IF ahead[t] = s THEN NoCall ELSE ahead[t]]
  /\ tail' = [r \in Revision |-> IF tail[r] = s THEN NoCall ELSE tail[r]]
  /\ given' = [given EXCEPT ![call[s].rev] = left]
  /\ UNCHANGED <<active, eventVars, auto, faults>>

Delivered(s) == Merged(s, given[call[s].rev])

(* handleMergeNode, an input missing: the whole row is overwritten. *)
SavePartial(s) ==
  /\ At(s, "dispatch") /\ ~Full(call[s].inputs)
  /\ Overwrite(s, call[s].inputs)
  /\ Release(s, Delivered(s))
  /\ UNCHANGED <<row, sent, lossy>>

(* handleMergeNode, all there: the accumulator goes before the task is created. *)
DropAccumulator(s) ==
  /\ At(s, "dispatch") /\ Full(call[s].inputs)
  /\ Discard(s)
  /\ Goto(s, "ready", call[s].inputs)
  /\ UNCHANGED <<active, row, eventVars, tail, ahead, processVars, given, lossy, faults>>

-----------------------------------------------------------------------------
(* processNodeReady, in the zone.  Its end uses the meta values up. *)

State(s) == row[call[s].rev]
FirstRun(s) == State(s).task = NoRow
Unchanged(s) == State(s).inputs = DataOf(call[s].inputs)
UsedUp(s) == DataOf(Delivered(s))

StartTask(s) ==
  /\ At(s, "ready") /\ (FirstRun(s) \/ (~Unchanged(s) /\ auto))
  /\ Goto(s, "record", call[s].inputs)
  /\ OnlyCall

SkipNode(s) ==
  /\ At(s, "ready") /\ ~FirstRun(s) /\ Unchanged(s)
  /\ Release(s, UsedUp(s))
  /\ UNCHANGED <<acc, row, sent, lossy>>

(* updateNodeStates: an update that was sent before may be dropped.  It is sent    *)
(* again when the status of the task is another one, or the cache has let it go.   *)
UpdateNodeState(update) ==
  LET state == [task |-> update.task, inputs |-> DataOf(update.inputs)] IN
  \/ /\ row' = [row EXCEPT ![update.rev] = state]
     /\ sent' = sent \cup {update}
     /\ UNCHANGED lossy
  \/ /\ update \in sent
     /\ lossy' = IF row[update.rev] = state THEN lossy ELSE lossy \cup {update.rev}
     /\ UNCHANGED <<row, sent>>

MarkStale(s) ==
  /\ At(s, "ready") /\ ~FirstRun(s) /\ ~Unchanged(s) /\ ~auto
  /\ UpdateNodeState([rev |-> call[s].rev, task |-> NoRow, inputs |-> DataOf(call[s].inputs)])
  /\ Release(s, UsedUp(s))
  /\ UNCHANGED acc

(* createTask, which is idempotent, and the node's row; meta_asset_hash is part of *)
(* the update.                                                                     *)
RecordTask(s) ==
  /\ At(s, "record")
  /\ UpdateNodeState([rev |-> call[s].rev, task |-> DataOf(call[s].inputs),
                      inputs |-> call[s].inputs])
  /\ Release(s, UsedUp(s))
  /\ UNCHANGED acc

-----------------------------------------------------------------------------
(* The process ends, killed or by a call that failed, and is started again: the *)
(* chain is gone, the event it was at is handled again.  (A bootstrap that is    *)
(* cut short starts over in a revision of its own; see WorkflowEngine.)          *)

Crash ==
  /\ faults < MaxFault /\ Booted
  /\ faults' = faults + 1
  /\ lossy' = lossy \cup {call[s].rev : s \in {t \in Source : PastDrop(t)}}
  /\ batch' = {}
  /\ call' = [s \in Source |-> NoDelivery]
  /\ tail' = [r \in Revision |-> NoCall]
  /\ ahead' = [s \in Source |-> NoCall]
  /\ auto' \in AutoPropagate /\ sent' = {}
  /\ UNCHANGED <<storeVars, events, handled, given>>

CallNext(s) ==
  \/ Enter(s) \/ ReadAccumulator(s) \/ ReadTask(s)
  \/ SavePartial(s) \/ DropAccumulator(s)
  \/ StartTask(s) \/ SkipNode(s) \/ MarkStale(s) \/ RecordTask(s)

Next ==
  \/ Arrive \/ Fork \/ TakeEvent \/ CommitEvent
  \/ \E s \in Source : CallNext(s) \/ ReadTaskFails(s)
  \/ Crash

Spec == Init /\ [][Next]_vars

(* A started call goes on, and the event loop takes the next event. *)
FairSpec ==
  /\ Spec
  /\ \A s \in Source : WF_vars(CallNext(s))
  /\ WF_vars(TakeEvent) /\ WF_vars(CommitEvent)

-----------------------------------------------------------------------------
(* Properties. *)

Settled(r) == \A s \in Source : call[s].rev = r => ~PastDrop(s)

(* What the finished calls delivered is all there, the latest of every slot, in   *)
(* the active revision and in those it was forked from: in the accumulator while   *)
(* a slot is empty, in the inputs of the node's row once none is (meta values are  *)
(* used up by then).  In five ways only is an input lost: a process that ends, or  *)
(* a fork that happens, between deleteMergeAccumulator and the record of the task; *)
(* a fork that could not copy the accumulators; a second change after the node was *)
(* marked STALE; a failed read of the task; an update of the row that the cache    *)
(* took for one already sent.                                                      *)
ArrivalsAreKept ==
  /\ TypeOK
  /\ \A r \in Revision :
       r \notin lossy /\ Settled(r) =>
         IF acc[r] # NoRow THEN acc[r] = given[r] /\ ~Full(given[r])
         ELSE \/ row[r].inputs = given[r]
              \/ given[r] = Empty /\ row[r].inputs = NoRow

(* One call at a time is between its read of the accumulator and its last write: *)
(* the data that is recorded is what calls that had ended delivered, but for the *)
(* slots of one source, in a forked revision as well.                            *)
OneArrivalAtATime ==
  [][\A r \in 1..active :
       row'[r].inputs # row[r].inputs =>
         \/ \E s \in Source :
              {i \in Slot \ Meta : row'[r].inputs[i] # given[r][i]} \subseteq Feeds[s]
         \/ r \in lossy]_vars

(* The chain has no lost wakeup: every call that has started ends. *)
CallsEnd == \A s \in Source : InFlight(s) ~> ~InFlight(s)

Committed(s) == s \in Boot \/ \E j \in 1..handled : s \in events[j].sources
ToComeAgain(s) == handled < Len(events) /\ s \in events[handled + 1].sources

(* What "Delete merge accumulator when task is scheduled" promises: between two  *)
(* events an input that has been delivered, and whose event will not be handled  *)
(* again, is in the accumulator or among the inputs of the node.                 *)
CommittedInputsSurvive ==
  batch = {} /\ Booted =>
    \A r \in Revision, s \in Source : \A i \in Feeds[s] :
      Committed(s) /\ ~ToComeAgain(s) /\ given[r][i] # Null =>
        \/ acc[r] # NoRow /\ acc[r][i] = given[r][i]
        \/ row[r].inputs # NoRow /\ row[r].inputs[i] = given[r][i]
=============================================================================

------------------------------ MODULE SplitMerge ------------------------------
(***************************************************************************)
(* A split node of a pipeline runs the node behind it once for every entry  *)
(* of a list, and a merge node puts the results together again and passes   *)
(* the list on (pipeline-runner/src/pipeline/scheduler.ts).  A run of the   *)
(* element node is a row of its own: its context holds the shape of the     *)
(* list and the key.  Its task is named by the item, so equal items share   *)
(* a task, and one event then brings the results of several rows, handled   *)
(* in parallel.  What has come back is a row of PipelineMergeAccumulator,   *)
(* written key by key and never deleted.  Node states are written through   *)
(* PipelineGraphQLClient.nodeStateCache, which does not send an update it   *)
(* has sent before.                                                         *)
(*                                                                          *)
(* The event loop handles one event after the other; an event cut short by  *)
(* the end of the process is handled again.                                 *)
(***************************************************************************)
EXTENDS Integers, Sequences, FiniteSets

CONSTANTS
  Item, Output,
  Lists,        \* what the split node may be given
  PageSize,     \* records in a page of getTaskRecords
  LastRevision, \* bound: revisions
  MaxTrouble,   \* bound: forks, crashes, lists after the first, results of
                \* tasks that were finished before
  None,         \* not there (yet)
  Absent        \* no such task

ASSUME SplitAssumption ==
  /\ \A l \in Lists : /\ l.array \in BOOLEAN
                      /\ DOMAIN l.item \in SUBSET Nat /\ IsFiniteSet(DOMAIN l.item)
                      /\ \A k \in DOMAIN l.item : l.item[k] \in Item
  /\ PageSize \in Nat \ {0} /\ LastRevision \in Nat \ {0}
  /\ MaxTrouble \in Nat
  /\ None \notin Item \cup Output \cup Lists /\ Absent \notin Output \cup {None}

VARIABLES
  auto,    \* PLAYTISS_AUTO_PROPAGATE
  active,  \* the active revision
  rows,    \* node states of the element node, per revision and context
  acc,     \* PipelineMergeAccumulator of the merge node, per revision
  next,    \* node state of the node behind the merge, per revision
  output,  \* current OUTPUT version of an item's task
  events,  \* lists for the split node, and results of tasks
  handled, \* events committed
  h,       \* the handler of the event after those
  call,    \* handleTaskMergeNode for a record of the finished task
  sent,    \* nodeStateCache: updates of node states that the process has sent
  waves,   \* history: the lists fanned out, per revision
  heard,   \* history: the result last delivered of an item, per revision
  lossy,   \* history: revisions that lost a result in one of the known ways
  trouble

nodeVars == <<auto, active, rows, acc, next, output>>
histVars == <<waves, heard, lossy, trouble>>
loopVars == <<events, handled, h, call, sent>>
splitVars == <<nodeVars, loopVars, histVars>>

Revision == 1..LastRevision

(* A list is an array or an object; split and merge treat them differently. *)
Shape(l) == [array |-> l.array, keys |-> DOMAIN l.item]

(* The edges from the split node put the shape and the key into the context. *)
ElementContext(l, k) == [shape |-> Shape(l), key |-> k]

(* Equal contexts are one asset, and one row of the node. *)
Context == UNION {{ElementContext(l, k) : k \in DOMAIN l.item} : l \in Lists}

Partial(S, T) == UNION {[D -> T] : D \in SUBSET S}
AnyKey == UNION {DOMAIN l.item : l \in Lists}
Results == Partial(AnyKey, Output)
Nothing == [k \in {} |-> None]

NoState == [task |-> None, inputs |-> None]
Idle == [step |-> "idle", rev |-> 1, list |-> None, todo |-> {}, task |-> None,
         value |-> None, unread |-> {}]
NoCall == [step |-> "none", list |-> Nothing, start |-> FALSE]

Entry == [task : Item \cup {None}, inputs : Item \cup {None}]
NextState == [task : BOOLEAN, inputs : {None} \cup Results]
NodeUpdate == [rev : Revision, at : Context \cup {None}, state : Entry \cup NextState]
SplitEvent == [list : Lists \cup {None}, task : Item \cup {None}, value : Output \cup {None}]
HandlerRec == [step : {"idle", "fan", "record", "pages", "calls"}, rev : Revision,
               list : Lists \cup {None}, todo : SUBSET AnyKey, task : Item \cup {None},
               value : Output \cup {None}, unread : SUBSET Context]
CallRec == [step : {"none", "merge", "look", "write"}, list : Results, start : BOOLEAN]

SplitTypeOK ==
  /\ auto \in BOOLEAN /\ active \in Revision
  /\ rows \in [Revision -> [Context -> Entry]]
  /\ acc \in [Revision -> Results]
  /\ next \in [Revision -> NextState]
  /\ output \in [Item -> Output \cup {None, Absent}]
  /\ events \in Seq(SplitEvent) /\ handled \in 0..Len(events)
  /\ h \in HandlerRec /\ call \in [Context -> CallRec] /\ sent \subseteq NodeUpdate
  /\ waves \in [Revision -> Seq(Lists)]
  /\ heard \in [Revision -> [Item -> Output \cup {None}]]
  /\ lossy \in SUBSET Revision /\ trouble \in 0..MaxTrouble

SplitInit ==
  /\ auto \in BOOLEAN /\ active = 1
  /\ rows = [r \in Revision |-> [c \in Context |-> NoState]]
  /\ acc = [r \in Revision |-> Nothing]
  /\ next = [r \in Revision |-> [task |-> FALSE, inputs |-> None]]
  /\ output = [t \in Item |-> Absent]
  /\ events = <<>> /\ handled = 0 /\ h = Idle
  /\ call = [c \in Context |-> NoCall] /\ sent = {}
  /\ waves = [r \in Revision |-> <<>>]
  /\ heard = [r \in Revision |-> [t \in Item |-> None]]
  /\ lossy = {} /\ trouble = 0

-----------------------------------------------------------------------------
(* Around the nodes: results, lists and forks. *)

Emit(list, task, value) ==
  events' = Append(events, [list |-> list, task |-> task, value |-> value])

Trouble == trouble < MaxTrouble /\ trouble' = trouble + 1

GiveList ==
  /\ IF events = <<>> THEN UNCHANGED trouble ELSE Trouble
  /\ \E l \in Lists : Emit(l, None, None)
  /\ UNCHANGED <<nodeVars, handled, h, call, sent, waves, heard, lossy>>

FinishTask(t, v) ==
  /\ output' = [output EXCEPT ![t] = v]
  /\ Emit(None, t, v)
  /\ UNCHANGED <<auto, active, rows, acc, next, handled, h, call, sent, waves, heard, lossy>>

Work(t) ==
  /\ output[t] = None
  /\ \E v \in Output : FinishTask(t, v)
  /\ UNCHANGED trouble

(* A refreshed task is finished again. *)
WorkAgain(t) ==
  /\ output[t] \in Output /\ Trouble
  /\ \E v \in Output \ {output[t]} : FinishTask(t, v)

NewRevision ==
  /\ active < LastRevision /\ Trouble
  /\ active' = active + 1
  /\ rows' = [rows EXCEPT ![active + 1] = rows[active]]
  /\ next' = [next EXCEPT ![active + 1] = next[active]]
  /\ waves' = [waves EXCEPT ![active + 1] = waves[active]]
  /\ heard' = [heard EXCEPT ![active + 1] = heard[active]]
  /\ UNCHANGED <<auto, output, loopVars>>

(* Mutant: what has come back stays behind. *)
ForkRowsOnly == NewRevision /\ UNCHANGED <<acc, lossy>>

(* A fork copies the node states and the accumulator; a handler goes on in the *)
(* parent.  When the copy of the accumulator fails, the fork goes on.           *)
Fork ==
  /\ NewRevision
  /\ \/ /\ acc' = [acc EXCEPT ![active + 1] = acc[active]]
        /\ lossy' = IF active \in lossy \/ (h # Idle /\ h.rev = active)
                    THEN lossy \cup {active + 1} ELSE lossy
     \/ /\ acc[active] # Nothing
        /\ lossy' = lossy \cup {active + 1}
        /\ UNCHANGED acc

-----------------------------------------------------------------------------
(* fanOutSplit: one entry after the other, each through processNodeReady. *)

Event1 == events[handled + 1]
Free == h = Idle /\ handled < Len(events)

LastOf(s) == s[Len(s)]

(* A second list of another shape leaves results of the first behind, and when *)
(* nothing is propagated by itself its entries wait for the user.               *)
Clashes(r, l) ==
  waves[r] # <<>> /\ LastOf(waves[r]) # l /\ (Shape(LastOf(waves[r])) # Shape(l) \/ ~auto)

TakeList ==
  /\ Free /\ Event1.list # None
  /\ LET l == Event1.list IN
       /\ h' = [Idle EXCEPT !.step = "fan", !.rev = active, !.list = l, !.todo = DOMAIN l.item]
       /\ waves' = [waves EXCEPT ![active] =
                      IF @ # <<>> /\ LastOf(@) = l THEN @ ELSE Append(@, l)]
       /\ lossy' = IF Clashes(active, l) THEN lossy \cup {active} ELSE lossy
  /\ UNCHANGED <<nodeVars, events, handled, call, sent, heard, trouble>>

FirstOf(S) == CHOOSE k \in S : \A j \in S : k <= j
Key1 == FirstOf(h.todo)
Item1 == h.list.item[Key1]
Context1 == ElementContext(h.list, Key1)
Row1 == rows[h.rev][Context1]
Fanning == h.step = "fan" /\ h.todo # {}
NextEntry == [h EXCEPT !.step = "fan", !.todo = @ \ {Key1}]

(* updateNodeStates: an update that was sent before may be dropped.  It is sent    *)
(* again when the status of the task is another one, or the cache has let it go.   *)
Send(update) == sent' = sent \cup {update}
Drop(update, same) ==
  /\ update \in sent
  /\ lossy' = IF same THEN lossy ELSE lossy \cup {update.rev}
  /\ UNCHANGED sent

SetRow(state) ==
  LET update == [rev |-> h.rev, at |-> Context1, state |-> state] IN
  \/ Send(update) /\ rows' = [rows EXCEPT ![h.rev][Context1] = state] /\ UNCHANGED lossy
  \/ Drop(update, Row1 = state) /\ UNCHANGED rows

SkipEntry ==
  /\ Fanning /\ Row1.task # None /\ Row1.inputs = Item1
  /\ h' = NextEntry
  /\ UNCHANGED <<nodeVars, events, handled, call, sent, histVars>>

MarkEntryStale ==
  /\ Fanning /\ Row1.task # None /\ Row1.inputs # Item1 /\ ~auto
  /\ SetRow([task |-> None, inputs |-> Item1])
  /\ h' = NextEntry
  /\ UNCHANGED <<auto, active, acc, next, output, events, handled, call, waves, heard, trouble>>

ComesAgain(t) == \E i \in handled + 1..Len(events) : events[i].task = t

(* createTask, idempotent.  No event follows for a task that was finished, and  *)
(* heard of, before.                                                             *)
CreateTask ==
  /\ Fanning /\ (Row1.task # None => Row1.inputs # Item1 /\ auto)
  /\ output' = [output EXCEPT ![Item1] = IF @ = Absent THEN None ELSE @]
  /\ h' = [h EXCEPT !.step = "record"]
  /\ lossy' = IF output[Item1] \in Output /\ ~ComesAgain(Item1)
              THEN lossy \cup {h.rev} ELSE lossy
  /\ UNCHANGED <<auto, active, rows, acc, next, events, handled, call, sent, waves, heard, trouble>>

RecordTask ==
  /\ h.step = "record"
  /\ SetRow([task |-> Item1, inputs |-> Item1])
  /\ h' = NextEntry
  /\ UNCHANGED <<auto, active, acc, next, output, events, handled, call, waves, heard, trouble>>

-----------------------------------------------------------------------------
(* handleTaskCompletion: the records of the task, page by page, then all at once. *)

RecordsOf(r, t) == {c \in Context : rows[r][c].task = t}

TakeResult ==
  /\ Free /\ Event1.task # None
  /\ h' = [Idle EXCEPT !.step = "pages", !.rev = active, !.task = Event1.task,
                       !.value = output[Event1.task],
                       !.unread = RecordsOf(active, Event1.task)]
  /\ UNCHANGED <<nodeVars, events, handled, call, sent, histVars>>

Smaller(m, n) == IF m < n THEN m ELSE n

(* A page: the records behind the cursor, up to the limit; the order is any. *)
Page(P) == P \subseteq h.unread /\ Cardinality(P) = Smaller(PageSize, Cardinality(h.unread))

(* Mutant: the cursor names the node and not the context. *)
ReadOnePage ==
  /\ h.step = "pages"
  /\ \E P \in SUBSET h.unread :
       /\ Page(P)
       /\ call' = [c \in Context |-> IF c \in P THEN [NoCall EXCEPT !.step = "merge"] ELSE call[c]]
       /\ h' = [h EXCEPT !.unread = {}, !.step = "calls"]
  /\ UNCHANGED <<nodeVars, events, handled, sent, histVars>>

(* The version a node's last result came from is never loaded. *)
LastUsedVersion(c) == None

(* "V14 Redelivery Detection" would fork if it saw another result of a record. *)
Redelivery(cs) == \E c \in cs : LastUsedVersion(c) \notin {None, h.value}

ReadPage ==
  /\ h.step = "pages"
  /\ \E P \in SUBSET h.unread :
       /\ Page(P) /\ ~Redelivery(P)
       /\ call' = [c \in Context |-> IF c \in P THEN [NoCall EXCEPT !.step = "merge"] ELSE call[c]]
       /\ h' = [h EXCEPT !.unread = @ \ P, !.step = IF h.unread = P THEN "calls" ELSE "pages"]
  /\ UNCHANGED <<nodeVars, events, handled, sent, histVars>>

-----------------------------------------------------------------------------
(* handleTaskMergeNode for one record, and the node behind it. *)

CallAt(c, step) == h.step = "calls" /\ call[c].step = step
EndCall(c) == call' = [call EXCEPT ![c] = NoCall]

(* mergeMergeAccumulator: read, one key set, written, in one transaction. *)
WithKey(results, k, v) == [j \in DOMAIN results \cup {k} |-> IF j = k THEN v ELSE results[j]]

(* Mutant: the accumulator's entries before this one count. *)
CompleteTooEarly(c, results) == Cardinality(DOMAIN results) + 1 >= Cardinality(c.shape.keys)

(* An array is counted, of an object every key is looked up. *)
Complete(c, results) ==
  IF c.shape.array THEN Cardinality(DOMAIN results) = Cardinality(c.shape.keys)
  ELSE c.shape.keys \subseteq DOMAIN results

(* Mutant: two calls read the accumulator before either writes. *)
MergeUnread(c) ==
  /\ CallAt(c, "merge")
  /\ LET results == WithKey(Nothing, c.key, h.value) IN
       /\ acc' = [acc EXCEPT ![h.rev] = results]
       /\ IF Complete(c, results)
          THEN call' = [call EXCEPT ![c] = [step |-> "look", list |-> results, start |-> FALSE]]
          ELSE EndCall(c)
  /\ UNCHANGED <<auto, active, rows, next, output, events, handled, h, sent, histVars>>

Merge(c) ==
  /\ CallAt(c, "merge")
  /\ LET results == WithKey(acc[h.rev], c.key, h.value) IN
       /\ acc' = [acc EXCEPT ![h.rev] = results]
       /\ IF Complete(c, results)
          THEN call' = [call EXCEPT ![c] = [step |-> "look", list |-> results, start |-> FALSE]]
          ELSE EndCall(c)
  /\ UNCHANGED <<auto, active, rows, next, output, events, handled, h, sent, histVars>>

Behind == next[h.rev]

SkipNext(c) ==
  /\ CallAt(c, "look") /\ Behind.task /\ Behind.inputs = call[c].list
  /\ EndCall(c)
  /\ UNCHANGED <<nodeVars, events, handled, h, sent, histVars>>

(* forwardMergeOutput: nothing but the row read here holds two calls apart. *)
Forward(c) ==
  /\ CallAt(c, "look") /\ ~(Behind.task /\ Behind.inputs = call[c].list)
  /\ call' = [call EXCEPT ![c] = [@ EXCEPT !.step = "write", !.start = ~Behind.task \/ auto]]
  /\ UNCHANGED <<nodeVars, events, handled, h, sent, histVars>>

(* Two calls of one event can write in the order they did not merge in. *)
Late(c) == /\ call[c].list # acc[h.rev]
           /\ \A d \in Context \ {c} : call[d].step \in {"look", "write"} =>
                                         call[d].list # acc[h.rev]

WriteNext(c) ==
  LET state == [task |-> call[c].start, inputs |-> call[c].list]
      update == [rev |-> h.rev, at |-> None, state |-> state]
  IN
  /\ CallAt(c, "write")
  /\ \/ /\ Send(update)
        /\ next' = [next EXCEPT ![h.rev] = state]
        /\ lossy' = IF Late(c) THEN lossy \cup {h.rev} ELSE lossy
     \/ Drop(update, Behind = state /\ ~Late(c)) /\ UNCHANGED next
  /\ EndCall(c)
  /\ UNCHANGED <<auto, active, rows, acc, output, events, handled, h, waves, heard, trouble>>

CommitOffset ==
  /\ \/ h.step = "fan" /\ h.todo = {}
     \/ h.step = "calls" /\ \A c \in Context : call[c].step = "none"
  /\ h' = Idle /\ handled' = handled + 1
  /\ heard' = IF h.task = None THEN heard ELSE [heard EXCEPT ![h.rev][h.task] = h.value]
  /\ UNCHANGED <<nodeVars, events, call, sent, waves, lossy, trouble>>

(* The process ends and is started again. *)
ProcessEnds ==
  /\ h # Idle /\ Trouble
  /\ h' = Idle /\ call' = [c \in Context |-> NoCall] /\ sent' = {}
  /\ UNCHANGED <<nodeVars, events, handled, waves, heard, lossy>>

CallNext(c) == Merge(c) \/ SkipNext(c) \/ Forward(c) \/ WriteNext(c)

LoopNext ==
  \/ TakeList \/ SkipEntry \/ MarkEntryStale \/ CreateTask \/ RecordTask
  \/ TakeResult \/ ReadPage \/ CommitOffset
  \/ \E c \in Context : CallNext(c)

SplitNext ==
  \/ GiveList \/ Fork \/ ProcessEnds \/ LoopNext
  \/ \E t \in Item : Work(t) \/ WorkAgain(t)

SplitSpec == SplitInit /\ [][SplitNext]_splitVars

(* The event loop goes on, and the workers finish every task. *)
FairSplit == SplitSpec /\ WF_splitVars(LoopNext) /\ \A t \in Item : WF_splitVars(Work(t))

-----------------------------------------------------------------------------
(* Properties. *)

Wave(r) == LastOf(waves[r]).item
Whole(r) == \A k \in DOMAIN Wave(r) : heard[r][Wave(r)[k]] # None
Quiet == h = Idle /\ handled = Len(events)

(* Once all events are handled, the node behind the merge has been given the     *)
(* list of the latest results if every item has one, and nothing before that     *)
(* (the results so far, if it was given a list before).  A revision may lose     *)
(* this in six ways only: a list of another shape (Clashes), a task finished     *)
(* before with no event to come, a list written late (Late), an update the cache *)
(* swallows (Drop), a fork under a handler at work, a copy that fails (Fork).    *)
MergedListIsWhole ==
  /\ SplitTypeOK
  /\ Quiet /\ active \notin lossy /\ waves[active] # <<>> =>
       IF Whole(active) /\ DOMAIN Wave(active) # {}
       THEN next[active].inputs = [k \in DOMAIN Wave(active) |-> heard[active][Wave(active)[k]]]
       ELSE next[active].inputs = None \/ Len(waves[active]) > 1

Said(t) == {events[i].value : i \in {j \in DOMAIN events : events[j].task = t}}

(* Whatever list the node behind the merge is given has the keys of the list     *)
(* that was split, and under each key a result of the item that is, or in an     *)
(* earlier list was, there.                                                      *)
EntriesKeepTheirKeys ==
  [][\A r \in Revision :
       next'[r].inputs # next[r].inputs /\ active' = active /\ r \notin lossy' =>
         /\ DOMAIN next'[r].inputs = DOMAIN Wave(r)
         /\ \A k \in DOMAIN Wave(r) :
              \E i \in DOMAIN waves[r] : next'[r].inputs[k] \in Said(waves[r][i].item[k])]_splitVars

(* A list that was split comes out of the merge. *)
ListComesOut ==
  \A r \in Revision :
    r = active /\ waves[r] # <<>> ~> next[r].inputs # None \/ r \in lossy \/ r # active
=============================================================================

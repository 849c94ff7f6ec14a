------------------------------- MODULE Channel -------------------------------
(***************************************************************************)
(* The event channel of the core library and the projectors it dispatches  *)
(* to (channel.ts, projector-runner.ts; the tasks are those of the proxy's *)
(* server.ts).  A submit is one transaction: the event row, every          *)
(* subscriber's projection inside a savepoint of its own, its offset, and  *)
(* an exception row for each one that threw.                               *)
(***************************************************************************)
EXTENDS Integers, SequencesExt

CONSTANTS
  Tasks, Topics,
  Subscribes,  \* task -> the topics of its input
  DependsOn,   \* task -> sequence of the tasks its input refers to
  MaxIds,      \* bound: event ids taken
  MaxCrashes   \* bound

ASSUME ChannelAssumption ==
  /\ IsFiniteSet(Tasks) /\ MaxIds \in Nat /\ MaxCrashes \in Nat
  /\ Subscribes \in [Tasks -> SUBSET Topics] /\ DependsOn \in [Tasks -> Seq(Tasks)]
(* A task's id is the hash of its input, so references make no cycle.       *)
ASSUME AcyclicAssumption ==
  \E rank \in [Tasks -> 1 .. Cardinality(Tasks)] :
    \A t \in Tasks : \A i \in DOMAIN DependsOn[t] : rank[DependsOn[t][i]] < rank[t]

VARIABLES
  registered,  \* this process's tasks, in the order of registration
  order,       \* the dispatch order built from them; empty: to be built
  log,         \* events: the rows committed, each with its subscribers
  done, half,  \* projections: per task, the events applied, or applied in part
  offset,      \* task_metadata: events_offset
  tx,          \* the submit in progress
  lastId,      \* TraceIdGenerator
  crashes

channelVars == <<registered, order, log, done, half, offset, tx, lastId, crashes>>
committed == <<log, done, half, offset>>

NoTx == [id |-> 0, topic |-> "none", todo |-> <<>>, raised |-> <<>>]
Deps(t) == ToSet(DependsOn[t])

ChannelInit ==
  /\ registered = <<>> /\ order = <<>>
  /\ log = {} /\ done = [t \in Tasks |-> {}] /\ half = done
  /\ offset = [t \in Tasks |-> 0]
  /\ tx = NoTx /\ lastId = 0 /\ crashes = 0

-----------------------------------------------------------------------------
(* projector-runner.ts *)

(* What comes of out when the elements of s are taken one after the other:   *)
(* F says what each of them makes of a list.  (FoldLeft takes an operator,   *)
(* which a theorem cannot be instantiated with; this takes a function.)      *)
Through(F, s, out) ==
  LET f[k \in 0 .. Len(s)] == IF k = 0 THEN out ELSE F[s[k]][f[k - 1]] IN f[Len(s)]

Lists == Seq(Tasks)

(* visit: what a task refers to comes before it.                            *)
Visit[t \in Tasks] == [out \in Lists |->
  IF Contains(out, t) THEN out ELSE Append(Through(Visit, DependsOn[t], out), t)]
AsRegistered(tasks) == tasks
TopoSort(tasks) == Through(Visit, tasks, <<>>)
SortThrows(tasks) == \E t \in ToSet(tasks) : ~(Deps(t) \subseteq ToSet(tasks))
Subscribed(topic) == [t \in Tasks |-> [out \in Lists |->
  IF topic \in Subscribes[t] THEN Append(out, t) ELSE out]]
DispatchOrder(topic, sorted) == Through(Subscribed(topic), sorted, <<>>)

-----------------------------------------------------------------------------
(* channel.ts *)

RegisterTask(t) ==
  /\ tx = NoTx /\ ~Contains(registered, t)
  /\ registered' = Append(registered, t)
  /\ order' = <<>>
  /\ UNCHANGED <<committed, tx, lastId, crashes>>

(* submit; it throws before the event is written if a reference is not      *)
(* registered.                                                              *)
Submit(topic) ==
  /\ tx = NoTx /\ lastId < MaxIds /\ ~SortThrows(registered)
  /\ LET sorted == IF order = <<>> THEN TopoSort(registered) ELSE order
     IN  /\ order' = sorted
         /\ tx' = [id |-> lastId + 1, topic |-> topic, raised |-> <<>>,
                   todo |-> DispatchOrder(topic, sorted),
                   log |-> {[id |-> lastId + 1, source |-> 0,
                             for |-> ToSet(DispatchOrder(topic, sorted))]},
                   done |-> done, half |-> half, offset |-> offset]
  /\ lastId' = lastId + 1
  /\ UNCHANGED <<registered, committed, crashes>>

Open == tx # NoTx
Turn == Head(tx.todo)

(* A projector writes several rows; it may stop after some of them.         *)
ApplyHalf ==
  /\ Open /\ tx.todo # <<>> /\ tx.id \notin tx.half[Turn]
  /\ tx' = [tx EXCEPT !.half[Turn] = @ \cup {tx.id}]
  /\ UNCHANGED <<registered, order, committed, lastId, crashes>>

Accept ==
  /\ Open /\ tx.todo # <<>> /\ tx.id \in tx.half[Turn]
  /\ tx' = [tx EXCEPT !.todo = Tail(@), !.offset[Turn] = tx.id,
                      !.half[Turn] = @ \ {tx.id}, !.done[Turn] = @ \cup {tx.id}]
  /\ UNCHANGED <<registered, order, committed, lastId, crashes>>

(* apply threw: ROLLBACK TO its savepoint, and go on.                       *)
ExceptionRow(t) == [id |-> lastId + 1, source |-> tx.id, for |-> {t}]
ThrewSilently(t) == [tx EXCEPT !.todo = Tail(@), !.half[t] = @ \ {tx.id}]
ThrewUnsaved(t) == [tx EXCEPT !.todo = Tail(@), !.raised = Append(@, ExceptionRow(t))]
Threw(t) == [tx EXCEPT !.todo = Tail(@), !.half[t] = @ \ {tx.id},
                       !.raised = Append(@, ExceptionRow(t))]
Throw ==
  /\ Open /\ tx.todo # <<>> /\ lastId < MaxIds
  /\ tx' = Threw(Turn)
  /\ lastId' = lastId + 1
  /\ UNCHANGED <<registered, order, committed, crashes>>

Commit ==
  /\ Open /\ tx.todo = <<>>
  /\ log' = log \cup tx.log \cup ToSet(tx.raised)
  /\ done' = tx.done /\ half' = tx.half /\ offset' = tx.offset
  /\ tx' = NoTx
  /\ UNCHANGED <<registered, order, lastId, crashes>>

(* The database fails: submit is rejected, its ids are used up.             *)
Reject ==
  /\ Open
  /\ tx' = NoTx
  /\ UNCHANGED <<registered, order, committed, lastId, crashes>>

(* The next process's generator starts above the ids of this one.           *)
Crash ==
  /\ crashes < MaxCrashes
  /\ tx' = NoTx /\ registered' = <<>> /\ order' = <<>>
  /\ crashes' = crashes + 1
  /\ UNCHANGED <<committed, lastId>>

ChannelNext ==
  \/ \E t \in Tasks : RegisterTask(t)
  \/ \E topic \in Topics : Submit(topic)
  \/ ApplyHalf \/ Accept \/ Throw \/ Commit \/ Reject \/ Crash
ChannelSpec == ChannelInit /\ [][ChannelNext]_channelVars

-----------------------------------------------------------------------------
ChannelTypeOK ==
  /\ ToSet(registered) \subseteq Tasks /\ IsInjective(registered)
  /\ order = <<>> \/ (IsInjective(order) /\ ToSet(order) = ToSet(registered))
  /\ \A e \in log : e.id \in 1 .. lastId /\ e.source \in 0 .. e.id - 1 /\ e.for \subseteq Tasks
  /\ done \in [Tasks -> SUBSET (1 .. lastId)] /\ half \in [Tasks -> SUBSET (1 .. lastId)]
  /\ offset \in [Tasks -> 0 .. lastId]
  /\ lastId \in 0 .. MaxIds /\ crashes \in 0 .. MaxCrashes

(* No outcome is lost (channel.ts: "Explicit Discarding"): for each event   *)
(* and each task it was dispatched to, either the projection has it, or a   *)
(* row of the same transaction says that it threw, never both; and the      *)
(* offset names the last event the projection has.                          *)
EveryOutcomeIsRecorded ==
  /\ ChannelTypeOK
  /\ \A e \in log : e.source = 0 => \A t \in e.for :
       (e.id \in done[t]) # (\E x \in log : x.source = e.id /\ t \in x.for)
  /\ \A t \in Tasks : \A i \in done[t] : i <= offset[t]
  /\ \A t \in Tasks : offset[t] \in done[t] \cup {0}

(* A projector sees an event only after every projector it refers to,       *)
(* directly or not, has had its turn, whatever the order of registration    *)
(* (server.ts: reordering registration "cannot silently break dispatch").   *)
RefersTo(t) ==
  {u \in Tasks \ {t} : \A S \in SUBSET Tasks :
     t \in S /\ (\A r \in S : Deps(r) \subseteq S) => u \in S}
DependenciesFirst ==
  Open => \A t \in Tasks : tx.id \in tx.done[t] \cup tx.half[t] =>
    ToSet(tx.todo) \cap RefersTo(t) = {}

(* What a projector wrote before it threw is never committed, nor left for  *)
(* the projectors after it to read.                                         *)
NoHalfProjection ==
  /\ \A t \in Tasks : half[t] = {}
  /\ Open => \A t \in Tasks : tx.half[t] # {} => tx.todo # <<>> /\ t = Turn
=============================================================================

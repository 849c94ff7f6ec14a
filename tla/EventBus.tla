------------------------------- MODULE EventBus -------------------------------
(***************************************************************************)
(* The event bus between the GraphQL server and the workflow engines: the  *)
(* server inserts rows into EventLog inside its transactions, every engine *)
(* polls for ids greater than the last one it processed and commits its    *)
(* progress to one row of ProjectionOffsets, which all engines share       *)
(* (graphql-server/src/event-bus, pipeline-runner/src/event-bus,           *)
(* workflow-engine.ts runEventBusLoop).                                    *)
(*                                                                         *)
(* An event id is a TraceID: the millisecond its generator was made, then  *)
(* the generator's random operation id.  The log is read in id order.      *)
(***************************************************************************)
EXTENDS Integers, FiniteSets

CONSTANTS
  Request,    \* mutations that emit an event
  Engine,     \* workflow engines, all under one projection id
  MaxOp,      \* random parts of an id: 1..MaxOp
  MaxClock,   \* bound: milliseconds
  BatchSize,  \* events per poll
  MaxFaults   \* bound: failed handlers and engine restarts

ASSUME BusAssumption ==
  /\ IsFiniteSet(Engine)
  /\ MaxOp \in Nat \ {0} /\ MaxClock \in Nat /\ BatchSize \in Nat \ {0} /\ MaxFaults \in Nat

(* Ids are compared as strings: first the millisecond, then the random part. *)
Stamp(at, op) == at * (MaxOp + 1) + op
EventId == {Stamp(at, op) : at \in 0..MaxClock, op \in 1..MaxOp}
NoId == 0         \* the offset '' of a new projection
Unread == -1      \* the subscription has not read its offset

VARIABLES
  clock,
  request,    \* per request, the id it took, NoId before; a bulk request inserts later
  log,        \* EventLog: ids of committed rows
  offset,     \* ProjectionOffsets.last_processed_event_id
  last,       \* per engine, lastProcessedEventId in memory
  batch,      \* per engine, polled events not committed
  handled,    \* per engine, the handler of the batch's first event is done
  deliveries, \* history: how often each event was handled
  late,       \* history: ids inserted below what an engine had polled or committed
  faults

vars == <<clock, request, log, offset, last, batch, handled, deliveries, late, faults>>

serverVars == <<clock, request, log, late>>
engineVars == <<offset, last, batch, handled, deliveries, faults>>

TypeOK ==
  /\ clock \in 0..MaxClock
  /\ request \in [Request -> EventId \cup {NoId}]
  /\ log \in SUBSET EventId
  /\ offset \in EventId \cup {NoId}
  /\ last \in [Engine -> EventId \cup {NoId, Unread}]
  /\ batch \in [Engine -> SUBSET EventId]
  /\ \A e \in Engine : Cardinality(batch[e]) <= BatchSize
  /\ handled \in [Engine -> BOOLEAN]
  /\ deliveries \in [EventId -> Nat]
  /\ late \in SUBSET EventId
  /\ faults \in 0..MaxFaults

Init ==
  /\ clock = 0
  /\ request = [r \in Request |-> NoId]
  /\ log = {}
  /\ offset = NoId
  /\ last = [e \in Engine |-> Unread]
  /\ batch = [e \in Engine |-> {}]
  /\ handled = [e \in Engine |-> FALSE]
  /\ deliveries = [i \in EventId |-> 0]
  /\ late = {}
  /\ faults = 0

-----------------------------------------------------------------------------
(* The server. *)

Tick == clock < MaxClock /\ clock' = clock + 1 /\ UNCHANGED <<request, log, late, engineVars>>

(* A new generator: the current millisecond, a random operation id. *)
Taken == {request[r] : r \in Request}
NewId(id) == \E op \in 1..MaxOp : id = Stamp(clock, op) /\ id \notin Taken

Behind(id) ==
  \/ id <= offset
  \/ \E e \in Engine : id <= last[e] \/ \E j \in batch[e] : id < j

Insert(id) ==
  /\ log' = log \cup {id}
  /\ late' = IF Behind(id) THEN late \cup {id} ELSE late

(* requestStaleNodesUpdate makes its generator, then stores two assets. *)
StartBulkUpdate(r) ==
  /\ request[r] = NoId
  /\ \E id \in EventId : NewId(id) /\ request' = [request EXCEPT ![r] = id]
  /\ UNCHANGED <<clock, log, late, engineVars>>

(* Its transaction takes the event's id from that generator. *)
CommitBulkUpdate(r) ==
  /\ request[r] \notin log \cup {NoId}
  /\ Insert(request[r])
  /\ UNCHANGED <<clock, request, engineVars>>

(* Every other event is stamped by produce inside the transaction. *)
Produce(r) ==
  /\ request[r] = NoId
  /\ \E id \in EventId : NewId(id) /\ request' = [request EXCEPT ![r] = id] /\ Insert(id)
  /\ UNCHANGED <<clock, engineVars>>

-----------------------------------------------------------------------------
(* An engine. *)

(* Mutant: the offset row is read on every poll. *)
FromRow(e) == offset

From(e) == IF last[e] = Unread THEN offset ELSE last[e]

New(e) == {i \in log : i > From(e)}

(* Mutant: one event too many. *)
PagePlusOne(e) == {i \in New(e) : Cardinality({j \in New(e) : j < i}) <= BatchSize}

Page(e) == {i \in New(e) : Cardinality({j \in New(e) : j < i}) < BatchSize}

Poll(e) ==
  /\ batch[e] = {}
  /\ last' = [last EXCEPT ![e] = From(e)]
  /\ batch' = [batch EXCEPT ![e] = Page(e)]
  /\ UNCHANGED <<serverVars, offset, handled, deliveries, faults>>

First(e, i) == i \in batch[e] /\ \A j \in batch[e] : i <= j

Handle(e) ==
  /\ ~handled[e]
  /\ \E i \in batch[e] : First(e, i) /\ deliveries' = [deliveries EXCEPT ![i] = @ + 1]
  /\ handled' = [handled EXCEPT ![e] = TRUE]
  /\ UNCHANGED <<serverVars, offset, last, batch, faults>>

CommitOffset(e) ==
  /\ handled[e]
  /\ \E i \in batch[e] :
       /\ First(e, i)
       /\ offset' = i
       /\ last' = [last EXCEPT ![e] = i]
       /\ batch' = [batch EXCEPT ![e] = @ \ {i}]
  /\ handled' = [handled EXCEPT ![e] = FALSE]
  /\ UNCHANGED <<serverVars, deliveries, faults>>

(* Mutant: the loop goes on with the rest of the batch. *)
HandlerFailsAlone(e) ==
  /\ faults < MaxFaults
  /\ batch[e] # {} /\ ~handled[e]
  /\ batch' = [batch EXCEPT ![e] = @ \ {i \in batch[e] : First(e, i)}]
  /\ faults' = faults + 1
  /\ UNCHANGED <<serverVars, offset, last, handled, deliveries>>

(* The handler or the commit throws: the rest of the batch is dropped and polled again. *)
HandlerFails(e) ==
  /\ faults < MaxFaults
  /\ batch[e] # {}
  /\ batch' = [batch EXCEPT ![e] = {}]
  /\ handled' = [handled EXCEPT ![e] = FALSE]
  /\ faults' = faults + 1
  /\ UNCHANGED <<serverVars, offset, last, deliveries>>

Restart(e) ==
  /\ faults < MaxFaults
  /\ last' = [last EXCEPT ![e] = Unread]
  /\ batch' = [batch EXCEPT ![e] = {}]
  /\ handled' = [handled EXCEPT ![e] = FALSE]
  /\ faults' = faults + 1
  /\ UNCHANGED <<serverVars, offset, deliveries>>

ServerNext ==
  Tick \/ \E r \in Request : StartBulkUpdate(r) \/ CommitBulkUpdate(r) \/ Produce(r)

EngineNext(e) ==
  Poll(e) \/ Handle(e) \/ CommitOffset(e) \/ HandlerFails(e) \/ Restart(e)

Next == ServerNext \/ \E e \in Engine : EngineNext(e)

(* An engine's loop never stops polling while it runs, and handlers return. *)
Fairness == \A e \in Engine : WF_vars(Poll(e)) /\ WF_vars(Handle(e)) /\ WF_vars(CommitOffset(e))

Spec == Init /\ [][Next]_vars /\ Fairness

-----------------------------------------------------------------------------
(* Properties. *)

(* An event the shared offset has passed was handled by some engine, unless it was    *)
(* inserted behind what an engine had already read: no failed handler, restart or     *)
(* slower engine that moves the offset back loses an event.                           *)
OffsetCoversHandled ==
  \A i \in log : i <= offset => deliveries[i] > 0 \/ i \in late

(* An event is handled once per engine; again only after a failed handler or restart, *)
(* although a slower engine keeps overwriting the offset with older ids.              *)
RedeliveryNeedsFault ==
  \A i \in log : deliveries[i] <= Cardinality(Engine) + faults

(* An event that is not inserted late is handled.                                     *)
EventIsHandled ==
  \A i \in EventId : (i \in log /\ i \notin late) ~> deliveries[i] > 0

(* "Poll for new events since last processed offset": no committed event is behind    *)
(* every place from which an engine will read without having been handled.            *)
NoEventIsSkipped ==
  \A i \in log : deliveries[i] = 0 => \E e \in Engine : i > From(e)
=============================================================================

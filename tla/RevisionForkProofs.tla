------------------------- MODULE RevisionForkProofs -------------------------
(***************************************************************************)
(* RevisionFork for every pipeline, every number of callers, revisions,     *)
(* events and faults: a running node of the active revision has work ahead, *)
(* a handler writes to the revision it took, and what a player submits      *)
(* reaches the nodes behind the player's node and stays there.              *)
(***************************************************************************)
EXTENDS RevisionFork, SequenceTheorems, TLAPS

Result == {"task_completed", "task_failed"}
Given == {"task_player_submitted", "task_player_failed"}

(* A node state as the handlers and the forks leave it.                      *)
Exists(t) == t \in Task /\ status[t] # "ABSENT"
GoodRow(x) == x # NoRow =>
  /\ x \in Row
  /\ x.task = Null \/ Exists(x.task)
  /\ x.inputs \in Value \cup {Null}
  /\ x.dep = "STALE" => (x.task = Null /\ x.run # "RUNNING") \/ x.task \in reused
  /\ x.run = "RUNNING" => x.task # Null
RowsInv == \A r \in Revision : \A n \in Node : GoodRow(rows[r][n])

(* A finished task has a version, and is not handed out with it.             *)
StatusInv == \A t \in Task :
  /\ status[t] \in {"SUCCEEDED", "FAILED"} => version[t] # Null
  /\ status[t] = "PENDING" => version[t] = Null \/ t \in reused
  /\ version[t] # Null => status[t] # "ABSENT"

LogInv == \A i \in 1..Len(log) :
  /\ log[i].topic \in Result \cup Given => Exists(log[i].task)
  /\ log[i].topic \in Given \cup {"stale_update_revision_created"} => log[i].rev \in 1..count
  /\ log[i].topic = "task_player_submitted" => log[i].value \in Value

(* The event of a failure comes after those of the successes before it.      *)
FailedInv == \A t \in Task : version[t] = Error =>
  \A i \in 1..Len(log) : log[i].task = t /\ log[i].topic = "task_completed" =>
    \E j \in (i + 1)..Len(log) : log[j].task = t /\ log[j].topic = "task_failed"

StoreInv ==
  /\ active = count
  /\ RowsInv /\ StatusInv /\ LogInv /\ FailedInv
  /\ \A m \in made : status[m[2]] # "ABSENT"

(* Where a handler stands.                                                   *)
ItsEvent == Event1.topic \in Result /\ Event1.task = h.task
StepInv ==
  /\ h.step = "idle" => h = Idle
  /\ h # Idle => handled < Len(log)
  /\ h.step = "list" => h.rev = 0 /\ ItsEvent
  /\ h.step \notin {"idle", "list"} => h.rev \in 1..count
  /\ h.step \in {"record", "freshen"} => h.made # Null
  /\ h.step \in {"list", "records", "revision", "freshen"} => h.todo = {}
  /\ h.step \in {"list", "revision", "freshen"} => h.own = {}
  /\ h.step = "list" => h.stale = {}
CarriesInv ==
  /\ h.task # Null => Exists(h.task)
  /\ h.made # Null => Exists(h.made)
  /\ h.step \in {"create", "record"} \/ h.todo # {} => h.value \in Value
  /\ h.step \in {"list", "records"} /\ ~h.failed => h.value \in Value
ReadInv ==
  /\ \A n \in Node : GoodRow(h.snap[n])
  /\ h.own # {} => ItsEvent /\ h.stale = {} /\ h.step # "idle"
  /\ \A n \in h.own : h.snap[n] # NoRow /\ h.snap[n].task = h.task /\ rows[h.rev][n] # NoRow
  /\ h.step # "revision" => \A n \in h.stale : h.snap[n] # NoRow /\ h.snap[n].dep = "STALE"
  /\ h.step = "freshen" => /\ h.node \in h.stale
                          /\ (h.snap[h.node].run # "RUNNING" \/ h.made \in reused)
HandlerInv == StepInv /\ CarriesInv /\ ReadInv

(* A running node's work; the event being handled counts until the node has  *)
(* been written back.                                                        *)
Later(t) == \E i \in (handled + 2)..Len(log) : log[i].task = t /\ log[i].topic \in Result
Current(n, t) ==
  /\ handled < Len(log) /\ Event1.task = t /\ Event1.topic \in Result
  /\ h.step \in {"idle", "list"} \/ (h.rev = active /\ n \in h.own)
HasWork(n) ==
  \/ Runnable(rows[active][n].task) \/ rows[active][n].task \in reused
  \/ active \in overtaken \cup skipped
  \/ Later(rows[active][n].task) \/ Current(n, rows[active][n].task)
RunningInv == \A n \in Node :
  rows[active][n] # NoRow /\ rows[active][n].run = "RUNNING" => HasWork(n)

IInv == TypeOK /\ StoreInv /\ HandlerInv /\ RunningInv

-----------------------------------------------------------------------------
(* Constants and rows. *)

LEMMA TaskFacts == \A t \in Task : t # Null /\ t # Keep /\ t[1] \in Node /\ t[2] \in Value
  BY DistinctAssumption DEF Task

LEMMA RowFacts == NoRow \notin Row
  BY NoRowAssumption

LEMMA ReadFacts ==
  /\ \A x \in Task \cup {Null} : AsRead(x) = x
  /\ \A x \in Value \cup {Null} : AsRead(x) = x
  /\ AsRead(Keep) = Null
  BY DistinctAssumption, TaskFacts DEF AsRead

(* A record of what is given for a node.                                     *)
Update == [dep : Dependency, run : Runtime, task : Task \cup {Null, Keep},
           inputs : Value \cup {Null, Keep}]

(* What an upsert leaves in a row.                                           *)
LEMMA UpsertFacts ==
  ASSUME NEW x \in Row \cup {NoRow}, NEW w \in Update
  PROVE  /\ Upsert(x, w) \in Row
         /\ Upsert(x, w).dep = w.dep /\ Upsert(x, w).run = w.run
         /\ w.task # Keep => Upsert(x, w).task = w.task
         /\ w.inputs # Keep => Upsert(x, w).inputs = w.inputs
         /\ x # NoRow /\ w.inputs = Keep => Upsert(x, w).inputs = x.inputs
  BY RowFacts DEF Upsert, Row, Update

(* A write whose fields make a good row.                                     *)
GoodWrite(x, w) ==
  /\ w \in Update
  /\ w.task = Null \/ Exists(w.task)
  /\ w.inputs \in Value \cup {Null} \/ (w.inputs = Keep /\ x # NoRow)
  /\ w.dep = "STALE" => (w.task = Null /\ w.run # "RUNNING") \/ w.task \in reused
  /\ w.run = "RUNNING" => w.task # Null

LEMMA GoodUpsert ==
  ASSUME NEW x \in Row \cup {NoRow}, GoodRow(x), NEW w, GoodWrite(x, w)
  PROVE  GoodRow(Upsert(x, w))
  <1>1. w.task # Keep
    BY TaskFacts, DistinctAssumption DEF GoodWrite, Exists
  <1> QED
    BY <1>1, UpsertFacts, DistinctAssumption DEF GoodWrite, GoodRow

(* A row stays good while no task goes away.                                 *)
LEMMA GoodStays ==
  ASSUME NEW x, GoodRow(x), \A t \in Task : Exists(t) => Exists(t)', reused \subseteq reused'
  PROVE  GoodRow(x)'
  BY DEF GoodRow, Exists

-----------------------------------------------------------------------------
(* The log. *)

LEMMA Appended ==
  ASSUME log \in Seq(Event), NEW e \in Event, log' = Append(log, e), handled \in 0..Len(log),
         handled' = handled
  PROVE  /\ log' \in Seq(Event) /\ Len(log') = Len(log) + 1
         /\ \A i \in 1..Len(log) : log'[i] = log[i]
         /\ log'[Len(log) + 1] = e
         /\ handled < Len(log) => Event1' = Event1
  BY DEF Event1

(* A new event takes nothing away.                                           *)
LEMMA LaterStays ==
  ASSUME log \in Seq(Event), NEW e \in Event, log' = Append(log, e), handled \in 0..Len(log),
         handled' = handled, NEW t, Later(t)
  PROVE  Later(t)'
  <1>1. PICK i \in (handled + 2)..Len(log) : log[i].task = t /\ log[i].topic \in Result
    BY DEF Later
  <1>2. i \in (handled' + 2)..Len(log') /\ log'[i] = log[i]
    BY Appended
  <1> QED
    BY <1>1, <1>2 DEF Later

-----------------------------------------------------------------------------
(* The handler's writes. *)

(* The rows after a write: a row that was not written as asked was swallowed. *)
LEMMA Written ==
  ASSUME TypeOK, NEW c \in Client, NEW r \in Revision, NEW ws, DOMAIN ws \subseteq Node, WriteNodes(c, r, ws)
  PROVE  /\ \A q \in Revision \ {r} : rows'[q] = rows[q]
         /\ \A n \in Node : rows'[r][n] = rows[r][n]
              \/ (n \in DOMAIN ws /\ rows'[r][n] = Upsert(rows[r][n], ws[n]))
         /\ \A n \in DOMAIN ws : rows'[r][n] = Upsert(rows[r][n], ws[n]) \/ r \in skipped'
         /\ skipped \subseteq skipped' /\ skipped' \in SUBSET Revision
         /\ rows' = [rows EXCEPT ![r] = [n \in Node |-> rows'[r][n]]]
  <1>1. rows \in [Revision -> [Node -> Row \cup {NoRow}]]
    BY DEF TypeOK, StoreTypeOK
  <1> DEFINE us == Uncached(c, r, ws)
  <1>2. rows' = [rows EXCEPT ![r] =
                   [n \in Node |-> IF n \in DOMAIN us THEN Upsert(rows[r][n], us[n]) ELSE rows[r][n]]]
    BY <1>1 DEF WriteNodes, UpdateNodeStates
  <1>3. DOMAIN us \subseteq DOMAIN ws /\ \A n \in DOMAIN us : us[n] = ws[n]
    BY DEF Uncached
  <1> HIDE DEF us
  <1>4. \A n \in Node : rows'[r][n] = IF n \in DOMAIN us THEN Upsert(rows[r][n], us[n]) ELSE rows[r][n]
    BY <1>1, <1>2
  <1>5. \A q \in Revision \ {r} : rows'[q] = rows[q]
    BY <1>1, <1>2
  <1>6. skipped' = IF \E n \in DOMAIN ws \ DOMAIN us : Upsert(rows[r][n], ws[n]) # rows[r][n]
                   THEN skipped \cup {r} ELSE skipped
    BY DEF WriteNodes, us
  <1>7. \A n \in DOMAIN ws : rows'[r][n] = Upsert(rows[r][n], ws[n]) \/ r \in skipped'
    BY <1>3, <1>4, <1>6
  <1>8. skipped \in SUBSET Revision
    BY DEF TypeOK
  <1>9. rows' = [rows EXCEPT ![r] = [n \in Node |-> rows'[r][n]]]
    BY <1>1, <1>2, <1>4
  <1> QED
    BY <1>3, <1>4, <1>5, <1>6, <1>7, <1>8, <1>9

LEMMA SentType ==
  ASSUME TypeOK, NEW c \in Client, NEW r \in Revision, NEW ws, DOMAIN ws \subseteq Node,
         \A n \in DOMAIN ws : ws[n] \in Update, WriteNodes(c, r, ws)
  PROVE  sent' \in SUBSET (Client \X Revision \X Write)
  <1>1. \A n \in DOMAIN ws : Key(c, r, n, ws[n]) \in Client \X Revision \X Write
    BY DEF Key, Write, Update, AsRead
  <1> QED
    BY <1>1 DEF WriteNodes, TypeOK

OnlyWrites == UNCHANGED <<parent, count, active, status, version, log, jobs, call, handled,
                          made, workflow, reused, overtaken, faults>>

(* A handler's write keeps the store in order, and no running node loses its *)
(* work: what is written as running has a task to be taken up, and whoever   *)
(* counted on the event being handled has been written, or still does.       *)
LEMMA Writing ==
  ASSUME TypeOK, StoreInv, RunningInv, h.rev \in Revision, h' \in Handler, NEW c \in Client,
         NEW ws, DOMAIN ws \subseteq Node, WriteNodes(c, h.rev, ws), OnlyWrites,
         \A n \in DOMAIN ws : GoodWrite(rows[h.rev][n], ws[n]),
         \A n \in DOMAIN ws : ws[n].run = "RUNNING" =>
           status[ws[n].task] = "PENDING" \/ ws[n].task \in reused,
         \A n \in Node, t \in Task :
           Current(n, t) => Current(n, t)' \/ (n \in DOMAIN ws /\ h.rev = active)
  PROVE  /\ TypeOK' /\ StoreInv' /\ RunningInv'
         /\ \A r \in Revision, n \in Node : rows[r][n] # NoRow => rows'[r][n] # NoRow
  <1> DEFINE r == h.rev
  <1>1. rows \in [Revision -> [Node -> Row \cup {NoRow}]]
    BY DEF TypeOK, StoreTypeOK
  <1>2. \A n \in DOMAIN ws : ws[n] \in Update
    BY DEF GoodWrite
  <1>3. /\ \A q \in Revision \ {r} : rows'[q] = rows[q]
        /\ \A n \in Node : rows'[r][n] = rows[r][n]
             \/ (n \in DOMAIN ws /\ rows'[r][n] = Upsert(rows[r][n], ws[n]))
        /\ \A n \in DOMAIN ws : rows'[r][n] = Upsert(rows[r][n], ws[n]) \/ r \in skipped'
        /\ skipped \subseteq skipped' /\ skipped' \in SUBSET Revision
        /\ rows' = [rows EXCEPT ![r] = [n \in Node |-> rows'[r][n]]]
    BY Written
  <1>4. \A n \in DOMAIN ws : Upsert(rows[r][n], ws[n]) \in Row
    BY <1>1, <1>2, UpsertFacts
  <1>5. \A n \in Node : rows'[r][n] \in Row \cup {NoRow}
    BY <1>1, <1>3, <1>4
  <1>6. rows' \in [Revision -> [Node -> Row \cup {NoRow}]]
    BY <1>1, <1>3, <1>5
  <1>7. TypeOK'
    BY <1>2, <1>3, <1>6, SentType DEF TypeOK, StoreTypeOK, OnlyWrites
  <1>8. \A t \in Task : Exists(t)' = Exists(t)
    BY DEF Exists, OnlyWrites
  <1>9. \A q \in Revision, n \in Node : GoodRow(rows[q][n])'
    <2> SUFFICES ASSUME NEW q \in Revision, NEW n \in Node
                 PROVE  GoodRow(rows[q][n])'
      OBVIOUS
    <2>1. GoodRow(rows[q][n])
      BY DEF StoreInv, RowsInv
    <2>2. GoodRow(rows'[q][n])
      <3>1. CASE q = r /\ n \in DOMAIN ws /\ rows'[q][n] = Upsert(rows[r][n], ws[n])
        BY <3>1, <1>1, <2>1, GoodUpsert DEF GoodWrite
      <3>2. CASE rows'[q][n] = rows[q][n]
        BY <3>2, <2>1
      <3> QED
        BY <3>1, <3>2, <1>3
    <2> QED
      BY <2>2, <1>8 DEF GoodRow, Exists, OnlyWrites
  <1>10. StoreInv'
    BY <1>9 DEF StoreInv, RowsInv, StatusInv, LogInv, FailedInv, Exists, OnlyWrites
  <1>11. \A t : Later(t) => Later(t)'
    BY DEF Later, OnlyWrites
  <1>12. RunningInv'
    <2> SUFFICES ASSUME NEW n \in Node, rows'[active][n] # NoRow, rows'[active][n].run = "RUNNING"
                 PROVE  HasWork(n)'
      BY DEF RunningInv, OnlyWrites
    <2>1. active \in Revision
      BY BoundAssumption DEF TypeOK, StoreTypeOK, Revision
    <2>2. CASE r = active /\ n \in DOMAIN ws
      <3>1. CASE r \in skipped'
        BY <3>1, <2>2 DEF HasWork, OnlyWrites
      <3>2. CASE rows'[r][n] = Upsert(rows[r][n], ws[n])
        <4> DEFINE x == rows[r][n]
        <4>0. x \in Row \cup {NoRow} /\ ws[n] \in Update
          BY <2>2, <1>1, <1>2
        <4> HIDE DEF x
        <4>5. Upsert(x, ws[n]).run = ws[n].run
              /\ (ws[n].task # Keep => Upsert(x, ws[n]).task = ws[n].task)
          BY <4>0, UpsertFacts
        <4>1. ws[n].run = "RUNNING" /\ Exists(ws[n].task)
          BY <3>2, <2>2, <4>5 DEF GoodWrite, x
        <4>2. rows'[r][n].task = ws[n].task
          BY <3>2, <4>1, <4>5, TaskFacts DEF Exists, x
        <4>3. /\ ws[n].task \in Task
              /\ status[ws[n].task] = "PENDING" \/ ws[n].task \in reused
          BY <4>1, <2>2 DEF Exists
        <4>4. version[ws[n].task] = Null \/ ws[n].task \in reused
          BY <4>3 DEF StoreInv, StatusInv
        <4> QED
          BY <4>2, <4>3, <4>4, <2>2 DEF HasWork, Runnable, OnlyWrites
      <3> QED
        BY <3>1, <3>2, <2>2, <1>3
    <2>3. CASE ~(r = active /\ n \in DOMAIN ws)
      <3>1. rows'[active][n] = rows[active][n]
        BY <2>3, <2>1, <1>3
      <3>2. HasWork(n)
        BY <3>1 DEF RunningInv
      <3>3. rows[active][n].task \in Task
        BY <3>1, <2>1 DEF StoreInv, RowsInv, GoodRow, Exists
      <3>4. Current(n, rows[active][n].task) => Current(n, rows[active][n].task)'
        <4>1. \A t \in Task : Current(n, t) => Current(n, t)'
          BY <2>3
        <4> QED
          BY <4>1, <3>1, <3>3 DEF Current, OnlyWrites
      <3> QED
        BY <3>1, <3>2, <3>4, <1>3, <1>11 DEF HasWork, Runnable, OnlyWrites
    <2> QED
      BY <2>2, <2>3
  <1>13. \A q \in Revision, n \in Node : rows[q][n] # NoRow => rows'[q][n] # NoRow
    BY <1>3, <1>4, RowFacts
  <1> QED
    BY <1>7, <1>10, <1>12, <1>13
-----------------------------------------------------------------------------
(* The handler's steps that write no node state. *)

StoreStays == UNCHANGED <<storeVars, skipped, reused, overtaken>> /\ made' \subseteq made

LEMMA StoreKept ==
  ASSUME StoreInv, StoreStays
  PROVE  StoreInv'
  BY DEF StoreInv, StoreStays, storeVars, RowsInv, GoodRow, Exists, StatusInv, LogInv, FailedInv

(* A running node keeps its work while the event it may count on counts.     *)
LEMMA Moving ==
  ASSUME StoreInv, RunningInv, TypeOK, StoreStays, handled' = handled,
         \A n \in Node, t \in Task :
           rows[active][n] # NoRow /\ rows[active][n].task = t /\ Current(n, t) => Current(n, t)'
  PROVE  StoreInv' /\ RunningInv'
  <1>1. active \in Revision
    BY BoundAssumption DEF TypeOK, StoreTypeOK, Revision
  <1>2. rows' = rows /\ active' = active
    BY DEF StoreStays, storeVars
  <1>3. RunningInv'
    <2> SUFFICES ASSUME NEW n \in Node, rows[active][n] # NoRow, rows[active][n].run = "RUNNING"
                 PROVE  HasWork(n)'
      BY <1>2 DEF RunningInv
    <2>1. HasWork(n)
      BY DEF RunningInv
    <2>2. rows[active][n].task \in Task
      BY <1>1 DEF StoreInv, RowsInv, GoodRow, Exists
    <2>3. Current(n, rows[active][n].task) => Current(n, rows[active][n].task)'
      <3>1. \A t \in Task : rows[active][n].task = t /\ Current(n, t) => Current(n, t)'
        OBVIOUS
      <3> QED
        BY <3>1, <2>2, <1>2 DEF Current
    <2>4. Later(rows[active][n].task) => Later(rows[active][n].task)'
      BY <1>2 DEF Later, StoreStays, storeVars
    <2> QED
      BY <1>2, <2>1, <2>3, <2>4 DEF HasWork, Runnable, StoreStays, storeVars
  <1> QED
    BY <1>3, StoreKept

(* An event is done with once no running node counts on it.                  *)
LEMMA Committing ==
  ASSUME TypeOK, StoreInv, RunningInv, handled < Len(log), Done, OnlyHandler,
         \A n \in Node, t \in Task :
           /\ rows[active][n] # NoRow /\ rows[active][n].run = "RUNNING"
           /\ rows[active][n].task = t /\ Current(n, t)
           => Runnable(t) \/ t \in reused \/ Later(t)
  PROVE  TypeOK' /\ StoreInv' /\ HandlerInv' /\ RunningInv'
  <1>1. /\ Idle \in Handler /\ Idle.step = "idle" /\ Idle.todo = {} /\ Idle.own = {}
        /\ Idle.stale = {} /\ Idle.task = Null /\ Idle.made = Null
        /\ \A n \in Node : Idle.snap[n] = NoRow
    BY PipelineAssumption DEF Idle, Handler, Step
  <1>2. h' = Idle /\ handled' = handled + 1 /\ rows' = rows /\ active' = active /\ log' = log
    BY DEF Done, OnlyHandler, storeVars
  <1>3. TypeOK'
    BY <1>1, <1>2 DEF TypeOK, StoreTypeOK, OnlyHandler, storeVars
  <1>4. StoreInv'
    BY StoreKept DEF OnlyHandler, StoreStays
  <1>5. HandlerInv'
    BY <1>1, <1>2 DEF HandlerInv, StepInv, CarriesInv, ReadInv, GoodRow
  <1>6. RunningInv'
    <2> SUFFICES ASSUME NEW n \in Node, rows[active][n] # NoRow, rows[active][n].run = "RUNNING"
                 PROVE  HasWork(n)'
      BY <1>2 DEF RunningInv
    <2>1. HasWork(n)
      BY DEF RunningInv
    <2>2. active \in Revision
      BY BoundAssumption DEF TypeOK, StoreTypeOK, Revision
    <2>3. rows[active][n].task \in Task
      BY <2>2 DEF StoreInv, RowsInv, GoodRow, Exists
    <2>4. \/ Runnable(rows[active][n].task) \/ rows[active][n].task \in reused
          \/ active \in overtaken \cup skipped \/ Later(rows[active][n].task)
      BY <2>1, <2>3 DEF HasWork
    <2>5. ASSUME Later(rows[active][n].task)
          PROVE  Later(rows[active][n].task)' \/ Current(n, rows[active][n].task)'
      <3>1. PICK i \in (handled + 2)..Len(log) :
                   log[i].task = rows[active][n].task /\ log[i].topic \in Result
        BY <2>5 DEF Later
      <3>2. handled \in Nat /\ Len(log) \in Nat
        BY DEF TypeOK, StoreTypeOK
      <3>3. CASE i = handled + 2
        BY <3>1, <3>2, <3>3, <1>1, <1>2 DEF Current, Event1
      <3>4. CASE i # handled + 2
        BY <3>1, <3>2, <3>4, <1>2 DEF Later
      <3> QED
        BY <3>3, <3>4
    <2> QED
      BY <1>2, <2>4, <2>5 DEF HasWork, Runnable, OnlyHandler, storeVars
  <1> QED
    BY <1>3, <1>4, <1>5, <1>6

(* createTask: the task is there afterwards, to be taken up or used again.   *)
LEMMA Creating ==
  ASSUME TypeOK, StoreInv, RunningInv, NEW t \in Task, NEW c \in Client,
         CreateTask(c, t), h' \in Handler,
         \A n \in Node, u \in Task :
           rows[active][n] # NoRow /\ rows[active][n].task = u /\ Current(n, u) => Current(n, u)'
  PROVE  /\ TypeOK' /\ StoreInv' /\ RunningInv'
         /\ Exists(t)' /\ (\A u \in Task : Exists(u) => Exists(u)') /\ reused \subseteq reused'
  <1>1. active \in Revision
    BY BoundAssumption DEF TypeOK, StoreTypeOK, Revision
  <1>2. UNCHANGED <<parent, count, active, rows, version, log, jobs, call, handled, sent,
                    workflow, skipped, overtaken, faults>>
    BY DEF CreateTask
  <1>3. /\ status' \in [Task -> {"ABSENT", "PENDING", "SUCCEEDED", "FAILED"}]
        /\ \A u \in Task : status'[u] = status[u] \/ (u = t /\ status'[u] = "PENDING")
        /\ made' \in SUBSET (Client \X Task) /\ reused' \in SUBSET Task /\ reused \subseteq reused'
        /\ made' \subseteq made \cup {<<c, t>>} /\ status'[t] # "ABSENT"
        /\ status'[t] # status[t] => version[t] = Null \/ t \in reused'
    BY DEF CreateTask, CreateAndSchedule, TypeOK, StoreTypeOK, StoreInv
  <1>4. TypeOK'
    BY <1>2, <1>3 DEF TypeOK, StoreTypeOK
  <1>5. Exists(t)' /\ \A u \in Task : Exists(u) => Exists(u)'
    BY <1>3 DEF Exists
  <1>6. RowsInv'
    BY <1>2, <1>3, <1>5 DEF StoreInv, RowsInv, GoodRow, Exists
  <1>7. StatusInv'
    BY <1>2, <1>3 DEF StoreInv, StatusInv
  <1>8. LogInv' /\ FailedInv'
    BY <1>2, <1>5 DEF StoreInv, LogInv, FailedInv, Exists
  <1>9. StoreInv'
    BY <1>2, <1>3, <1>6, <1>7, <1>8 DEF StoreInv
  <1>10. RunningInv'
    <2> SUFFICES ASSUME NEW n \in Node, rows[active][n] # NoRow, rows[active][n].run = "RUNNING"
                 PROVE  HasWork(n)'
      BY <1>2 DEF RunningInv
    <2>1. HasWork(n)
      BY DEF RunningInv
    <2>2. rows[active][n].task \in Task
      BY <1>1 DEF StoreInv, RowsInv, GoodRow, Exists
    <2>3. Current(n, rows[active][n].task) => Current(n, rows[active][n].task)'
      <3>1. \A u \in Task : rows[active][n].task = u /\ Current(n, u) => Current(n, u)'
        OBVIOUS
      <3> QED
        BY <3>1, <2>2, <1>2 DEF Current
    <2>4. Later(rows[active][n].task) => Later(rows[active][n].task)'
      BY <1>2 DEF Later
    <2>5. Runnable(rows[active][n].task) => Runnable(rows[active][n].task)'
      BY <1>2, <1>3, <2>2 DEF Runnable
    <2> QED
      BY <1>2, <1>3, <2>1, <2>3, <2>4, <2>5 DEF HasWork
  <1> QED
    BY <1>3, <1>4, <1>5, <1>9, <1>10
-----------------------------------------------------------------------------
(* The steps of the engine. *)

LEMMA IdleFacts ==
  /\ Idle \in Handler /\ Idle.step = "idle" /\ Idle.rev = 0 /\ Idle.task = Null
  /\ Idle.value = Null /\ Idle.failed = FALSE /\ Idle.player = FALSE
  /\ Idle.todo = {} /\ Idle.own = {} /\ Idle.stale = {} /\ Idle.made = Null
  /\ \A n \in Node : Idle.snap[n] = NoRow
  BY PipelineAssumption DEF Idle, Handler, Step

(* The event a free engine looks at.                                         *)
LEMMA EventFacts ==
  ASSUME TypeOK, StoreInv, handled < Len(log)
  PROVE  /\ Event1 \in Event /\ handled + 1 \in 1..Len(log)
         /\ Event1.topic \in Result \cup Given => Exists(Event1.task)
         /\ Event1.topic \in Given \cup {"stale_update_revision_created"} => Event1.rev \in 1..count
         /\ Event1.topic = "task_player_submitted" => Event1.value \in Value
  <1>1. handled + 1 \in 1..Len(log) /\ log \in Seq(Event)
    BY DEF TypeOK, StoreTypeOK
  <1> QED
    BY <1>1 DEF StoreInv, LogInv, Event1

LEMMA TakeUp ==
  ASSUME IInv, TakeCompleted \/ TakeFailed \/ TakePlayer \/ TakeStale
  PROVE  IInv'
  <1>1. Free /\ handled' = handled /\ OnlyHandler
    BY DEF TakeCompleted, TakeFailed, TakePlayer, TakeStale
  <1>2. /\ h = Idle /\ handled < Len(log) /\ TypeOK /\ StoreInv /\ RunningInv
        /\ log' = log /\ rows' = rows /\ count' = count /\ status' = status /\ Event1' = Event1
    BY <1>1 DEF Free, IInv, OnlyHandler, storeVars, Event1
  <1> DEFINE e == Event1
  <1>3. /\ e \in Event
        /\ e.topic \in Result \cup Given => Exists(e.task)
        /\ e.topic \in Given \cup {"stale_update_revision_created"} => e.rev \in 1..count
        /\ e.topic = "task_player_submitted" => e.value \in Value
    BY <1>2, EventFacts
  <1>4. count \in Revision /\ version \in [Task -> Value \cup {Null, Error}]
    BY <1>2 DEF TypeOK, StoreTypeOK
  <1>5. h' \in Handler /\ HandlerInv'
    <2>1. CASE TakeCompleted
      <3>1. /\ h' = [Idle EXCEPT !.step = "list", !.task = e.task, !.value = version[e.task]]
            /\ e.topic = "task_completed" /\ version[e.task] \in Value
        BY <2>1 DEF TakeCompleted
      <3> HIDE DEF e
      <3>2. /\ h' \in Handler /\ h'.step = "list" /\ h'.rev = 0 /\ h'.task = e.task
            /\ h'.value \in Value /\ h'.todo = {} /\ h'.own = {} /\ h'.stale = {}
            /\ h'.made = Null /\ h'.snap = Idle.snap
        BY <3>1, <1>3, IdleFacts DEF Handler, Step, Event, Result, Exists
      <3>3. StepInv'
        BY <3>1, <3>2, <1>1, <1>2, <1>3 DEF StepInv, ItsEvent, Result, Exists, e
      <3>4. CarriesInv'
        BY <3>1, <3>2, <1>2, <1>3 DEF CarriesInv, ItsEvent, Result, Exists, e
      <3>5. ReadInv'
        BY <3>1, <3>2, <1>2, <1>3, IdleFacts DEF ReadInv, GoodRow, ItsEvent, Result, Exists, e
      <3> QED
        BY <3>2, <3>3, <3>4, <3>5 DEF HandlerInv
    <2>2. CASE TakeFailed
      <3>1. /\ h' = [Idle EXCEPT !.step = "list", !.task = e.task, !.failed = TRUE]
            /\ e.topic = "task_failed"
        BY <2>2 DEF TakeFailed
      <3> HIDE DEF e
      <3>2. /\ h' \in Handler /\ h'.step = "list" /\ h'.rev = 0 /\ h'.task = e.task
            /\ h'.failed /\ h'.todo = {} /\ h'.own = {} /\ h'.stale = {}
            /\ h'.made = Null /\ h'.snap = Idle.snap
        BY <3>1, <1>3, IdleFacts DEF Handler, Step, Event, Result, Exists
      <3>3. StepInv'
        BY <3>1, <3>2, <1>1, <1>2, <1>3 DEF StepInv, ItsEvent, Result, Exists, e
      <3>4. CarriesInv'
        BY <3>1, <3>2, <1>2, <1>3 DEF CarriesInv, ItsEvent, Result, Exists, e
      <3>5. ReadInv'
        BY <3>1, <3>2, <1>2, <1>3, IdleFacts DEF ReadInv, GoodRow, ItsEvent, Result, Exists, e
      <3> QED
        BY <3>2, <3>3, <3>4, <3>5 DEF HandlerInv
    <2>3. CASE TakePlayer
      <3>1. /\ h' = [Idle EXCEPT !.step = "records", !.rev = e.rev, !.task = e.task,
                                 !.value = e.value, !.player = TRUE,
                                 !.failed = e.topic = "task_player_failed"]
            /\ e.topic \in Given
        BY <2>3 DEF TakePlayer, Given
      <3> HIDE DEF e
      <3>2. /\ h' \in Handler /\ h'.step = "records" /\ h'.rev = e.rev /\ h'.task = e.task
            /\ h'.value = e.value /\ h'.failed = (e.topic = "task_player_failed")
            /\ h'.todo = {} /\ h'.own = {} /\ h'.stale = {}
            /\ h'.made = Null /\ h'.snap = Idle.snap
        BY <3>1, <1>3, <1>4, IdleFacts DEF Handler, Step, Event, Given, Exists
      <3>3. StepInv'
        BY <3>1, <3>2, <1>1, <1>2, <1>3, <1>4 DEF StepInv, ItsEvent, Given, Exists, e
      <3>4. CarriesInv'
        BY <3>1, <3>2, <1>2, <1>3, <1>4 DEF CarriesInv, ItsEvent, Given, Exists, e
      <3>5. ReadInv'
        BY <3>1, <3>2, <1>2, <1>3, <1>4, IdleFacts DEF ReadInv, GoodRow, ItsEvent, Given, Exists, e
      <3> QED
        BY <3>2, <3>3, <3>4, <3>5 DEF HandlerInv
    <2>4. CASE TakeStale
      <3>1. /\ h' = [Idle EXCEPT !.step = "revision", !.rev = e.rev, !.stale = e.targets]
            /\ e.topic = "stale_update_revision_created"
        BY <2>4 DEF TakeStale
      <3> HIDE DEF e
      <3>2. /\ h' \in Handler /\ h'.step = "revision" /\ h'.rev = e.rev /\ h'.task = Null
            /\ h'.todo = {} /\ h'.own = {} /\ h'.made = Null /\ h'.snap = Idle.snap
        BY <3>1, <1>3, <1>4, IdleFacts DEF Handler, Step, Event
      <3>3. StepInv'
        BY <3>1, <3>2, <1>1, <1>2, <1>3, <1>4 DEF StepInv, e
      <3>4. CarriesInv'
        BY <3>1, <3>2, <1>2, <1>3, <1>4 DEF CarriesInv, e
      <3>5. ReadInv'
        BY <3>1, <3>2, <1>2, <1>3, <1>4, IdleFacts DEF ReadInv, GoodRow, e
      <3> QED
        BY <3>2, <3>3, <3>4, <3>5 DEF HandlerInv
    <2> QED
      BY <2>1, <2>2, <2>3, <2>4
  <1>6. TypeOK'
    BY <1>1, <1>2, <1>5 DEF TypeOK, StoreTypeOK, OnlyHandler, storeVars
  <1>7. \A n \in Node, t \in Task : Current(n, t) => Current(n, t)'
    <2>1. e.topic \in Result => h'.step = "list"
      BY IdleFacts DEF TakeCompleted, TakeFailed, TakePlayer, TakeStale, Result, Handler
    <2> QED
      BY <2>1, <1>1, <1>2 DEF Current
  <1>8. StoreStays
    BY <1>1 DEF StoreStays, OnlyHandler
  <1> QED
    BY <1>1, <1>2, <1>5, <1>6, <1>7, <1>8, Moving DEF IInv

LEMMA NodesFacts ==
  ASSUME TypeOK, StoreInv, NEW r \in Revision, NEW t \in Task, NEW n \in NodesOfTask(r, t)
  PROVE  n \in Node /\ rows[r][n] # NoRow /\ rows[r][n].task = t
  BY DEF NodesOfTask

(* The rows the handler has read become its own; none of them is passed by.  *)
LEMMA Listing ==
  ASSUME IInv, ListActive
  PROVE  IInv'
  <1>1. /\ h.step = "list" /\ handled' = handled /\ OnlyHandler
        /\ h' = [h EXCEPT !.step = "records", !.rev = active, !.snap = rows[active],
                          !.own = NodesOfTask(active, h.task)]
    BY DEF ListActive
  <1>2. /\ TypeOK /\ StoreInv /\ RunningInv /\ HandlerInv /\ h \in Handler
        /\ log' = log /\ rows' = rows /\ count' = count /\ status' = status /\ active' = active
        /\ Event1' = Event1
    BY <1>1 DEF IInv, TypeOK, OnlyHandler, storeVars, Event1
  <1>3. active \in Revision /\ rows[active] \in [Node -> Row \cup {NoRow}] /\ active \in 1..count
    BY <1>2, BoundAssumption DEF TypeOK, StoreTypeOK, Revision
  <1>4. handled < Len(log) /\ h.rev = 0 /\ h.todo = {} /\ h.stale = {} /\ ItsEvent /\ h.task \in Task
    <2>1. h # Idle
      BY <1>1, IdleFacts
    <2>2. handled < Len(log) /\ h.rev = 0 /\ h.todo = {} /\ h.stale = {} /\ ItsEvent
      BY <2>1, <1>1, <1>2 DEF HandlerInv, StepInv
    <2>3. Exists(Event1.task)
      BY <2>2, <1>2, EventFacts DEF ItsEvent
    <2> QED
      BY <2>2, <2>3 DEF ItsEvent, Exists
  <1> DEFINE own == NodesOfTask(active, h.task)
  <1>5. own \subseteq Node /\ \A n \in own : rows[active][n] # NoRow /\ rows[active][n].task = h.task
    BY DEF NodesOfTask
  <1>6. \A n \in Node : rows[active][n] # NoRow /\ rows[active][n].task = h.task => n \in own
    BY DEF NodesOfTask
  <1> HIDE DEF own
  <1>7. /\ h' \in Handler /\ h'.step = "records" /\ h'.rev = active /\ h'.snap = rows[active]
        /\ h'.own = own /\ h'.todo = h.todo /\ h'.stale = h.stale /\ h'.task = h.task
        /\ h'.value = h.value /\ h'.failed = h.failed /\ h'.made = h.made /\ h'.node = h.node
    BY <1>1, <1>2, <1>3, <1>5 DEF Handler, Step, own
  <1>8. \A n \in Node : GoodRow(rows[active][n])
    BY <1>2, <1>3 DEF StoreInv, RowsInv
  <1>9. HandlerInv'
    <2>1. StepInv'
      BY <1>1, <1>2, <1>3, <1>4, <1>7 DEF StepInv
    <2>2. CarriesInv'
      BY <1>1, <1>2, <1>4, <1>7 DEF HandlerInv, CarriesInv, Exists
    <2>3. ReadInv'
      BY <1>1, <1>2, <1>4, <1>5, <1>7, <1>8 DEF HandlerInv, ReadInv, ItsEvent, GoodRow, Exists, OnlyHandler
    <2> QED
      BY <2>1, <2>2, <2>3 DEF HandlerInv
  <1>10. \A n \in Node, t \in Task :
           rows[active][n] # NoRow /\ rows[active][n].task = t /\ Current(n, t) => Current(n, t)'
    BY <1>1, <1>2, <1>4, <1>6, <1>7 DEF Current, ItsEvent
  <1>11. TypeOK'
    BY <1>1, <1>2, <1>7 DEF TypeOK, StoreTypeOK, OnlyHandler, storeVars
  <1> QED
    BY <1>1, <1>2, <1>9, <1>10, <1>11, Moving DEF IInv, StoreStays, OnlyHandler

(* The steps between the writes: the nodes to feed come from the records, and *)
(* are fed, passed by or taken up one after the other.                       *)
LEMMA Feeds ==
  ASSUME IInv, ListRecords \/ AbortWorkflow \/ Deliver \/ \E n \in Node : StartTask(n) \/ SkipNode(n)
  PROVE  IInv'
  <1>1. /\ UNCHANGED <<storeVars, call, handled, made, sent, skipped, reused, overtaken, faults>>
        /\ workflow' \in {workflow, "SUCCEEDED", "FAILED"}
    BY DEF ListRecords, AbortWorkflow, Deliver, StartTask, SkipNode, OnlyHandler, ReportOutcome
  <1>2. /\ TypeOK /\ StoreInv /\ RunningInv /\ StepInv /\ CarriesInv /\ ReadInv /\ h \in Handler
        /\ log' = log /\ rows' = rows /\ count' = count /\ status' = status /\ active' = active
        /\ Event1' = Event1
    BY <1>1 DEF IInv, HandlerInv, TypeOK, storeVars, Event1
  <1>3. /\ h' \in Handler /\ h'.step \in {"feed", "create"}
        /\ h'.rev = h.rev /\ h'.snap = h.snap /\ h'.own = h.own /\ h'.stale = h.stale
        /\ h'.task = h.task /\ h'.value = h.value /\ h'.failed = h.failed /\ h'.made = h.made
        /\ h.step \in {"records", "feed"}
        /\ h'.step = "create" \/ h'.todo # {} => h'.value \in Value
    <2>1. CASE ListRecords
      <3> DEFINE todo == UNION {Succ[n] : n \in NodesOfTask(h.rev, h.task)}
      <3>1. todo \subseteq Node \cup {Output}
        BY PipelineAssumption DEF NodesOfTask
      <3>2. h.step = "records" /\ h' = [h EXCEPT !.step = "feed", !.todo = todo] /\ ~h.failed
        BY <2>1 DEF ListRecords
      <3> HIDE DEF todo
      <3> QED
        BY <3>1, <3>2, <1>2 DEF Handler, Step, CarriesInv
    <2>2. CASE AbortWorkflow
      BY <2>2, <1>2 DEF AbortWorkflow, Handler, Step, CarriesInv, StepInv
    <2>3. CASE Deliver
      BY <2>3, <1>2 DEF Deliver, Feeding, Fed, Handler, Step, CarriesInv
    <2>4. CASE \E n \in Node : StartTask(n)
      <3>1. PICK n \in Node : StartTask(n)
        BY <2>4
      <3> QED
        BY <3>1, <1>2 DEF StartTask, Feeding, Handler, Step, CarriesInv
    <2>5. CASE \E n \in Node : SkipNode(n)
      <3>1. PICK n \in Node : SkipNode(n)
        BY <2>5
      <3> QED
        BY <3>1, <1>2 DEF SkipNode, Feeding, Fed, Handler, Step, CarriesInv
    <2> QED
      BY <2>1, <2>2, <2>3, <2>4, <2>5
  <1>4. HandlerInv'
    <2>1. handled < Len(log) /\ h.rev \in 1..count
      BY <1>2, <1>3, IdleFacts DEF StepInv
    <2>2. StepInv'
      BY <2>1, <1>1, <1>2, <1>3 DEF StepInv
    <2>3. CarriesInv'
      BY <1>2, <1>3 DEF CarriesInv, Exists
    <2>4. ReadInv'
      BY <1>1, <1>2, <1>3 DEF ReadInv, ItsEvent, GoodRow, Exists
    <2> QED
      BY <2>2, <2>3, <2>4 DEF HandlerInv
  <1>5. \A n \in Node, t \in Task : Current(n, t) => Current(n, t)'
    BY <1>1, <1>2, <1>3 DEF Current
  <1>6. TypeOK'
    BY <1>1, <1>2, <1>3 DEF TypeOK, StoreTypeOK, storeVars
  <1> QED
    BY <1>1, <1>2, <1>4, <1>5, <1>6, Moving DEF IInv, StoreStays

LEMMA Failing ==
  ASSUME IInv, HandlerFails \/ Restart
  PROVE  IInv'
  <1>1. /\ h' = Idle /\ UNCHANGED <<storeVars, call, handled, workflow, skipped, reused, overtaken>>
        /\ made' \subseteq made /\ sent' \subseteq sent /\ faults' = faults + 1 /\ faults < MaxFault
    BY DEF HandlerFails, Restart
  <1>2. /\ TypeOK /\ StoreInv /\ RunningInv
        /\ log' = log /\ rows' = rows /\ active' = active /\ Event1' = Event1
    BY <1>1 DEF IInv, storeVars, Event1
  <1>3. HandlerInv'
    BY <1>1, IdleFacts DEF HandlerInv, StepInv, CarriesInv, ReadInv, GoodRow
  <1>4. \A n \in Node, t \in Task : Current(n, t) => Current(n, t)'
    BY <1>1, <1>2, IdleFacts DEF Current
  <1>5. TypeOK'
    BY <1>1, <1>2, IdleFacts, PipelineAssumption DEF TypeOK, StoreTypeOK, storeVars
  <1> QED
    BY <1>1, <1>2, <1>3, <1>4, <1>5, Moving DEF IInv, StoreStays

(* A node that is still running when its event is done with waits for a later *)
(* one: the handler found no node to write, or the task has been refreshed    *)
(* or has failed since.                                                      *)
LEMMA GivingUp ==
  ASSUME IInv, PassOver \/ NobodyUses \/ CommitOffset
  PROVE  IInv'
  <1>1. Done /\ OnlyHandler
    BY DEF PassOver, NobodyUses, CommitOffset
  <1>2. TypeOK /\ StoreInv /\ RunningInv /\ HandlerInv
    BY DEF IInv
  <1>3. handled < Len(log)
    BY <1>2, IdleFacts DEF PassOver, NobodyUses, CommitOffset, Free, HandlerInv, StepInv
  <1>4. ASSUME NEW n \in Node, NEW t \in Task,
               rows[active][n] # NoRow, rows[active][n].run = "RUNNING",
               rows[active][n].task = t, Current(n, t)
        PROVE  Runnable(t) \/ t \in reused \/ Later(t)
    <2>1. Event1.task = t /\ Event1.topic \in Result
      BY <1>4 DEF Current
    <2>2. CASE PassOver
      <3>1. Event1.topic = "task_completed" /\ version[t] \notin Value
        BY <2>1, <2>2 DEF PassOver, Result
      <3>2. version[t] = Null \/ version[t] = Error
        BY <3>1, <1>2 DEF TypeOK, StoreTypeOK
      <3>3. CASE version[t] = Null
        <4>1. status[t] # "ABSENT"
          BY <2>1, <1>2, <1>3, EventFacts DEF Exists
        <4> QED
          BY <3>3, <4>1, <1>2 DEF StoreInv, StatusInv, Runnable, TypeOK, StoreTypeOK
      <3>4. CASE version[t] = Error
        <4>1. handled + 1 \in 1..Len(log) /\ handled \in Nat
          BY <1>2, <1>3 DEF TypeOK, StoreTypeOK
        <4>2. PICK j \in (handled + 2)..Len(log) : log[j].task = t /\ log[j].topic = "task_failed"
          BY <2>1, <3>1, <3>4, <4>1, <1>2 DEF StoreInv, FailedInv, Event1
        <4> QED
          BY <4>2 DEF Later, Result
      <3> QED
        BY <3>2, <3>3, <3>4
    <2>3. CASE NobodyUses
      <3>1. h.task = t
        BY <2>1, <2>3, <1>2 DEF NobodyUses, HandlerInv, StepInv, ItsEvent
      <3> QED
        BY <3>1, <2>3, <1>4 DEF NobodyUses, NodesOfTask
    <2>4. CASE CommitOffset
      BY <2>4, <1>4 DEF CommitOffset, Current
    <2> QED
      BY <2>2, <2>3, <2>4
  <1> QED
    BY <1>1, <1>2, <1>3, <1>4, Committing DEF IInv

LEMMA HandlerTypes ==
  ASSUME TypeOK
  PROVE  /\ h \in Handler /\ h.snap \in [Node -> Row \cup {NoRow}] /\ h.node \in Node
         /\ h.own \in SUBSET Node /\ h.stale \in SUBSET Node /\ h.made \in Task \cup {Null}
         /\ h.value \in Value \cup {Null} /\ h.task \in Task \cup {Null}
         /\ h.todo \in SUBSET (Node \cup {Output})
         /\ count \in Nat /\ 1..count \subseteq Revision
         /\ rows \in [Revision -> [Node -> Row \cup {NoRow}]]
  BY BoundAssumption DEF TypeOK, StoreTypeOK, Handler, Revision

LEMMA Creates ==
  ASSUME IInv, CreateNodeTask \/ \E n \in Node : CreateStaleTask(n)
  PROVE  IInv'
  <1>1. /\ TypeOK /\ StoreInv /\ RunningInv /\ StepInv /\ CarriesInv /\ ReadInv
    BY DEF IInv, HandlerInv
  <1>2. /\ h \in Handler /\ h.snap \in [Node -> Row \cup {NoRow}] /\ h.node \in Node
        /\ h.own \in SUBSET Node /\ h.stale \in SUBSET Node /\ h.value \in Value \cup {Null}
        /\ rows \in [Revision -> [Node -> Row \cup {NoRow}]]
        /\ version \in [Task -> Value \cup {Null, Error}]
    BY <1>1, HandlerTypes DEF TypeOK, StoreTypeOK
  <1>3. h.step \in {"create", "feed"} /\ handled < Len(log) /\ h.rev \in 1..count
    BY <1>1, IdleFacts DEF CreateNodeTask, CreateStaleTask, NextStale, StepInv
  <1>4. PICK t \in Task :
          /\ \E k \in Client : CreateTask(k, t)
          /\ h' \in Handler /\ h'.step \in {"record", "freshen"}
          /\ h'.rev = h.rev /\ h'.snap = h.snap /\ h'.own = h.own /\ h'.stale = h.stale
          /\ h'.task = h.task /\ h'.todo = h.todo /\ h'.made = t
          /\ h'.step = "record" \/ h'.todo # {} => h'.value \in Value
          /\ h'.step = "freshen" => /\ h'.todo = {} /\ h'.own = {} /\ h'.node \in h'.stale
                                   /\ h'.snap[h'.node].run # "RUNNING"
    <2>1. CASE CreateNodeTask
      <3> DEFINE t == <<h.node, h.value>>
      <3>1. /\ h.step = "create" /\ CreateTask("scheduler", t)
            /\ h' = [h EXCEPT !.step = "record", !.made = t]
        BY <2>1 DEF CreateNodeTask
      <3>2. h.value \in Value /\ t \in Task
        BY <3>1, <1>1, <1>2 DEF CarriesInv, Task
      <3> HIDE DEF t
      <3> QED
        BY <3>1, <3>2, <1>2 DEF Handler, Step, Client
    <2>2. ASSUME NEW n \in Node, CreateStaleTask(n)
          PROVE  \E t \in Task :
          /\ \E k \in Client : CreateTask(k, t)
          /\ h' \in Handler /\ h'.step \in {"record", "freshen"}
          /\ h'.rev = h.rev /\ h'.snap = h.snap /\ h'.own = h.own /\ h'.stale = h.stale
          /\ h'.task = h.task /\ h'.todo = h.todo /\ h'.made = t
          /\ h'.step = "record" \/ h'.todo # {} => h'.value \in Value
          /\ h'.step = "freshen" => /\ h'.todo = {} /\ h'.own = {} /\ h'.node \in h'.stale
                                   /\ h'.snap[h'.node].run # "RUNNING"
      <3> DEFINE t == <<n, h.snap[n].inputs>>
      <3>1. /\ h.step = "feed" /\ h.todo = {} /\ n \in h.stale /\ CreateTask("engine", t)
            /\ Freshening(n, t) /\ AsRead(h.snap[n].inputs) # Null /\ AsRead(h.snap[n].task) = Null
        BY <2>2 DEF CreateStaleTask, NextStale
      <3>2. h.snap[n] # NoRow /\ h.snap[n].inputs \in Value \cup {Null} /\ h.snap[n].run # "RUNNING"
        <4>1. /\ h.snap[n] # NoRow /\ h.snap[n].dep = "STALE" /\ GoodRow(h.snap[n])
          BY <3>1, <1>1 DEF ReadInv
        <4>2. h.snap[n].task = Null
          BY <4>1, <3>1, ReadFacts DEF GoodRow, Exists
        <4>3. Null \notin reused
          BY <1>1, TaskFacts DEF TypeOK
        <4> QED
          BY <4>1, <4>2, <4>3 DEF GoodRow
      <3>3. t \in Task
        BY <3>1, <3>2, ReadFacts DEF Task
      <3>4. h.own = {}
        BY <3>1, <1>1 DEF ReadInv
      <3> HIDE DEF t
      <3>5. (IF version[t] = Error THEN Null ELSE version[t]) \in Value \cup {Null}
            /\ (version[t] = Error) \in BOOLEAN
        BY <3>3, <1>2
      <3>6. h' = [h EXCEPT !.step = "freshen", !.node = n, !.made = t, !.failed = (version[t] = Error),
                    !.value = IF version[t] = Error THEN Null ELSE version[t]]
        BY <3>1 DEF Freshening
      <3>7. h' \in Handler
        BY <3>3, <3>5, <3>6, <1>2 DEF Handler, Step
      <3>8. /\ h'.step = "freshen" /\ h'.node = n /\ h'.made = t /\ h'.rev = h.rev /\ h'.snap = h.snap
            /\ h'.own = h.own /\ h'.stale = h.stale /\ h'.task = h.task /\ h'.todo = h.todo
        BY <3>6, <1>2 DEF Handler
      <3> QED
        BY <3>1, <3>2, <3>3, <3>4, <3>7, <3>8 DEF Client
    <2> QED
      BY <2>1, <2>2
  <1>5. UNCHANGED <<count, active, rows, version, log, handled>> /\ Event1' = Event1
    BY <1>4 DEF CreateTask, Event1
  <1>6. \A n \in Node, u \in Task : Current(n, u) => Current(n, u)'
    BY <1>3, <1>4, <1>5 DEF Current
  <1>7. /\ TypeOK' /\ StoreInv' /\ RunningInv'
        /\ Exists(t)' /\ (\A u \in Task : Exists(u) => Exists(u)') /\ reused \subseteq reused'
    BY <1>1, <1>4, <1>6, Creating
  <1>8. StepInv'
    BY <1>1, <1>3, <1>4, <1>5, TaskFacts DEF StepInv
  <1>9. CarriesInv'
    BY <1>1, <1>4, <1>7 DEF CarriesInv, Exists
  <1>10. \A n \in Node : GoodRow(h.snap[n])'
    <2> SUFFICES ASSUME NEW n \in Node PROVE GoodRow(h.snap[n])'
      OBVIOUS
    <2>1. GoodRow(h.snap[n])
      BY <1>1 DEF ReadInv
    <2> QED
      BY <2>1, <1>4, <1>7 DEF GoodRow, Exists
  <1>11. ReadInv'
    BY <1>1, <1>3, <1>4, <1>5, <1>10 DEF ReadInv, ItsEvent
  <1> QED
    BY <1>7, <1>8, <1>9, <1>11 DEF IInv, HandlerInv

(* A stale node that has a task has one that was scheduled again.            *)
LEMMA Uses ==
  ASSUME IInv, NEW n \in Node, UseTask(n)
  PROVE  IInv'
  <1>1. /\ TypeOK /\ StoreInv /\ RunningInv /\ StepInv /\ CarriesInv /\ ReadInv
    BY DEF IInv, HandlerInv
  <1> DEFINE t == h.snap[n].task
  <1>2. /\ h.step = "feed" /\ h.todo = {} /\ n \in h.stale /\ AsRead(t) # Null
        /\ Freshening(n, t) /\ handled' = handled /\ OnlyHandler
    BY DEF UseTask, NextStale
  <1>3. /\ h.snap[n] # NoRow /\ h.snap[n].dep = "STALE" /\ GoodRow(h.snap[n]) /\ h.own = {}
    BY <1>1, <1>2 DEF ReadInv
  <1>4. Exists(t) /\ t \in reused
    BY <1>2, <1>3, ReadFacts DEF GoodRow
  <1> HIDE DEF t
  <1>5. /\ version[t] = Error \/ version[t] \in Value \cup {Null}
        /\ h \in Handler /\ handled < Len(log) /\ h.rev \in 1..count
    BY <1>1, <1>2, <1>4, HandlerTypes, IdleFacts DEF TypeOK, StoreTypeOK, Exists, StepInv
  <1>6. h' = [h EXCEPT !.step = "freshen", !.node = n, !.made = t, !.failed = (version[t] = Error),
                !.value = IF version[t] = Error THEN Null ELSE version[t]]
    BY <1>2 DEF Freshening
  <1>7. /\ h' \in Handler /\ h'.step = "freshen" /\ h'.node = n /\ h'.made = t /\ h'.rev = h.rev
        /\ h'.snap = h.snap /\ h'.own = h.own /\ h'.stale = h.stale /\ h'.task = h.task
        /\ h'.todo = h.todo
    BY <1>4, <1>5, <1>6 DEF Handler, Step, Exists
  <1>8. /\ UNCHANGED <<storeVars, call, made, sent, workflow, skipped, reused, overtaken, faults>>
        /\ count' = count /\ log' = log /\ status' = status /\ rows' = rows /\ Event1' = Event1
    BY <1>2 DEF OnlyHandler, storeVars, Event1
  <1>9. TypeOK'
    BY <1>1, <1>2, <1>7, <1>8 DEF TypeOK, StoreTypeOK, storeVars
  <1>10. StepInv'
    BY <1>1, <1>2, <1>3, <1>4, <1>5, <1>7, <1>8, TaskFacts, IdleFacts DEF StepInv, Exists
  <1>11. CarriesInv'
    BY <1>1, <1>2, <1>4, <1>7, <1>8 DEF CarriesInv, Exists
  <1>12. ReadInv'
    <2>1. \A m \in Node : GoodRow(h.snap[m])'
      BY <1>1, <1>7, <1>8 DEF ReadInv, GoodRow, Exists
    <2> QED
      BY <2>1, <1>1, <1>2, <1>3, <1>4, <1>7, <1>8 DEF ReadInv
  <1>13. \A m \in Node, u \in Task : ~Current(m, u)
    BY <1>2, <1>3 DEF Current
  <1> QED
    BY <1>1, <1>2, <1>8, <1>9, <1>10, <1>11, <1>12, <1>13, Moving DEF IInv, HandlerInv, StoreStays

(* What the three parts of HandlerInv need after a write.                    *)
LEMMA HandlerKept ==
  ASSUME TypeOK, StoreInv, StepInv, CarriesInv, ReadInv, OnlyWrites, h # Idle, h' \in Handler,
         h.rev \in 1..count, h'.rev = h.rev, h'.step \in {"feed", "records"},
         \A r \in Revision, n \in Node : rows[r][n] # NoRow => rows'[r][n] # NoRow,
         h'.made = Null \/ h'.made = h.made,
         h'.task = h.task \/ h'.task = h.made,
         h'.step = "records" => h'.todo = {},
         h'.todo # {} \/ (h'.step = "records" /\ ~h'.failed) => h'.value \in Value,
         h'.snap = h.snap \/ (h'.snap = rows[h.rev] /\ h.own = {}),
         h'.own \subseteq h.own, h.own # {} => h'.task = h.task,
         h'.stale \subseteq h.stale \/ h.own = {},
         \A n \in h'.stale : h'.snap[n] # NoRow /\ h'.snap[n].dep = "STALE"
  PROVE  HandlerInv'
  <1>1. /\ handled' = handled /\ log' = log /\ count' = count /\ status' = status /\ Event1' = Event1
    BY DEF OnlyWrites, Event1
  <1>2. handled < Len(log) /\ h.rev \in Revision /\ h.own \in SUBSET Node
    BY HandlerTypes DEF StepInv
  <1>3. StepInv'
    BY <1>1, <1>2 DEF StepInv
  <1>4. CarriesInv'
    BY <1>1 DEF CarriesInv, Exists
  <1>5. \A n \in Node : GoodRow(h.snap[n])'
    BY <1>1, <1>2 DEF ReadInv, StoreInv, RowsInv, GoodRow, Exists, OnlyWrites
  <1>6. ReadInv'
    BY <1>1, <1>2, <1>5 DEF ReadInv, ItsEvent
  <1> QED
    BY <1>3, <1>4, <1>6 DEF HandlerInv

LEMMA Marks ==
  ASSUME IInv, NEW n \in Node, MarkStale(n)
  PROVE  IInv'
  <1>1. TypeOK /\ StoreInv /\ RunningInv /\ StepInv /\ CarriesInv /\ ReadInv
    BY DEF IInv, HandlerInv
  <1> DEFINE w == [dep |-> "STALE", run |-> "IDLE", task |-> Null, inputs |-> h.value]
  <1> DEFINE ws == [m \in {n} |-> w]
  <1>2. /\ h.step = "feed" /\ n \in h.todo /\ WriteNodes("scheduler", h.rev, ws) /\ OnlyWrites
        /\ h' = [h EXCEPT !.todo = @ \ {n}]
    BY DEF MarkStale, Feeding, Fed, OnlyWrites
  <1>3. h # Idle /\ h.rev \in 1..count /\ h.rev \in Revision /\ h.value \in Value
    BY <1>1, <1>2, HandlerTypes, IdleFacts DEF StepInv, CarriesInv
  <1>4. /\ h' \in Handler /\ h'.step = "feed" /\ h'.rev = h.rev /\ h'.made = h.made /\ h'.task = h.task
        /\ h'.value = h.value /\ h'.snap = h.snap /\ h'.own = h.own /\ h'.stale = h.stale
    BY <1>1, <1>2, HandlerTypes DEF Handler
  <1>5. GoodWrite(rows[h.rev][n], w)
    BY <1>3 DEF GoodWrite, Update, Dependency, Runtime
  <1>6. \A m \in Node, t \in Task : Current(m, t) => Current(m, t)'
    BY <1>2, <1>4 DEF Current, OnlyWrites, Event1
  <1>7. \A m \in DOMAIN ws : /\ m \in Node /\ GoodWrite(rows[h.rev][m], ws[m])
                             /\ ws[m].run # "RUNNING"
    BY <1>2, <1>5, HandlerTypes, <1>1
  <1> HIDE DEF w, ws
  <1>8. /\ TypeOK' /\ StoreInv' /\ RunningInv'
        /\ \A r \in Revision, m \in Node : rows[r][m] # NoRow => rows'[r][m] # NoRow
    BY <1>1, <1>2, <1>3, <1>4, <1>5, <1>6, <1>7, Writing DEF Client
  <1>9. HandlerInv'
    BY <1>1, <1>2, <1>3, <1>4, <1>8, HandlerKept DEF ReadInv
  <1> QED
    BY <1>8, <1>9 DEF IInv

LEMMA Records ==
  ASSUME IInv, RecordTask
  PROVE  IInv'
  <1>1. TypeOK /\ StoreInv /\ RunningInv /\ StepInv /\ CarriesInv /\ ReadInv
    BY DEF IInv, HandlerInv
  <1> DEFINE n == h.node
  <1> DEFINE w == [dep |-> "FRESH", run |-> RuntimeOf(h.made), task |-> h.made, inputs |-> h.value]
  <1> DEFINE ws == [m \in {n} |-> w]
  <1>2. /\ h.step = "record" /\ WriteNodes("scheduler", h.rev, ws) /\ OnlyWrites
        /\ h' = [h EXCEPT !.step = "feed", !.made = Null]
    BY DEF RecordTask, OnlyWrites
  <1>3. /\ h # Idle /\ h.rev \in 1..count /\ h.rev \in Revision /\ h.value \in Value
        /\ n \in Node /\ Exists(h.made)
    BY <1>1, <1>2, HandlerTypes, IdleFacts DEF StepInv, CarriesInv
  <1>4. /\ h' \in Handler /\ h'.step = "feed" /\ h'.rev = h.rev /\ h'.made = Null /\ h'.task = h.task
        /\ h'.value = h.value /\ h'.snap = h.snap /\ h'.own = h.own /\ h'.stale = h.stale
    BY <1>1, <1>2, HandlerTypes DEF Handler, Step
  <1>5. /\ RuntimeOf(h.made) \in Runtime
        /\ RuntimeOf(h.made) = "RUNNING" => status[h.made] = "PENDING"
    BY <1>1, <1>3 DEF RuntimeOf, Runtime, Exists, TypeOK, StoreTypeOK
  <1>6. GoodWrite(rows[h.rev][n], w)
    BY <1>3, <1>5, TaskFacts DEF GoodWrite, Update, Dependency, Exists
  <1>7. \A m \in Node, t \in Task : Current(m, t) => Current(m, t)'
    BY <1>2, <1>4 DEF Current, OnlyWrites, Event1
  <1>8. \A m \in DOMAIN ws : /\ m \in Node /\ GoodWrite(rows[h.rev][m], ws[m])
                             /\ ws[m].run = "RUNNING" => status[ws[m].task] = "PENDING"
    BY <1>3, <1>5, <1>6
  <1> HIDE DEF w, ws, n
  <1>9. /\ TypeOK' /\ StoreInv' /\ RunningInv'
        /\ \A r \in Revision, m \in Node : rows[r][m] # NoRow => rows'[r][m] # NoRow
    BY <1>1, <1>2, <1>3, <1>4, <1>6, <1>7, <1>8, Writing DEF Client
  <1>10. HandlerInv'
    BY <1>1, <1>2, <1>3, <1>4, <1>9, HandlerKept DEF ReadInv
  <1> QED
    BY <1>9, <1>10 DEF IInv

LEMMA WritesBack ==
  ASSUME IInv, NEW n \in Node, FinishNode(n) \/ FailNode(n)
  PROVE  IInv'
  <1>1. TypeOK /\ StoreInv /\ RunningInv /\ StepInv /\ CarriesInv /\ ReadInv
    BY DEF IInv, HandlerInv
  <1>2. PICK run \in {"IDLE", "FAILED"} : WriteBack(n, run)
    BY DEF FinishNode, FailNode
  <1> DEFINE w == [dep |-> h.snap[n].dep, run |-> run, task |-> h.task, inputs |-> Keep]
  <1> DEFINE ws == [m \in {n} |-> w]
  <1>3. /\ h.step = "feed" /\ h.todo = {} /\ n \in h.own /\ WriteNodes("engine", h.rev, ws) /\ OnlyWrites
        /\ h' = [h EXCEPT !.own = @ \ {n}]
    BY <1>2 DEF WriteBack, OnlyWrites
  <1>4. h # Idle /\ h.rev \in 1..count /\ h.rev \in Revision
    BY <1>1, <1>3, HandlerTypes, IdleFacts DEF StepInv
  <1>5. /\ h' \in Handler /\ h'.step = "feed" /\ h'.rev = h.rev /\ h'.made = h.made /\ h'.task = h.task
        /\ h'.value = h.value /\ h'.snap = h.snap /\ h'.own = h.own \ {n} /\ h'.stale = h.stale
        /\ h'.todo = h.todo
    BY <1>1, <1>3, HandlerTypes DEF Handler
  <1>6. /\ handled < Len(log) /\ ItsEvent
    BY <1>1, <1>3, <1>4 DEF StepInv, ReadInv
  <1>7. Exists(h.task)
    BY <1>1, <1>6, EventFacts DEF ItsEvent
  <1>8. /\ h.snap[n] \in Row /\ h.snap[n].task = h.task /\ rows[h.rev][n] # NoRow
        /\ h.snap[n].dep = "STALE" => h.task \in reused
    BY <1>1, <1>3, <1>7, TaskFacts, HandlerTypes DEF ReadInv, GoodRow, Exists
  <1>9. GoodWrite(rows[h.rev][n], w)
    BY <1>7, <1>8, TaskFacts DEF GoodWrite, Update, Row, Dependency, Runtime, Exists
  <1>10. \A m \in Node, t \in Task : Current(m, t) => Current(m, t)' \/ (m = n /\ h.rev = active)
    BY <1>3, <1>5 DEF Current, OnlyWrites, Event1
  <1>11. DOMAIN ws = {n} /\ \A m \in DOMAIN ws : ws[m] = w /\ ws[m].run # "RUNNING"
    OBVIOUS
  <1> HIDE DEF w, ws
  <1>12. /\ TypeOK' /\ StoreInv' /\ RunningInv'
         /\ \A r \in Revision, m \in Node : rows[r][m] # NoRow => rows'[r][m] # NoRow
    BY <1>1, <1>3, <1>4, <1>5, <1>9, <1>10, <1>11, Writing DEF Client
  <1>13. HandlerInv'
    BY <1>1, <1>3, <1>4, <1>5, <1>12, HandlerKept DEF ReadInv
  <1> QED
    BY <1>12, <1>13 DEF IInv

LEMMA Resets ==
  ASSUME IInv, ResetStale
  PROVE  IInv'
  <1>1. TypeOK /\ StoreInv /\ RunningInv /\ StepInv /\ CarriesInv /\ ReadInv
    BY DEF IInv, HandlerInv
  <1> DEFINE stale == {n \in h.stale : RowOf(n) # NoRow /\ RowOf(n).dep = "STALE"}
  <1> DEFINE ws == [n \in stale |-> [dep |-> "STALE", run |-> "IDLE",
                        task |-> AsRead(RowOf(n).task), inputs |-> AsRead(RowOf(n).inputs)]]
  <1>2. /\ h.step = "revision" /\ WriteNodes("engine", h.rev, ws) /\ OnlyWrites
        /\ h' = [h EXCEPT !.step = "feed", !.snap = rows[h.rev], !.stale = stale]
    BY DEF ResetStale, OnlyWrites
  <1>3. h # Idle /\ h.rev \in 1..count /\ h.rev \in Revision /\ h.todo = {} /\ h.own = {}
    BY <1>1, <1>2, HandlerTypes, IdleFacts DEF StepInv
  <1>4. stale \subseteq Node /\ stale \subseteq h.stale
        /\ \A n \in stale : rows[h.rev][n] # NoRow /\ rows[h.rev][n].dep = "STALE"
    BY <1>1, HandlerTypes DEF RowOf
  <1>5. /\ h' \in Handler /\ h'.step = "feed" /\ h'.rev = h.rev /\ h'.made = h.made /\ h'.task = h.task
        /\ h'.value = h.value /\ h'.snap = rows[h.rev] /\ h'.own = h.own /\ h'.stale = stale
        /\ h'.todo = h.todo
    <2> HIDE DEF stale, ws
    <2> QED
      BY <1>1, <1>2, <1>3, <1>4, HandlerTypes DEF Handler, Step
  <1>6. ASSUME NEW n \in stale
        PROVE  GoodWrite(rows[h.rev][n], ws[n]) /\ ws[n].run # "RUNNING"
    <2>1. GoodRow(rows[h.rev][n]) /\ rows[h.rev][n] # NoRow /\ rows[h.rev][n].dep = "STALE"
      BY <1>1, <1>3, <1>4 DEF StoreInv, RowsInv
    <2>2. /\ \/ rows[h.rev][n].task = Null
             \/ Exists(rows[h.rev][n].task) /\ rows[h.rev][n].task \in reused
          /\ rows[h.rev][n].inputs \in Value \cup {Null}
      BY <2>1 DEF GoodRow
    <2>3. /\ \/ AsRead(RowOf(n).task) = Null
             \/ Exists(AsRead(RowOf(n).task)) /\ AsRead(RowOf(n).task) \in reused
          /\ AsRead(RowOf(n).inputs) \in Value \cup {Null}
      BY <2>2, ReadFacts DEF RowOf, Exists
    <2>4. ws[n] = [dep |-> "STALE", run |-> "IDLE",
                   task |-> AsRead(RowOf(n).task), inputs |-> AsRead(RowOf(n).inputs)]
      OBVIOUS
    <2> QED
      BY <2>3, <2>4 DEF GoodWrite, Update, Dependency, Runtime, Exists
  <1>7. \A m \in Node, t \in Task : ~Current(m, t)
    BY <1>2, <1>3 DEF Current
  <1>8. DOMAIN ws = stale
    OBVIOUS
  <1> HIDE DEF ws, stale
  <1>9. /\ TypeOK' /\ StoreInv' /\ RunningInv'
        /\ \A r \in Revision, m \in Node : rows[r][m] # NoRow => rows'[r][m] # NoRow
    BY <1>1, <1>2, <1>3, <1>4, <1>5, <1>6, <1>7, <1>8, Writing DEF Client
  <1>10. HandlerInv'
    BY <1>1, <1>2, <1>3, <1>4, <1>5, <1>9, HandlerKept
  <1> QED
    BY <1>9, <1>10 DEF IInv

LEMMA Freshens ==
  ASSUME IInv, Freshen
  PROVE  IInv'
  <1>1. TypeOK /\ StoreInv /\ RunningInv /\ StepInv /\ CarriesInv /\ ReadInv
    BY DEF IInv, HandlerInv
  <1> DEFINE n == h.node
  <1> DEFINE w == [dep |-> "FRESH", run |-> h.snap[n].run, task |-> h.made,
                   inputs |-> AsRead(h.snap[n].inputs)]
  <1> DEFINE ws == [m \in {n} |-> w]
  <1>2. /\ h.step = "freshen" /\ WriteNodes("engine", h.rev, ws) /\ OnlyWrites
        /\ h' = [h EXCEPT !.stale = @ \ {n}, !.made = Null, !.task = h.made,
                    !.step = IF h.value = Null /\ ~h.failed THEN "feed" ELSE "records"]
    BY DEF Freshen, OnlyWrites
  <1>3. h # Idle /\ h.rev \in 1..count /\ h.rev \in Revision /\ h.todo = {} /\ h.own = {}
        /\ Exists(h.made) /\ n \in h.stale /\ n \in Node
    BY <1>1, <1>2, HandlerTypes, IdleFacts DEF StepInv, CarriesInv, ReadInv
  <1>4. /\ h' \in Handler /\ h'.step \in {"feed", "records"} /\ h'.rev = h.rev /\ h'.made = Null
        /\ h'.task = h.made /\ h'.value = h.value /\ h'.snap = h.snap /\ h'.own = h.own
        /\ h'.stale = h.stale \ {n} /\ h'.todo = h.todo /\ h'.failed = h.failed
        /\ h'.step = "records" /\ ~h'.failed => h'.value # Null
    <2> HIDE DEF n, w, ws
    <2> QED
      BY <1>1, <1>2, <1>3, HandlerTypes DEF Handler, Step
  <1>5. /\ h.snap[n] # NoRow /\ h.snap[n].run \in Runtime
        /\ h.snap[n].run = "RUNNING" => h.made \in reused
        /\ AsRead(h.snap[n].inputs) \in Value \cup {Null}
    BY <1>1, <1>2, <1>3, ReadFacts DEF ReadInv, GoodRow, Row
  <1>6. GoodWrite(rows[h.rev][n], w)
    BY <1>3, <1>5, TaskFacts DEF GoodWrite, Update, Dependency, Runtime, Exists
  <1>7. \A m \in Node, t \in Task : ~Current(m, t)
    BY <1>2, <1>3 DEF Current
  <1>8. \A m \in DOMAIN ws : /\ m \in Node /\ GoodWrite(rows[h.rev][m], ws[m])
                             /\ ws[m].run = "RUNNING" => ws[m].task \in reused
    BY <1>3, <1>5, <1>6
  <1>9. h'.value \in Value \cup {Null}
    BY <1>1, <1>4, HandlerTypes
  <1> HIDE DEF w, ws, n
  <1>10. /\ TypeOK' /\ StoreInv' /\ RunningInv'
         /\ \A r \in Revision, m \in Node : rows[r][m] # NoRow => rows'[r][m] # NoRow
    BY <1>1, <1>2, <1>3, <1>4, <1>6, <1>7, <1>8, Writing DEF Client
  <1>11. HandlerInv'
    BY <1>1, <1>2, <1>3, <1>4, <1>9, <1>10, HandlerKept DEF ReadInv
  <1> QED
    BY <1>10, <1>11 DEF IInv
-----------------------------------------------------------------------------
(* The callers and the workers. *)

(* The handler is not disturbed by what others add to the store.             *)
LEMMA HandlerStays ==
  ASSUME TypeOK, HandlerInv, h' = h, handled' = handled, count' \in Nat, count <= count',
         log' = log \/ \E e \in Event : log' = Append(log, e),
         \A t \in Task : Exists(t) => Exists(t)', reused \subseteq reused',
         \A r \in 1..count, n \in Node : rows'[r][n] = rows[r][n]
  PROVE  HandlerInv'
  <1>1. log \in Seq(Event) /\ handled \in 0..Len(log) /\ count \in Nat /\ h.own \in SUBSET Node
    BY HandlerTypes DEF TypeOK, StoreTypeOK
  <1>2. Len(log') >= Len(log) /\ Len(log') \in Nat /\ (handled < Len(log) => Event1' = Event1)
    <2>1. CASE log' = log
      BY <2>1, <1>1 DEF Event1
    <2>2. ASSUME NEW e \in Event, log' = Append(log, e) PROVE <1>2
      BY <2>2, <1>1, Appended
    <2> QED
      BY <2>1, <2>2
  <1>3. StepInv /\ CarriesInv /\ ReadInv
    BY DEF HandlerInv
  <1>4. StepInv'
    BY <1>1, <1>2, <1>3, IdleFacts DEF StepInv, ItsEvent
  <1>5. CarriesInv'
    BY <1>3 DEF CarriesInv, Exists
  <1>6. \A n \in Node : GoodRow(h.snap[n])'
    <2> SUFFICES ASSUME NEW n \in Node PROVE GoodRow(h.snap[n])'
      OBVIOUS
    <2>1. GoodRow(h.snap[n])
      BY <1>3 DEF ReadInv
    <2> QED
      BY <2>1 DEF GoodRow, Exists
  <1>7. \A n \in h.own : h.rev \in 1..count /\ handled < Len(log)
    BY <1>3, IdleFacts DEF StepInv, ReadInv
  <1>8. ReadInv'
    BY <1>1, <1>2, <1>3, <1>6, <1>7 DEF ReadInv, ItsEvent
  <1> QED
    BY <1>4, <1>5, <1>8 DEF HandlerInv

LEMMA Calling ==
  ASSUME IInv, NEW c \in Caller, ReadActive(c) \/ Throw(c)
  PROVE  IInv'
  <1>1. /\ UNCHANGED <<storeVars, handled, h, made, sent, workflow, faults, skipped, reused, overtaken>>
        /\ call' \in [Caller -> Revision \cup {NoCall}]
    <2>1. active \in Revision /\ call \in [Caller -> Revision \cup {NoCall}]
      BY BoundAssumption DEF IInv, TypeOK, StoreTypeOK, Revision
    <2>2. call' = [call EXCEPT ![c] = active] \/ call' = [call EXCEPT ![c] = NoCall]
      BY DEF ReadActive, Throw
    <2>3. UNCHANGED <<storeVars, handled, h, made, sent, workflow, faults, skipped, reused, overtaken>>
      BY DEF ReadActive, Throw, engineVars
    <2> QED
      BY <2>1, <2>2, <2>3
  <1>2. TypeOK'
    BY <1>1 DEF IInv, TypeOK, StoreTypeOK, storeVars
  <1>3. HandlerInv'
    BY <1>1, HandlerStays, HandlerTypes DEF IInv, storeVars, Exists
  <1>4. \A n \in Node, t \in Task : Current(n, t) => Current(n, t)'
    BY <1>1 DEF Current, Event1, storeVars
  <1> QED
    BY <1>1, <1>2, <1>3, <1>4, Moving DEF IInv, StoreStays

LEMMA Works ==
  ASSUME IInv, Work
  PROVE  IInv'
  <1>1. TypeOK /\ StoreInv /\ RunningInv /\ HandlerInv
    BY DEF IInv
  <1>2. PICK t \in Task, v \in Value \cup {Error} : ReportTask(t, v)
    BY PipelineAssumption, TaskFacts DEF Work
  <1>3. /\ UNCHANGED <<parent, count, active, rows, jobs, call, handled, h, made, sent, workflow,
                       faults, skipped, reused, overtaken>>
        /\ Runnable(t)
        /\ version' = [version EXCEPT ![t] = v]
        /\ status' = [status EXCEPT ![t] = IF v = Error THEN "FAILED" ELSE "SUCCEEDED"]
    BY <1>2 DEF Work, ReportTask, engineVars
  <1> DEFINE e == [topic |-> IF v = Error THEN "task_failed" ELSE "task_completed", rev |-> 0,
                   task |-> t, value |-> Null, targets |-> {}]
  <1>4. log' = Append(log, e) /\ e \in Event
    BY <1>2 DEF ReportTask, Announce, Event, Topic
  <1>5. e.task = t /\ e.topic = (IF v = Error THEN "task_failed" ELSE "task_completed")
    OBVIOUS
  <1> HIDE DEF e
  <1>6. /\ log \in Seq(Event) /\ handled \in 0..Len(log) /\ active \in Revision
        /\ status \in [Task -> {"ABSENT", "PENDING", "SUCCEEDED", "FAILED"}]
        /\ version \in [Task -> Value \cup {Null, Error}] /\ count \in Nat
    BY <1>1, BoundAssumption DEF TypeOK, StoreTypeOK, Revision
  <1>7. /\ log' \in Seq(Event) /\ Len(log') = Len(log) + 1
        /\ \A i \in 1..Len(log) : log'[i] = log[i]
        /\ log'[Len(log) + 1] = e
        /\ handled < Len(log) => Event1' = Event1
    BY <1>3, <1>4, <1>6, Appended
  <1>8. TypeOK'
    BY <1>1, <1>3, <1>6, <1>7 DEF TypeOK, StoreTypeOK
  <1>9. \A u \in Task : Exists(u) => Exists(u)'
    BY <1>3, <1>6 DEF Exists
  <1>10. Exists(t)'
    BY <1>3, <1>6 DEF Exists
  <1>11. RowsInv'
    BY <1>1, <1>3, <1>9 DEF StoreInv, RowsInv, GoodRow, Exists
  <1>12. StatusInv'
    BY <1>1, <1>3, <1>6, DistinctAssumption DEF StoreInv, StatusInv
  <1>13. LogInv'
    <2> SUFFICES ASSUME NEW i \in 1..Len(log')
                 PROVE  /\ log'[i].topic \in Result \cup Given => Exists(log[i].task)'
                        /\ log'[i].topic \in Given \cup {"stale_update_revision_created"} =>
                             log'[i].rev \in 1..count
                        /\ log'[i].topic = "task_player_submitted" => log'[i].value \in Value
      BY <1>3 DEF LogInv
    <2>1. CASE i \in 1..Len(log)
      BY <2>1, <1>1, <1>7, <1>9 DEF StoreInv, LogInv, Exists
    <2>2. CASE i = Len(log) + 1
      BY <2>2, <1>5, <1>7, <1>10 DEF Given, Exists
    <2> QED
      BY <2>1, <2>2, <1>6, <1>7
  <1>14. FailedInv'
    <2> SUFFICES ASSUME NEW u \in Task, version'[u] = Error, NEW i \in 1..Len(log'),
                        log'[i].task = u, log'[i].topic = "task_completed"
                 PROVE  \E j \in (i + 1)..Len(log') : log'[j].task = u /\ log'[j].topic = "task_failed"
      BY DEF FailedInv
    <2>1. CASE u = t
      <3>1. v = Error
        BY <2>1, <1>3, <1>6
      <3>2. i # Len(log) + 1
        BY <3>1, <1>5, <1>7
      <3>3. Len(log) + 1 \in (i + 1)..Len(log')
        BY <3>2, <1>6, <1>7
      <3> QED
        BY <3>1, <3>3, <2>1, <1>5, <1>7
    <2>2. CASE u # t
      <3>1. version[u] = Error /\ i \in 1..Len(log) /\ log[i] = log'[i]
        BY <2>2, <1>3, <1>5, <1>6, <1>7
      <3>2. PICK j \in (i + 1)..Len(log) : log[j].task = u /\ log[j].topic = "task_failed"
        BY <3>1, <1>1 DEF StoreInv, FailedInv
      <3> QED
        BY <3>1, <3>2, <1>6, <1>7
    <2> QED
      BY <2>1, <2>2
  <1>15. StoreInv'
    BY <1>1, <1>3, <1>9, <1>11, <1>12, <1>13, <1>14 DEF StoreInv, TypeOK, Exists
  <1>16. HandlerInv'
    BY <1>1, <1>3, <1>4, <1>6, <1>9, HandlerStays
  <1>17. RunningInv'
    <2> SUFFICES ASSUME NEW n \in Node, rows[active][n] # NoRow, rows[active][n].run = "RUNNING"
                 PROVE  HasWork(n)'
      BY <1>3 DEF RunningInv
    <2> DEFINE u == rows[active][n].task
    <2>1. HasWork(n)
      BY <1>1 DEF RunningInv
    <2>2. u \in Task
      BY <1>1, <1>6 DEF StoreInv, RowsInv, GoodRow, Exists
    <2>3. CASE u = t
      <3>1. Len(log) + 1 \in (handled + 2)..Len(log') => Later(t)'
        BY <1>3, <1>5, <1>7 DEF Later, Result
      <3>2. CASE handled = Len(log)
        <4>1. h = Idle
          BY <3>2, <1>1, <1>6 DEF HandlerInv, StepInv
        <4> QED
          BY <3>2, <4>1, <2>3, <1>3, <1>5, <1>6, <1>7, IdleFacts DEF HasWork, Current, Event1, Result
      <3>3. CASE handled < Len(log)
        BY <3>1, <3>3, <2>3, <1>3, <1>6, <1>7 DEF HasWork
      <3> QED
        BY <3>2, <3>3, <1>6
    <2>4. CASE u # t
      <3>1. Runnable(u) => Runnable(u)'
        BY <2>2, <2>4, <1>3, <1>6 DEF Runnable
      <3>2. Later(u) => Later(u)'
        BY <1>3, <1>6, <1>7 DEF Later
      <3>3. Current(n, u) => Current(n, u)'
        BY <1>3, <1>6, <1>7 DEF Current
      <3> QED
        BY <2>1, <3>1, <3>2, <3>3, <1>3 DEF HasWork
    <2> QED
      BY <2>3, <2>4
  <1> QED
    BY <1>8, <1>15, <1>16, <1>17 DEF IInv

(* Every fork copies the parent's rows but for the run state of one node with *)
(* a task; a node it shows as running has had its task refreshed.            *)
CopyOf(from, copy) == \A n \in Node :
  \/ copy[n] = rows[from][n]
  \/ /\ HasTask(from, n) /\ copy[n] = [rows[from][n] EXCEPT !.run = copy[n].run]
     /\ copy[n].run \in Runtime
     /\ copy[n].run = "RUNNING" => /\ status'[rows[from][n].task] = "PENDING"
                                   /\ version'[rows[from][n].task] = Null

Told(e) ==
  /\ e \in Event /\ e.topic \notin Result /\ e.rev = count + 1
  /\ e.topic \in Given => Exists(e.task)
  /\ e.topic = "task_player_submitted" => e.value \in Value

Refreshed == \E t \in Task :
  /\ Exists(t) /\ status' = [status EXCEPT ![t] = "PENDING"]
  /\ version' = [version EXCEPT ![t] = Null]

Forked(from) ==
  /\ \E copy \in [Node -> Row \cup {NoRow}] : ForkTo(from, copy) /\ CopyOf(from, copy)
  /\ log' = log \/ \E e : log' = Append(log, e) /\ Told(e)
  /\ (status' = status /\ version' = version) \/ Refreshed
  /\ jobs' \in SUBSET (Revision \X SUBSET Node)

LEMMA TaskRow ==
  ASSUME TypeOK, StoreInv, NEW from \in Revision, NEW n \in Node, HasTask(from, n)
  PROVE  Exists(rows[from][n].task) /\ rows[from][n] \in Row
  BY DEF HasTask, StoreInv, RowsInv, GoodRow

LEMMA CopiedFacts ==
  ASSUME TypeOK, StoreInv, NEW from \in Revision, NEW n \in Node, HasTask(from, n),
         NEW run \in Runtime,
         run = "RUNNING" => /\ status'[rows[from][n].task] = "PENDING"
                            /\ version'[rows[from][n].task] = Null
  PROVE  CopyOf(from, Copied(from, n, run)) /\ Copied(from, n, run) \in [Node -> Row \cup {NoRow}]
  <1>1. rows[from] \in [Node -> Row \cup {NoRow}] /\ rows[from][n] \in Row
    BY HandlerTypes, TaskRow
  <1>2. [rows[from][n] EXCEPT !.run = run] \in Row /\ [rows[from][n] EXCEPT !.run = run].run = run
    BY <1>1 DEF Row
  <1> QED
    BY <1>1, <1>2 DEF Copied, CopyOf

LEMMA ForkForm ==
  ASSUME TypeOK, StoreInv, NEW from \in Revision, Fork(from)
  PROVE  Forked(from)
  <1>1. /\ rows[from] \in [Node -> Row \cup {NoRow}] /\ CopyOf(from, rows[from])
        /\ count \in Nat /\ jobs \in SUBSET (Revision \X SUBSET Node)
        /\ status \in [Task -> {"ABSENT", "PENDING", "SUCCEEDED", "FAILED"}]
        /\ version \in [Task -> Value \cup {Null, Error}]
    BY HandlerTypes DEF CopyOf, TypeOK, StoreTypeOK
  <1>2. count < MaxRevision => count + 1 \in Revision
    BY <1>1, BoundAssumption DEF Revision
  <1>3. ASSUME NEW n \in Node, RequestNodeRerun(from, n)
        PROVE  Forked(from)
    <2> DEFINE t == rows[from][n].task
    <2>1. HasTask(from, n) /\ Exists(t)
      BY <1>3, TaskRow DEF RequestNodeRerun
    <2>2. /\ status' = [status EXCEPT ![t] = "PENDING"] /\ version' = [version EXCEPT ![t] = Null]
          /\ ForkTo(from, Copied(from, n, "RUNNING")) /\ log' = log /\ jobs' = jobs
      BY <1>3 DEF RequestNodeRerun
    <2>3. status'[t] = "PENDING" /\ version'[t] = Null
      BY <2>1, <2>2, <1>1 DEF Exists
    <2>4. Refreshed
      BY <2>1, <2>2 DEF Refreshed, Exists
    <2> QED
      BY <2>1, <2>2, <2>3, <2>4, <1>1, CopiedFacts DEF Forked, Runtime
  <1>4. ASSUME NEW n \in Node, FailPlayerTask(from, n)
        PROVE  Forked(from)
    <2> DEFINE e == [topic |-> "task_player_failed", rev |-> count + 1, task |-> rows[from][n].task,
                     value |-> Null, targets |-> {}]
    <2>1. HasTask(from, n) /\ Exists(rows[from][n].task) /\ count < MaxRevision
      BY <1>4, TaskRow DEF FailPlayerTask, ForkTo
    <2>2. /\ ForkTo(from, Copied(from, n, "FAILED")) /\ log' = Append(log, e)
          /\ jobs' = jobs /\ status' = status /\ version' = version
      BY <1>4 DEF FailPlayerTask, Announce
    <2>3. Told(e)
      BY <2>1, <1>2 DEF Told, Event, Topic, Result, Exists
    <2> QED
      BY <2>1, <2>2, <2>3, <1>1, CopiedFacts DEF Forked, Runtime
  <1>5. ASSUME NEW n \in Node, NEW v \in Value, SubmitPlayerInput(from, n, v)
        PROVE  Forked(from)
    <2> DEFINE e == [topic |-> "task_player_submitted", rev |-> count + 1,
                     task |-> rows[from][n].task, value |-> v, targets |-> {}]
    <2>1. HasTask(from, n) /\ Exists(rows[from][n].task) /\ count < MaxRevision
      BY <1>5, TaskRow DEF SubmitPlayerInput, ForkTo
    <2>2. /\ ForkTo(from, Copied(from, n, "IDLE")) /\ log' = Append(log, e)
          /\ jobs' = jobs /\ status' = status /\ version' = version
      BY <1>5 DEF SubmitPlayerInput, Announce
    <2>3. Told(e)
      BY <2>1, <1>2 DEF Told, Event, Topic, Result, Exists
    <2> QED
      BY <2>1, <2>2, <2>3, <1>1, CopiedFacts DEF Forked, Runtime
  <1>6. ASSUME NEW ts \in Targets, RequestStaleNodesUpdate(from, ts)
        PROVE  Forked(from)
    <2> DEFINE e == [topic |-> "stale_update_revision_created", rev |-> count + 1, task |-> Null,
                     value |-> Null, targets |-> ts]
    <2>1. /\ ForkTo(from, rows[from]) /\ log' = Append(log, e) /\ count < MaxRevision
          /\ jobs' = jobs \cup {<<from, ts>>} /\ status' = status /\ version' = version
      BY <1>6 DEF RequestStaleNodesUpdate, Announce, ForkTo
    <2>2. ts \in SUBSET Node
      BY PipelineAssumption
    <2>3. Told(e)
      BY <2>1, <2>2, <1>2 DEF Told, Event, Topic, Result, Given
    <2> QED
      BY <2>1, <2>2, <2>3, <1>1 DEF Forked
  <1>7. ASSUME ForkWorkflowRevision(from)
        PROVE  Forked(from)
    <2> DEFINE e == [topic |-> "revision_forked", rev |-> count + 1, task |-> Null,
                     value |-> Null, targets |-> {}]
    <2>1. /\ ForkTo(from, rows[from]) /\ log' = Append(log, e) /\ count < MaxRevision
          /\ jobs' = jobs /\ status' = status /\ version' = version
      BY <1>7 DEF ForkWorkflowRevision, Announce, ForkTo
    <2>2. Told(e)
      BY <2>1, <1>2 DEF Told, Event, Topic, Result, Given
    <2> QED
      BY <2>1, <2>2, <1>1 DEF Forked
  <1> QED
    BY <1>3, <1>4, <1>5, <1>6, <1>7 DEF Fork

LEMMA Forks ==
  ASSUME IInv, NEW c \in Caller, Commit(c)
  PROVE  IInv'
  <1> DEFINE from == call[c]
  <1>1. /\ TypeOK /\ StoreInv /\ RunningInv /\ HandlerInv
    BY DEF IInv
  <1>2. /\ from \in Revision /\ Fork(from)
        /\ overtaken' = IF Overtakes(from) THEN overtaken \cup {count + 1} ELSE overtaken
        /\ skipped' = IF from \in skipped THEN skipped \cup {count + 1} ELSE skipped
        /\ call' = [call EXCEPT ![c] = NoCall]
        /\ UNCHANGED <<handled, h, made, sent, workflow, faults, reused>>
    BY <1>1 DEF Commit, TypeOK, engineVars
  <1> HIDE DEF from
  <1>3. Forked(from)
    BY <1>1, <1>2, ForkForm
  <1>4. PICK copy \in [Node -> Row \cup {NoRow}] : ForkTo(from, copy) /\ CopyOf(from, copy)
    BY <1>3 DEF Forked
  <1>5. /\ count < MaxRevision /\ count' = count + 1 /\ active' = count + 1
        /\ parent' = [parent EXCEPT ![count + 1] = from]
        /\ rows' = [rows EXCEPT ![count + 1] = copy]
    BY <1>4 DEF ForkTo
  <1>6. /\ count \in Nat /\ count + 1 \in Revision /\ count \in Revision
        /\ rows \in [Revision -> [Node -> Row \cup {NoRow}]] /\ parent \in [Revision -> 0..MaxRevision]
        /\ from \in 0..MaxRevision
        /\ log \in Seq(Event) /\ handled \in 0..Len(log)
        /\ status \in [Task -> {"ABSENT", "PENDING", "SUCCEEDED", "FAILED"}]
        /\ version \in [Task -> Value \cup {Null, Error}]
    BY <1>1, <1>2, <1>5, BoundAssumption DEF TypeOK, StoreTypeOK, Revision
  <1>7. /\ status' \in [Task -> {"ABSENT", "PENDING", "SUCCEEDED", "FAILED"}]
        /\ version' \in [Task -> Value \cup {Null, Error}]
        /\ \A t \in Task : \/ status'[t] = status[t] /\ version'[t] = version[t]
                           \/ status'[t] = "PENDING" /\ version'[t] = Null
        /\ \A t \in Task : status'[t] = "ABSENT" => status[t] = "ABSENT"
    <2>1. CASE status' = status /\ version' = version
      BY <2>1, <1>6
    <2>2. CASE Refreshed
      BY <2>2, <1>6 DEF Refreshed
    <2> QED
      BY <2>1, <2>2, <1>3 DEF Forked
  <1>8. \A t \in Task : Exists(t) => Exists(t)'
    BY <1>7 DEF Exists
  <1>9. log' = log \/ \E e : log' = Append(log, e) /\ Told(e)
    BY <1>3 DEF Forked
  <1>10. /\ log' \in Seq(Event) /\ handled \in 0..Len(log') /\ Len(log') >= Len(log)
         /\ \A i \in 1..Len(log) : log'[i] = log[i]
         /\ handled < Len(log) => Event1' = Event1
    <2>1. CASE log' = log
      BY <2>1, <1>2, <1>6 DEF Event1
    <2>2. ASSUME NEW e, log' = Append(log, e), Told(e)
          PROVE  <1>10
      BY <2>2, <1>2, <1>6, Appended DEF Told
    <2> QED
      BY <2>1, <2>2, <1>9
  <1>11. \A i \in 1..Len(log') : i \in 1..Len(log) \/ Told(log'[i])
    <2>1. CASE log' = log
      BY <2>1
    <2>2. ASSUME NEW e, log' = Append(log, e), Told(e)
          PROVE  <1>11
      BY <2>2, <1>6, Appended DEF Told
    <2> QED
      BY <2>1, <2>2, <1>9
  <1>12. rows' \in [Revision -> [Node -> Row \cup {NoRow}]] /\ rows'[count + 1] = copy
         /\ \A r \in Revision \ {count + 1} : rows'[r] = rows[r]
    BY <1>5, <1>6
  <1>13. parent' \in [Revision -> 0..MaxRevision] /\ jobs' \in SUBSET (Revision \X SUBSET Node)
    BY <1>3, <1>5, <1>6 DEF Forked
  <1>14. TypeOK'
    <2>1. /\ overtaken' \in SUBSET Revision /\ skipped' \in SUBSET Revision
          /\ call' \in [Caller -> Revision \cup {NoCall}]
      BY <1>1, <1>2, <1>6 DEF TypeOK
    <2>2. active' \in 1..count' /\ count' \in Revision
      BY <1>5, <1>6
    <2> QED
      BY <2>1, <2>2, <1>1, <1>2, <1>7, <1>10, <1>12, <1>13 DEF TypeOK, StoreTypeOK
  <1>15. ASSUME NEW n \in Node
         PROVE  GoodRow(copy[n])
    <2>1. GoodRow(rows[from][n])
      BY <1>1, <1>2 DEF StoreInv, RowsInv
    <2>2. CASE copy[n] = rows[from][n]
      BY <2>1, <2>2
    <2>3. CASE /\ HasTask(from, n) /\ copy[n] = [rows[from][n] EXCEPT !.run = copy[n].run]
               /\ copy[n].run \in Runtime
      <3> DEFINE x == rows[from][n]
      <3>1. x # NoRow /\ x.task # Null /\ x \in Row
        BY <2>3, <1>1, <1>2, TaskRow DEF HasTask
      <3>2. GoodRow(x)
        BY <2>1
      <3>3. copy[n] = [x EXCEPT !.run = copy[n].run]
        BY <2>3
      <3> HIDE DEF x
      <3> QED
        BY <3>1, <3>2, <3>3, <2>3 DEF GoodRow, Row
    <2> QED
      BY <2>2, <2>3, <1>4 DEF CopyOf
  <1>16. RowsInv'
    <2> SUFFICES ASSUME NEW r \in Revision, NEW n \in Node
                 PROVE  GoodRow(rows[r][n])'
      BY DEF RowsInv
    <2>1. GoodRow(rows'[r][n])
      <3>1. CASE r = count + 1
        BY <3>1, <1>12, <1>15
      <3>2. CASE r # count + 1
        BY <3>2, <1>1, <1>12 DEF StoreInv, RowsInv
      <3> QED
        BY <3>1, <3>2
    <2> QED
      BY <2>1, <1>2, <1>8 DEF GoodRow, Exists
  <1>17. StatusInv'
    BY <1>1, <1>2, <1>7 DEF StoreInv, StatusInv
  <1>18. LogInv'
    <2> SUFFICES ASSUME NEW i \in 1..Len(log')
                 PROVE  /\ log'[i].topic \in Result \cup Given => Exists(log[i].task)'
                        /\ log'[i].topic \in Given \cup {"stale_update_revision_created"} =>
                             log'[i].rev \in 1..count'
                        /\ log'[i].topic = "task_player_submitted" => log'[i].value \in Value
      BY DEF LogInv
    <2>1. CASE i \in 1..Len(log)
      BY <2>1, <1>1, <1>5, <1>6, <1>8, <1>10 DEF StoreInv, LogInv, Exists
    <2>2. CASE Told(log'[i])
      BY <2>2, <1>5, <1>6, <1>8 DEF Told, Exists
    <2> QED
      BY <2>1, <2>2, <1>11
  <1>19. FailedInv'
    <2> SUFFICES ASSUME NEW t \in Task, version'[t] = Error, NEW i \in 1..Len(log'),
                        log'[i].task = t, log'[i].topic = "task_completed"
                 PROVE  \E j \in (i + 1)..Len(log') : log'[j].task = t /\ log'[j].topic = "task_failed"
      BY DEF FailedInv
    <2>1. i \in 1..Len(log)
      BY <1>11 DEF Told, Result
    <2>2. version[t] = Error
      BY <1>7, DistinctAssumption
    <2>3. PICK j \in (i + 1)..Len(log) : log[j].task = t /\ log[j].topic = "task_failed"
      BY <2>1, <2>2, <1>1, <1>10 DEF StoreInv, FailedInv
    <2>4. Len(log) \in Nat /\ Len(log') \in Nat
      BY <1>6, <1>10
    <2>5. j \in 1..Len(log) /\ j \in (i + 1)..Len(log')
      BY <2>1, <2>3, <2>4, <1>10
    <2> QED
      BY <2>3, <2>5, <1>10
  <1>20. StoreInv'
    <2>1. \A m \in made' : status'[m[2]] # "ABSENT"
      BY <1>1, <1>2, <1>7 DEF StoreInv, TypeOK
    <2> QED
      BY <2>1, <1>5, <1>16, <1>17, <1>18, <1>19 DEF StoreInv
  <1>21. HandlerInv'
    <2>1. \A r \in 1..count, n \in Node : rows'[r][n] = rows[r][n]
      BY <1>6, <1>12, BoundAssumption DEF Revision
    <2>2. log' = log \/ \E e \in Event : log' = Append(log, e)
      BY <1>9 DEF Told
    <2> QED
      BY <2>1, <2>2, <1>1, <1>2, <1>5, <1>6, <1>8, HandlerStays
  <1>22. RunningInv'
    <2> SUFFICES ASSUME NEW n \in Node, copy[n] # NoRow, copy[n].run = "RUNNING",
                        ~Overtakes(from), from \notin skipped
                 PROVE  HasWork(n)'
      BY <1>2, <1>5, <1>12 DEF RunningInv, HasWork
    <2>1. from = active /\ h.rev # active /\ active \notin overtaken
      BY DEF Overtakes
    <2> DEFINE t == copy[n].task
    <2>2. t \in Task /\ rows'[active'][n].task = t
      BY <1>5, <1>12, <1>15 DEF GoodRow, Exists
    <2>3. ASSUME Runnable(t) PROVE Runnable(rows[active][n].task)'
      BY <2>2, <2>3, <1>7 DEF Runnable
    <2>4. CASE copy[n] = rows[from][n]
      <3>1. HasWork(n) /\ rows[active][n].task = t
        BY <2>1, <2>4, <1>1 DEF RunningInv
      <3> HIDE DEF t
      <3>2. ASSUME Later(t) PROVE Later(rows[active][n].task)'
        <4>1. PICK i \in (handled + 2)..Len(log) : log[i].task = t /\ log[i].topic \in Result
          BY <3>2 DEF Later
        <4>2. /\ handled' = handled /\ handled \in Nat /\ Len(log) \in Nat
              /\ Len(log') \in Nat /\ Len(log') >= Len(log)
          BY <1>2, <1>6, <1>10
        <4>3. i \in 1..Len(log) /\ i \in (handled' + 2)..Len(log')
          BY <4>1, <4>2
        <4> QED
          BY <4>1, <4>3, <2>2, <1>10 DEF Later
      <3>3. ASSUME Current(n, t) PROVE Current(n, rows[active][n].task)'
        <4>1. /\ handled < Len(log) /\ Event1.task = t /\ Event1.topic \in Result
              /\ h.step \in {"idle", "list"}
          BY <3>3, <2>1 DEF Current
        <4>2. handled' < Len(log') /\ handled \in Nat /\ Len(log) \in Nat
          BY <4>1, <1>2, <1>6, <1>10
        <4>3. Event1' = Event1 /\ h' = h
          BY <4>1, <1>2, <1>10
        <4> QED
          BY <4>1, <4>2, <4>3, <2>2 DEF Current
      <3>4. Runnable(t) \/ t \in reused \/ Later(t) \/ Current(n, t)
        BY <3>1, <2>1, <1>2 DEF HasWork
      <3> QED
        BY <3>2, <3>3, <3>4, <2>2, <2>3, <1>2 DEF HasWork
    <2>5. CASE /\ HasTask(from, n) /\ copy[n] = [rows[from][n] EXCEPT !.run = copy[n].run]
               /\ status'[rows[from][n].task] = "PENDING" /\ version'[rows[from][n].task] = Null
      <3>1. rows[from][n].task = t
        BY <2>5, <1>1, <1>2, TaskRow DEF Row
      <3> HIDE DEF t
      <3> QED
        BY <3>1, <2>2, <2>5 DEF HasWork, Runnable
    <2> QED
      BY <2>4, <2>5, <1>4 DEF CopyOf
  <1> QED
    BY <1>14, <1>20, <1>21, <1>22 DEF IInv
-----------------------------------------------------------------------------
(* The theorems. *)

LEMMA InitOK == Init => IInv
  <1> DEFINE t == <<Root, Start>>
  <1> DEFINE first == [dep |-> "FRESH", run |-> "RUNNING", task |-> t, inputs |-> Start]
  <1> DEFINE then == [dep |-> "STALE", run |-> "FAILED", task |-> t, inputs |-> Keep]
  <1> SUFFICES ASSUME Init PROVE IInv
    OBVIOUS
  <1>1. /\ Root \in Node /\ Start \in Value /\ t \in Task /\ MaxRevision \in Nat \ {0}
        /\ 1 \in Revision
    BY PipelineAssumption, BoundAssumption DEF Task, Revision
  <1>2. first \in Row /\ first \in Update /\ then \in Update
    BY <1>1 DEF Row, Update, Dependency, Runtime
  <1>3. PICK failed \in BOOLEAN :
          /\ rows = [r \in Revision |-> [n \in Node |->
                      IF r # 1 \/ n # Root THEN NoRow
                      ELSE IF failed THEN Upsert(first, then) ELSE first]]
          /\ version = [u \in Task |-> IF u = t /\ failed THEN Error ELSE Null]
          /\ reused = IF failed THEN {t} ELSE {}
          /\ sent = {Key("scheduler", 1, Root, first)}
                   \cup IF failed THEN {Key("engine", 1, Root, then)} ELSE {}
          /\ workflow = IF failed THEN "FAILED" ELSE "RUNNING"
    BY DEF Init
  <1>4. /\ parent = [r \in Revision |-> 0] /\ count = 1 /\ active = 1 /\ log = <<>> /\ jobs = {}
        /\ status = [u \in Task |-> IF u = t THEN "PENDING" ELSE "ABSENT"]
        /\ call = [c \in Caller |-> NoCall] /\ handled = 0 /\ h = Idle
        /\ made = {<<"scheduler", t>>}
        /\ skipped = {} /\ overtaken = {} /\ faults = 0
    BY DEF Init
  <1> DEFINE x == IF failed THEN Upsert(first, then) ELSE first
  <1>5. /\ Upsert(first, then) \in Row /\ Upsert(first, then).dep = "STALE"
        /\ Upsert(first, then).run = "FAILED" /\ Upsert(first, then).task = t
        /\ Upsert(first, then).inputs = Start
    <2>1. first # NoRow /\ t # Keep
      BY <1>1, <1>2, RowFacts, TaskFacts
    <2> QED
      BY <2>1, <1>1, <1>2, UpsertFacts
  <1>6. /\ x \in Row /\ x # NoRow /\ x.task = t /\ x.inputs = Start
        /\ x.dep = "STALE" => failed
    BY <1>2, <1>5, RowFacts
  <1>7. \A r \in Revision, n \in Node : rows[r][n] = IF r = 1 /\ n = Root THEN x ELSE NoRow
    BY <1>3
  <1>8. rows \in [Revision -> [Node -> Row \cup {NoRow}]]
    BY <1>3, <1>6
  <1> HIDE DEF x
  <1>9. Exists(t) /\ (failed => t \in reused)
    BY <1>1, <1>3, <1>4 DEF Exists
  <1>10. sent \in SUBSET (Client \X Revision \X Write)
    <2>1. \A c \in Client, w \in Update : Key(c, 1, Root, w) \in Client \X Revision \X Write
      BY <1>1 DEF Key, Write, Update, AsRead
    <2> QED
      BY <2>1, <1>2, <1>3 DEF Client
  <1> HIDE DEF first, then
  <1>11. TypeOK
    <2>1. count \in Revision /\ active \in 1..count /\ handled \in 0..Len(log)
      BY <1>1, <1>4
    <2>2. /\ parent \in [Revision -> 0..MaxRevision] /\ log \in Seq(Event)
          /\ jobs \in SUBSET (Revision \X SUBSET Node)
          /\ version \in [Task -> Value \cup {Null, Error}]
          /\ status \in [Task -> {"ABSENT", "PENDING", "SUCCEEDED", "FAILED"}]
      BY <1>1, <1>3, <1>4
    <2>3. /\ made \in SUBSET (Client \X Task) /\ reused \in SUBSET Task
          /\ workflow \in {"RUNNING", "SUCCEEDED", "FAILED"}
      <3>1. <<"scheduler", t>> \in Client \X Task
        BY <1>1 DEF Client
      <3> HIDE DEF t
      <3> QED
        BY <3>1, <1>1, <1>3, <1>4
    <2>4. /\ call \in [Caller -> Revision \cup {NoCall}] /\ faults \in 0..MaxFault
          /\ skipped \in SUBSET Revision /\ overtaken \in SUBSET Revision /\ h \in Handler
      BY <1>4, IdleFacts, PipelineAssumption
    <2> QED
      BY <2>1, <2>2, <2>3, <2>4, <1>8, <1>10 DEF TypeOK, StoreTypeOK
  <1>12. RowsInv
    BY <1>1, <1>6, <1>7, <1>9, TaskFacts DEF RowsInv, GoodRow
  <1>13. StoreInv
    <2>1. StatusInv
      BY <1>3, <1>4 DEF StatusInv
    <2>2. LogInv /\ FailedInv
      BY <1>4 DEF LogInv, FailedInv
    <2>3. \A m \in made : status[m[2]] # "ABSENT"
      BY <1>1, <1>4
    <2> QED
      BY <2>1, <2>2, <2>3, <1>4, <1>12 DEF StoreInv
  <1>14. HandlerInv
    BY <1>4, IdleFacts DEF HandlerInv, StepInv, CarriesInv, ReadInv, GoodRow
  <1>15. RunningInv
    <2> SUFFICES ASSUME NEW n \in Node, rows[active][n] # NoRow PROVE HasWork(n)
      BY DEF RunningInv
    <2>1. rows[active][n].task = t
      BY <1>1, <1>4, <1>6, <1>7
    <2> QED
      BY <2>1, <1>1, <1>3, <1>4 DEF HasWork, Runnable
  <1> QED
    BY <1>11, <1>13, <1>14, <1>15 DEF IInv

LEMMA StepOK == IInv /\ [Next]_vars => IInv'
  <1> SUFFICES ASSUME IInv, [Next]_vars PROVE IInv'
    OBVIOUS
  <1>1. ASSUME NEW c \in Caller, ReadActive(c) \/ Throw(c) PROVE IInv'
    BY <1>1, Calling
  <1>2. ASSUME NEW c \in Caller, Commit(c) PROVE IInv'
    BY <1>2, Forks
  <1>3. CASE Work
    BY <1>3, Works
  <1>4. CASE EngineNext
    <2>1. CASE TakeCompleted \/ TakeFailed \/ TakePlayer \/ TakeStale
      BY <2>1, TakeUp
    <2>2. CASE PassOver \/ NobodyUses \/ CommitOffset
      BY <2>2, GivingUp
    <2>3. CASE ListActive
      BY <2>3, Listing
    <2>4. CASE ListRecords \/ AbortWorkflow \/ Deliver \/ \E n \in Node : StartTask(n) \/ SkipNode(n)
      BY <2>4, Feeds
    <2>5. CASE CreateNodeTask \/ \E n \in Node : CreateStaleTask(n)
      BY <2>5, Creates
    <2>6. ASSUME NEW n \in Node, MarkStale(n) PROVE IInv'
      BY <2>6, Marks
    <2>7. CASE RecordTask
      BY <2>7, Records
    <2>8. ASSUME NEW n \in Node, FinishNode(n) \/ FailNode(n) PROVE IInv'
      BY <2>8, WritesBack
    <2>9. CASE ResetStale
      BY <2>9, Resets
    <2>10. CASE Freshen
      BY <2>10, Freshens
    <2>11. ASSUME NEW n \in Node, UseTask(n) PROVE IInv'
      BY <2>11, Uses
    <2> QED
      BY <1>4, <2>1, <2>2, <2>3, <2>4, <2>5, <2>6, <2>7, <2>8, <2>9, <2>10, <2>11 DEF EngineNext
  <1>5. CASE HandlerFails \/ Restart
    BY <1>5, Failing
  <1>6. CASE UNCHANGED vars
    <2>1. UNCHANGED <<storeVars, call, handled, h, made, sent, workflow, skipped, reused, overtaken, faults>>
      BY <1>6 DEF vars
    <2>2. TypeOK'
      BY <2>1 DEF IInv, TypeOK, StoreTypeOK, storeVars
    <2>3. HandlerInv'
      BY <2>1, HandlerStays, HandlerTypes DEF IInv, storeVars, Exists
    <2>4. \A n \in Node, t \in Task : Current(n, t) => Current(n, t)'
      BY <2>1 DEF Current, Event1, storeVars
    <2> QED
      BY <2>1, <2>2, <2>3, <2>4, Moving DEF IInv, StoreStays
  <1> QED
    BY <1>1, <1>2, <1>3, <1>4, <1>5, <1>6 DEF Next

(* A node that the active revision shows as running has a task that a worker *)
(* can take up or a result still to be handled (task-update-handler.ts), but *)
(* for the three known exceptions.                                           *)
THEOREM NodesHaveWork == Spec => []RunningNodeHasWork
  <1>1. IInv => RunningNodeHasWork
    <2> SUFFICES ASSUME IInv, NEW n \in Node, rows[active][n] # NoRow, rows[active][n].run = "RUNNING"
                 PROVE  \/ Runnable(rows[active][n].task) \/ UnhandledFor(rows[active][n].task)
                        \/ active \in overtaken \cup skipped \/ rows[active][n].task \in reused
      BY DEF RunningNodeHasWork, IInv
    <2>1. HasWork(n)
      BY DEF IInv, RunningInv
    <2>2. handled \in Nat /\ Len(log) \in Nat
      BY DEF IInv, TypeOK, StoreTypeOK
    <2>3. Later(rows[active][n].task) => UnhandledFor(rows[active][n].task)
      BY <2>2 DEF Later, UnhandledFor, Result
    <2>4. Current(n, rows[active][n].task) => UnhandledFor(rows[active][n].task)
      BY <2>2 DEF Current, UnhandledFor, Result, Event1
    <2> QED
      BY <2>1, <2>3, <2>4 DEF HasWork
  <1> QED
    BY <1>1, InitOK, StepOK, PTL DEF Spec

(* Which revision a handler writes to is fixed when it takes its event or     *)
(* lists the nodes of its task: no other revision is written to but the one a *)
(* fork adds (task-update-handler.ts, mutations.ts).                          *)
THEOREM KeepTheirRevision == Spec => HandlersKeepToTheirRevision
  <1> DEFINE Good == /\ \A r \in Revision : rows'[r] # rows[r] => r = h.rev \/ r = count + 1
                     /\ h'.rev # h.rev => h'.rev \in {0, active, Event1.rev}
  <1>1. IInv /\ [Next]_vars => [Good]_vars
    <2> SUFFICES ASSUME IInv, Next PROVE Good
      OBVIOUS
    <2>1. TypeOK /\ HandlerInv /\ h \in Handler
      BY HandlerTypes DEF IInv
    <2>2. ASSUME NEW c \in Caller, Commit(c) PROVE Good
      <3>1. call[c] \in Revision /\ Fork(call[c]) /\ h' = h
        BY <2>1, <2>2 DEF Commit, TypeOK, engineVars
      <3>2. Forked(call[c])
        BY <3>1, ForkForm DEF IInv
      <3> QED
        BY <3>1, <3>2, <2>1, HandlerTypes DEF Forked, ForkTo
    <2>3. ASSUME rows' = rows, h' = h PROVE Good
      BY <2>3
    <2>4. ASSUME rows' = rows, \/ h' = Idle \/ h'.rev \in {h.rev, active, Event1.rev} PROVE Good
      BY <2>4, IdleFacts
    <2>5. ASSUME NEW k, NEW ws, DOMAIN ws \subseteq Node, WriteNodes(k, h.rev, ws), h'.rev = h.rev PROVE Good
      BY <2>5, <2>1, HandlerTypes DEF WriteNodes, UpdateNodeStates
    <2>6. ASSUME NEW c \in Caller, ReadActive(c) \/ Throw(c) PROVE Good
      BY <2>3, <2>6 DEF ReadActive, Throw, storeVars, engineVars
    <2>7. CASE Work
      BY <2>3, <2>7 DEF Work, ReportTask, engineVars
    <2>8. CASE HandlerFails \/ Restart
      BY <2>4, <2>8 DEF HandlerFails, Restart, storeVars
    <2>9. CASE EngineNext
      <3>1. CASE TakeCompleted \/ TakeFailed \/ TakePlayer \/ TakeStale
        BY <3>1, <2>4, IdleFacts
           DEF TakeCompleted, TakeFailed, TakePlayer, TakeStale, OnlyHandler, storeVars, Handler
      <3>2. CASE PassOver \/ NobodyUses \/ CommitOffset
        BY <3>2, <2>4 DEF PassOver, NobodyUses, CommitOffset, Done, OnlyHandler, storeVars
      <3>3. CASE ListActive
        BY <3>3, <2>1, <2>4 DEF ListActive, OnlyHandler, storeVars, Handler
      <3>4. CASE ListRecords \/ AbortWorkflow \/ Deliver
        BY <3>4, <2>1, <2>4 DEF ListRecords, AbortWorkflow, Deliver, Fed, OnlyHandler, storeVars, Handler
      <3>5. ASSUME NEW n \in Node, StartTask(n) \/ SkipNode(n) PROVE Good
        BY <3>5, <2>1, <2>4 DEF StartTask, SkipNode, Fed, OnlyHandler, storeVars, Handler
      <3>6. CASE CreateNodeTask
        BY <3>6, <2>1, <2>4 DEF CreateNodeTask, CreateTask, Handler
      <3>7. ASSUME NEW n \in Node, CreateStaleTask(n) PROVE Good
        BY <3>7, <2>1, <2>4 DEF CreateStaleTask, CreateTask, Freshening, Handler
      <3>13. ASSUME NEW n \in Node, UseTask(n) PROVE Good
        BY <3>13, <2>1, <2>4 DEF UseTask, Freshening, OnlyHandler, storeVars, Handler
      <3>8. ASSUME NEW n \in Node, MarkStale(n) PROVE Good
        <4>1. h'.rev = h.rev
          BY <3>8, <2>1 DEF MarkStale, Fed, Handler
        <4> QED
          BY <3>8, <4>1, <2>5 DEF MarkStale
      <3>9. CASE RecordTask
        <4>1. h'.rev = h.rev /\ h.node \in Node
          BY <3>9, <2>1 DEF RecordTask, Handler
        <4> QED
          BY <3>9, <4>1, <2>5 DEF RecordTask
      <3>10. ASSUME NEW n \in Node, NEW run, WriteBack(n, run) PROVE Good
        <4>1. h'.rev = h.rev
          BY <3>10, <2>1 DEF WriteBack, Handler
        <4> QED
          BY <3>10, <4>1, <2>5 DEF WriteBack
      <3>11. CASE ResetStale
        <4>1. h'.rev = h.rev /\ h.stale \subseteq Node
          BY <3>11, <2>1 DEF ResetStale, Handler
        <4> QED
          BY <3>11, <4>1, <2>5 DEF ResetStale
      <3>12. CASE Freshen
        <4>1. h'.rev = h.rev /\ h.node \in Node
          BY <3>12, <2>1 DEF Freshen, Handler
        <4> QED
          BY <3>12, <4>1, <2>5 DEF Freshen
      <3> QED
        BY <2>9, <3>1, <3>2, <3>3, <3>4, <3>5, <3>6, <3>7, <3>8, <3>9, <3>10, <3>11, <3>12,
           <3>13 DEF EngineNext, FinishNode, FailNode
    <2> QED
      BY <2>2, <2>6, <2>7, <2>8, <2>9 DEF Next
  <1> QED
    BY <1>1, InitOK, StepOK, PTL DEF Spec, HandlersKeepToTheirRevision

-----------------------------------------------------------------------------
(* What a submission's handler owes the nodes behind the player's node.      *)
NamedFor(n, x) == x # NoRow /\ x.task # Null => x.task[1] = n
NamesInv ==
  /\ \A r \in Revision : \A n \in Node : NamedFor(n, rows[r][n])
  /\ \A n \in Node : NamedFor(n, h.snap[n])
  /\ h.step \in {"record", "freshen"} => h.made[1] = h.node
BehindInv ==
  /\ h.step = "records" => h.task # Null
  /\ h.todo # {} => h.todo \subseteq Succ[h.task[1]]
  /\ h.step \in {"create", "record"} => h.node \in Succ[h.task[1]]
PlayerInv == h # Idle /\ Event1.topic = "task_player_submitted" =>
  /\ h.step \in {"records", "feed", "create", "record"} /\ ~h.failed /\ h.own = {} /\ h.stale = {}
  /\ h.rev = Event1.rev /\ h.task = Event1.task /\ h.value = Event1.value
Reached(m) == rows[h.rev][m] # NoRow /\ rows[h.rev][m].inputs = h.value
Carried(m) ==
  \/ m = Output \/ m \in h.todo \/ (h.step \in {"create", "record"} /\ h.node = m)
  \/ h.rev \in skipped \/ Reached(m)
Begun == h.step \in {"create", "record"} \/ h.todo # {} \/ NodesOfTask(h.rev, h.task) # {}
CarryInv ==
  h # Idle /\ Event1.topic = "task_player_submitted" /\ h.step # "records" /\ Begun =>
    \A m \in Succ[h.task[1]] : Carried(m)
SubmitInv == NamesInv /\ BehindInv /\ PlayerInv /\ CarryInv

(* A task belongs to the node it names.                                      *)
LEMMA OnlyItsNode ==
  ASSUME IInv, NamesInv, NEW r \in Revision, NEW t \in Task
  PROVE  \A n \in NodesOfTask(r, t) : n = t[1]
  <1>1. t # Null
    BY TaskFacts
  <1> QED
    BY <1>1 DEF NodesOfTask, NamesInv, NamedFor

LEMMA RowsNamed ==
  ASSUME TypeOK, NamesInv, NEW c \in Client, h.rev \in Revision, NEW ws, DOMAIN ws \subseteq Node,
         WriteNodes(c, h.rev, ws),
         \A n \in DOMAIN ws : /\ ws[n] \in Update /\ ws[n].task # Keep
                              /\ ws[n].task # Null => ws[n].task[1] = n
  PROVE  \A r \in Revision : \A n \in Node : NamedFor(n, rows[r][n])'
  <1> DEFINE r == h.rev
  <1>1. rows \in [Revision -> [Node -> Row \cup {NoRow}]]
    BY HandlerTypes
  <1>2. /\ \A q \in Revision \ {r} : rows'[q] = rows[q]
        /\ \A n \in Node : rows'[r][n] = rows[r][n]
             \/ (n \in DOMAIN ws /\ rows'[r][n] = Upsert(rows[r][n], ws[n]))
    BY Written
  <1>3. ASSUME NEW n \in DOMAIN ws PROVE NamedFor(n, Upsert(rows[r][n], ws[n]))
    <2>1. rows[r][n] \in Row \cup {NoRow} /\ ws[n] \in Update
      BY <1>1
    <2>2. Upsert(rows[r][n], ws[n]).task = ws[n].task
      BY <2>1, UpsertFacts
    <2> QED
      BY <2>2 DEF NamedFor
  <1>4. \A q \in Revision : \A n \in Node : NamedFor(n, rows[q][n])
    BY DEF NamesInv
  <1>5. ASSUME NEW q \in Revision, NEW n \in Node PROVE NamedFor(n, rows'[q][n])
    <2>1. CASE rows'[q][n] = rows[q][n]
      BY <2>1, <1>4
    <2>2. CASE q = r /\ n \in DOMAIN ws /\ rows'[r][n] = Upsert(rows[r][n], ws[n])
      BY <2>2, <1>3
    <2> QED
      BY <2>1, <2>2, <1>2
  <1> QED
    BY <1>5 DEF NamedFor

(* What others do leaves a handler's revision alone.                         *)
LEMMA SubmitOutside ==
  ASSUME IInv, SubmitInv, h' = h, handled' = handled, skipped \subseteq skipped',
         log' = log \/ \E e \in Event : log' = Append(log, e),
         \A r \in 1..count : rows'[r] = rows[r],
         \A r \in Revision : \A n \in Node : NamedFor(n, rows'[r][n])
  PROVE  SubmitInv'
  <1>1. TypeOK /\ StepInv /\ (h # Idle => handled < Len(log) /\ Event1' = Event1)
    <2>1. TypeOK /\ StepInv /\ log \in Seq(Event) /\ handled \in 0..Len(log)
      BY DEF IInv, HandlerInv, TypeOK, StoreTypeOK
    <2>2. CASE log' = log
      BY <2>1, <2>2 DEF Event1, StepInv
    <2>3. ASSUME NEW e \in Event, log' = Append(log, e) PROVE h # Idle => Event1' = Event1
      BY <2>1, <2>3, Appended DEF StepInv
    <2> QED
      BY <2>1, <2>2, <2>3 DEF StepInv
  <1>2. NamesInv'
    BY DEF SubmitInv, NamesInv, NamedFor
  <1>3. BehindInv'
    BY DEF SubmitInv, BehindInv
  <1>4. PlayerInv'
    BY <1>1 DEF SubmitInv, PlayerInv
  <1>5. CarryInv'
    <2> SUFFICES ASSUME h # Idle, Event1.topic = "task_player_submitted", h.step # "records", Begun',
                        NEW m \in Succ[h.task[1]]
                 PROVE  Carried(m)'
      BY <1>1 DEF CarryInv
    <2>1. h.step \notin {"idle", "list"}
      BY <1>1, IdleFacts DEF SubmitInv, PlayerInv
    <2>2. rows'[h.rev] = rows[h.rev]
      BY <1>1, <2>1 DEF StepInv
    <2>3. Begun
      BY <2>2 DEF Begun, NodesOfTask
    <2>4. Carried(m)
      BY <2>3 DEF SubmitInv, CarryInv
    <2> QED
      BY <2>2, <2>4 DEF Carried, Reached
  <1> QED
    BY <1>2, <1>3, <1>4, <1>5 DEF SubmitInv

(* Callers and workers: a fork's rows are those of its parent but for a run   *)
(* state.                                                                     *)
LEMMA SubmitCallers ==
  ASSUME IInv, SubmitInv,
         Work \/ \E c \in Caller : ReadActive(c) \/ Throw(c) \/ Commit(c)
  PROVE  SubmitInv'
  <1>1. TypeOK /\ StoreInv /\ h \in Handler /\ count \in Nat
    BY HandlerTypes DEF IInv
  <1>2. \A r \in Revision : \A n \in Node : NamedFor(n, rows[r][n])
    BY DEF SubmitInv, NamesInv
  <1>3. CASE \E c \in Caller : ReadActive(c) \/ Throw(c)
    BY <1>2, <1>3, SubmitOutside DEF ReadActive, Throw, storeVars, engineVars
  <1>4. CASE Work
    <2>1. PICK t \in Task : \E v \in Results[t[1]] : ReportTask(t, v)
      BY <1>4 DEF Work
    <2>2. PICK v \in Results[t[1]] : ReportTask(t, v)
      BY <2>1
    <2> DEFINE e == [topic |-> IF v = Error THEN "task_failed" ELSE "task_completed", rev |-> 0,
                     task |-> t, value |-> Null, targets |-> {}]
    <2>3. e \in Event /\ log' = Append(log, e)
      BY <2>2 DEF Event, Topic, ReportTask, Announce
    <2>4. rows' = rows /\ skipped' = skipped /\ h' = h /\ handled' = handled
      BY <1>4, <2>2 DEF Work, ReportTask, engineVars
    <2> HIDE DEF e
    <2> QED
      BY <1>2, <2>3, <2>4, SubmitOutside
  <1>5. ASSUME NEW c \in Caller, Commit(c) PROVE SubmitInv'
    <2> DEFINE from == call[c]
    <2>1. from \in Revision /\ Fork(from) /\ h' = h /\ handled' = handled
      BY <1>1, <1>5 DEF Commit, TypeOK, engineVars
    <2>2. skipped \subseteq skipped'
      BY <1>5 DEF Commit
    <2> HIDE DEF from
    <2>3. Forked(from)
      BY <2>1, <1>1, ForkForm
    <2>4. PICK copy \in [Node -> Row \cup {NoRow}] : ForkTo(from, copy) /\ CopyOf(from, copy)
      BY <2>3 DEF Forked
    <2>5. rows' = [rows EXCEPT ![count + 1] = copy] /\ count + 1 \in Revision
      BY <2>4, <1>1, BoundAssumption DEF ForkTo, Revision
    <2>10. log' = log \/ \E e \in Event : log' = Append(log, e)
      BY <2>3 DEF Forked, Told
    <2>6. rows \in [Revision -> [Node -> Row \cup {NoRow}]]
      BY <1>1, HandlerTypes
    <2>7. ASSUME NEW n \in Node PROVE NamedFor(n, copy[n])
      <3>1. NamedFor(n, rows[from][n])
        BY <1>2, <2>1
      <3>2. CASE copy[n] = rows[from][n]
        BY <3>1, <3>2
      <3>3. CASE HasTask(from, n) /\ copy[n] = [rows[from][n] EXCEPT !.run = copy[n].run]
        <4>1. rows[from][n] \in Row
          BY <3>3, <2>1, <1>1, TaskRow
        <4>2. copy[n].task = rows[from][n].task
          BY <3>3, <4>1 DEF Row
        <4> QED
          BY <3>1, <3>3, <4>2 DEF NamedFor, HasTask
      <3> QED
        BY <3>2, <3>3, <2>4 DEF CopyOf
    <2>8. \A r \in Revision : \A n \in Node : NamedFor(n, rows'[r][n])
      BY <1>2, <2>5, <2>6, <2>7
    <2>9. \A r \in 1..count : rows'[r] = rows[r]
      BY <1>1, <2>5, <2>6, HandlerTypes
    <2> QED
      BY <2>1, <2>2, <2>8, <2>9, <2>10, SubmitOutside
  <1> QED
    BY <1>3, <1>4, <1>5

(* A step of the handler that writes no node state.                          *)
LEMMA SubmitQuiet ==
  ASSUME IInv, SubmitInv, rows' = rows, log' = log, skipped' = skipped, handled' = handled,
         h'.rev = h.rev, h'.task = h.task, h'.value = h.value,
         h'.step \in {"feed", "create", "record"}, h.step \in {"records", "feed", "create"},
         h'.failed = h.failed, h'.own = h.own, h'.stale = h.stale, h'.snap = h.snap,
         h'.step = "record" => h'.made[1] = h'.node,
         h'.todo # {} => h'.todo \subseteq Succ[h'.task[1]],
         h'.step \in {"create", "record"} => h'.node \in Succ[h'.task[1]],
         Event1.topic = "task_player_submitted" /\ Begun' =>
           \A m \in Succ[h'.task[1]] : Carried(m)'
  PROVE  SubmitInv'
  <1>1. Event1' = Event1 /\ h # Idle
    BY IdleFacts DEF Event1
  <1>2. NamesInv'
    BY DEF SubmitInv, NamesInv, NamedFor
  <1>3. BehindInv'
    BY DEF BehindInv
  <1>4. PlayerInv'
    BY <1>1 DEF SubmitInv, PlayerInv
  <1>5. CarryInv'
    BY <1>1 DEF SubmitInv, PlayerInv, CarryInv
  <1> QED
    BY <1>2, <1>3, <1>4, <1>5 DEF SubmitInv

(* The handler has finished, or failed, or not begun.                        *)
LEMMA SubmitIdle ==
  ASSUME IInv, SubmitInv, h' = Idle, rows' = rows
  PROVE  SubmitInv'
  <1>1. NamesInv'
    BY IdleFacts DEF SubmitInv, NamesInv, NamedFor
  <1>2. BehindInv'
    BY IdleFacts DEF BehindInv
  <1> QED
    BY <1>1, <1>2 DEF SubmitInv, PlayerInv, CarryInv

LEMMA SubmitTakeUp ==
  ASSUME IInv, SubmitInv, TakeCompleted \/ TakeFailed \/ TakePlayer \/ TakeStale
  PROVE  SubmitInv'
  <1>1. /\ h = Idle /\ handled < Len(log) /\ handled' = handled /\ TypeOK /\ StoreInv
        /\ log' = log /\ rows' = rows /\ Event1' = Event1
    BY DEF IInv, TakeCompleted, TakeFailed, TakePlayer, TakeStale, Free, OnlyHandler, storeVars, Event1
  <1>2. Event1.topic \in Given => Exists(Event1.task)
    BY <1>1, EventFacts
  <1>3. Idle \in Handler /\ Idle.todo = {} /\ Idle.own = {} /\ Idle.stale = {}
        /\ \A n \in Node : Idle.snap[n] = NoRow
    BY IdleFacts
  <1>4. /\ h'.todo = {} /\ h'.snap = Idle.snap
        /\ h'.step \in {"list", "records", "revision"}
        /\ h'.step = "records" => Event1.topic \in Given /\ h'.task = Event1.task
        /\ Event1.topic = "task_player_submitted" =>
             /\ h'.step = "records" /\ ~h'.failed /\ h'.own = {} /\ h'.stale = {}
             /\ h'.rev = Event1.rev /\ h'.task = Event1.task /\ h'.value = Event1.value
    <2>1. CASE TakeCompleted
      BY <2>1, <1>3 DEF TakeCompleted, Handler
    <2>2. CASE TakeFailed
      BY <2>2, <1>3 DEF TakeFailed, Handler
    <2>3. CASE TakePlayer
      BY <2>3, <1>3 DEF TakePlayer, Handler, Given
    <2>4. CASE TakeStale
      BY <2>4, <1>3 DEF TakeStale, Handler
    <2> QED
      BY <2>1, <2>2, <2>3, <2>4
  <1>5. NamesInv'
    BY <1>1, <1>3, <1>4 DEF SubmitInv, NamesInv, NamedFor
  <1>6. BehindInv'
    BY <1>2, <1>4, TaskFacts DEF BehindInv, Exists
  <1>7. PlayerInv'
    BY <1>1, <1>4 DEF PlayerInv
  <1>8. CarryInv'
    BY <1>1, <1>4 DEF CarryInv
  <1> QED
    BY <1>5, <1>6, <1>7, <1>8 DEF SubmitInv

LEMMA SubmitListing ==
  ASSUME IInv, SubmitInv, ListActive
  PROVE  SubmitInv'
  <1>1. /\ h \in Handler /\ h.step = "list" /\ rows' = rows /\ log' = log /\ handled' = handled
        /\ h' = [h EXCEPT !.step = "records", !.rev = active, !.snap = rows[active],
                          !.own = NodesOfTask(active, h.task)]
    BY DEF ListActive, OnlyHandler, storeVars, IInv, TypeOK
  <1>2. active \in Revision /\ StepInv /\ TypeOK /\ StoreInv
    BY BoundAssumption DEF IInv, HandlerInv, TypeOK, StoreTypeOK, Revision
  <1>3. Exists(h.task) /\ Event1.topic # "task_player_submitted" /\ Event1' = Event1
    <2>1. ItsEvent /\ handled < Len(log)
      BY <1>1, <1>2, IdleFacts DEF StepInv
    <2> QED
      BY <2>1, <1>1, <1>2, EventFacts DEF ItsEvent, Result, Event1
  <1>4. h'.step = "records" /\ h'.snap = rows[active] /\ h'.todo = h.todo /\ h'.task = h.task
    BY <1>1 DEF Handler
  <1>5. NamesInv'
    BY <1>1, <1>2, <1>4 DEF SubmitInv, NamesInv, NamedFor
  <1>6. BehindInv'
    BY <1>3, <1>4, TaskFacts DEF SubmitInv, BehindInv, Exists
  <1> QED
    BY <1>3, <1>5, <1>6 DEF SubmitInv, PlayerInv, CarryInv

LEMMA SubmitRecords ==
  ASSUME IInv, SubmitInv, ListRecords \/ AbortWorkflow
  PROVE  SubmitInv'
  <1>1. /\ TypeOK /\ h \in Handler /\ h.step = "records" /\ rows' = rows /\ log' = log
        /\ skipped' = skipped /\ handled' = handled
    BY DEF ListRecords, AbortWorkflow, OnlyHandler, storeVars, IInv, TypeOK
  <1>2. h.task \in Task /\ h.rev \in Revision /\ h.todo = {}
    BY <1>1, HandlerTypes, IdleFacts DEF SubmitInv, BehindInv, IInv, HandlerInv, StepInv
  <1>3. CASE ListRecords
    <2> DEFINE todo == UNION {Succ[n] : n \in NodesOfTask(h.rev, h.task)}
    <2>1. h' = [h EXCEPT !.step = "feed", !.todo = todo]
      BY <1>3 DEF ListRecords
    <2>2. \A n \in NodesOfTask(h.rev, h.task) : n = h.task[1]
      BY <1>2, OnlyItsNode DEF SubmitInv
    <2>3. /\ todo \subseteq Succ[h.task[1]]
          /\ todo # {} => NodesOfTask(h.rev, h.task) # {}
          /\ NodesOfTask(h.rev, h.task) # {} => todo = Succ[h.task[1]]
      BY <2>2
    <2> HIDE DEF todo
    <2>4. /\ h'.step = "feed" /\ h'.todo = todo /\ h'.rev = h.rev /\ h'.task = h.task
          /\ h'.value = h.value /\ h'.failed = h.failed /\ h'.own = h.own /\ h'.stale = h.stale
          /\ h'.snap = h.snap
      BY <1>1, <2>1 DEF Handler
    <2>5. Begun' => \A m \in Succ[h'.task[1]] : Carried(m)'
      BY <1>1, <2>3, <2>4 DEF Begun, NodesOfTask, Carried
    <2> QED
      BY <1>1, <2>3, <2>4, <2>5, SubmitQuiet
  <1>4. CASE AbortWorkflow
    <2>1. h' = [h EXCEPT !.step = "feed"] /\ h.failed
      BY <1>4 DEF AbortWorkflow
    <2>2. /\ h'.step = "feed" /\ h'.todo = h.todo /\ h'.rev = h.rev /\ h'.task = h.task
          /\ h'.value = h.value /\ h'.failed = h.failed /\ h'.own = h.own /\ h'.stale = h.stale
          /\ h'.snap = h.snap
      BY <1>1, <2>1 DEF Handler
    <2>3. Event1.topic # "task_player_submitted"
      BY <1>1, <2>1, IdleFacts DEF SubmitInv, PlayerInv
    <2> QED
      BY <1>1, <1>2, <2>2, <2>3, SubmitQuiet
  <1> QED
    BY <1>3, <1>4

(* Each node behind is passed by because it has the input, or taken up.      *)
LEMMA SubmitFeeds ==
  ASSUME IInv, SubmitInv, Deliver \/ \E n \in Node : StartTask(n) \/ SkipNode(n)
  PROVE  SubmitInv'
  <1>1. /\ h \in Handler /\ h.step = "feed" /\ rows' = rows /\ log' = log /\ TypeOK
        /\ skipped' = skipped /\ handled' = handled /\ h.rev \in Revision
        /\ h.todo \subseteq Succ[h.task[1]] /\ StoreInv /\ h.todo # {}
    <2>1. TypeOK /\ StepInv /\ StoreInv
      BY DEF IInv, HandlerInv
    <2>2. h.step = "feed" /\ h.todo # {}
      BY DEF Deliver, StartTask, SkipNode, Feeding
    <2> QED
      BY <2>1, <2>2, HandlerTypes, IdleFacts
         DEF Deliver, StartTask, SkipNode, OnlyHandler, storeVars, StepInv, SubmitInv, BehindInv
  <1>2. Event1.topic = "task_player_submitted" => \A m \in Succ[h.task[1]] : Carried(m)
    BY <1>1, IdleFacts DEF SubmitInv, CarryInv, Begun
  <1> DEFINE Passed(n) ==
          /\ h'.rev = h.rev /\ h'.task = h.task /\ h'.value = h.value /\ h'.failed = h.failed
          /\ h'.own = h.own /\ h'.stale = h.stale /\ h'.snap = h.snap /\ h'.todo = h.todo \ {n}
          /\ \/ h'.step = "feed" /\ (n = Output \/ Reached(n))
             \/ h'.step = "create" /\ h'.node = n
  <1>3. PICK n \in h.todo : Passed(n)
    <2>1. CASE Deliver
      <3>1. h' = [h EXCEPT !.todo = @ \ {Output}] /\ Output \in h.todo
        BY <2>1 DEF Deliver, Feeding, Fed
      <3> QED
        BY <3>1, <1>1 DEF Handler
    <2>2. ASSUME NEW n \in Node, StartTask(n) PROVE n \in h.todo /\ Passed(n)
      <3>1. h' = [h EXCEPT !.step = "create", !.todo = @ \ {n}, !.node = n] /\ n \in h.todo
        BY <2>2 DEF StartTask, Feeding
      <3>2. /\ h'.step = "create" /\ h'.todo = h.todo \ {n} /\ h'.rev = h.rev /\ h'.task = h.task
            /\ h'.value = h.value /\ h'.failed = h.failed /\ h'.own = h.own /\ h'.stale = h.stale
            /\ h'.snap = h.snap /\ h'.node = n
        BY <1>1, <3>1 DEF Handler
      <3> QED
        BY <3>1, <3>2
    <2>3. ASSUME NEW n \in Node, SkipNode(n) PROVE n \in h.todo /\ Passed(n)
      <3>1. h' = [h EXCEPT !.todo = @ \ {n}] /\ n \in h.todo /\ ~FirstRun(n) /\ SameInputs(n)
        BY <2>3 DEF SkipNode, Feeding, Fed
      <3>2. rows[h.rev][n] # NoRow /\ AsRead(rows[h.rev][n].inputs) = h.value
        BY <3>1 DEF FirstRun, SameInputs, RowOf
      <3>3. rows[h.rev][n].inputs \in Value \cup {Null}
        BY <3>2, <1>1 DEF StoreInv, RowsInv, GoodRow
      <3>4. Reached(n)
        BY <3>2, <3>3, ReadFacts DEF Reached
      <3>5. /\ h'.step = "feed" /\ h'.todo = h.todo \ {n} /\ h'.rev = h.rev /\ h'.task = h.task
            /\ h'.value = h.value /\ h'.failed = h.failed /\ h'.own = h.own /\ h'.stale = h.stale
            /\ h'.snap = h.snap
        BY <1>1, <3>1 DEF Handler
      <3> QED
        BY <3>1, <3>4, <3>5
    <2> QED
      BY <2>1, <2>2, <2>3
  <1>4. ASSUME NEW m, Carried(m) PROVE Carried(m)'
    BY <1>1, <1>3, <1>4 DEF Carried, Reached
  <1> QED
    BY <1>1, <1>2, <1>3, <1>4, SubmitQuiet

(* A step of a handler whose event is no submission.                         *)
LEMMA SubmitOther ==
  ASSUME NamesInv', BehindInv', handled' = handled, log' = log,
         Event1.topic # "task_player_submitted"
  PROVE  SubmitInv'
  BY DEF SubmitInv, PlayerInv, CarryInv, Event1

(* Tasks are made for the node they name.                                    *)
LEMMA SubmitCreates ==
  ASSUME IInv, SubmitInv, CreateNodeTask \/ \E n \in Node : CreateStaleTask(n) \/ UseTask(n)
  PROVE  SubmitInv'
  <1>1. TypeOK /\ StepInv /\ ReadInv /\ h \in Handler
    BY HandlerTypes DEF IInv, HandlerInv
  <1>2. CASE CreateNodeTask
    <2>1. /\ h.step = "create" /\ h' = [h EXCEPT !.step = "record", !.made = <<h.node, h.value>>]
          /\ rows' = rows /\ log' = log /\ skipped' = skipped /\ handled' = handled
      BY <1>2 DEF CreateNodeTask, CreateTask
    <2>2. /\ h'.step = "record" /\ h'.made[1] = h'.node /\ h'.node = h.node /\ h'.todo = h.todo
          /\ h'.rev = h.rev /\ h'.task = h.task /\ h'.value = h.value /\ h'.failed = h.failed
          /\ h'.own = h.own /\ h'.stale = h.stale /\ h'.snap = h.snap
      BY <1>1, <2>1 DEF Handler
    <2>3. h # Idle /\ h.node \in Succ[h.task[1]] /\ (h.todo # {} => h.todo \subseteq Succ[h.task[1]])
      BY <2>1, IdleFacts DEF SubmitInv, BehindInv
    <2>4. Event1.topic = "task_player_submitted" => \A m \in Succ[h.task[1]] : Carried(m)
      BY <2>1, <2>3 DEF SubmitInv, CarryInv, Begun
    <2>5. ASSUME NEW m, Carried(m) PROVE Carried(m)'
      BY <2>1, <2>2, <2>5 DEF Carried, Reached
    <2> QED
      BY <2>1, <2>2, <2>3, <2>4, <2>5, SubmitQuiet
  <1>3. ASSUME NEW n \in Node, CreateStaleTask(n) \/ UseTask(n) PROVE SubmitInv'
    <2>1. /\ h.step = "feed" /\ h.todo = {} /\ n \in h.stale
          /\ rows' = rows /\ log' = log /\ handled' = handled
      BY <1>3 DEF CreateStaleTask, UseTask, NextStale, CreateTask, OnlyHandler, storeVars
    <2>2. Event1.topic # "task_player_submitted"
      BY <2>1, IdleFacts DEF SubmitInv, PlayerInv
    <2>3. PICK t : Freshening(n, t) /\ t[1] = n
      <3>1. CASE CreateStaleTask(n)
        BY <3>1 DEF CreateStaleTask
      <3>2. CASE UseTask(n)
        <4>1. h.snap[n] # NoRow /\ GoodRow(h.snap[n]) /\ AsRead(h.snap[n].task) # Null
          BY <3>2, <2>1, <1>1 DEF ReadInv, UseTask
        <4>2. h.snap[n].task # Null
          BY <4>1, ReadFacts
        <4> QED
          BY <3>2, <4>1, <4>2 DEF UseTask, SubmitInv, NamesInv, NamedFor
      <3> QED
        BY <1>3, <3>1, <3>2
    <2>4. h'.step = "freshen" /\ h'.node = n /\ h'.made = t /\ h'.snap = h.snap /\ h'.todo = {}
      BY <2>1, <2>3, <1>1 DEF Freshening, Handler
    <2>5. NamesInv'
      BY <2>1, <2>3, <2>4 DEF SubmitInv, NamesInv, NamedFor
    <2>6. BehindInv'
      BY <2>4 DEF BehindInv
    <2> QED
      BY <2>1, <2>2, <2>5, <2>6, SubmitOther
  <1> QED
    BY <1>2, <1>3

(* Writing the value to a node carries it there, and takes it nowhere else.   *)
LEMMA CarriedOn ==
  ASSUME TypeOK, h.rev \in Revision, NEW n \in Node, NEW w \in Update, NEW ws,
         ws = [m \in {n} |-> w], w.inputs = h.value, h.value \in Value,
         WriteNodes("scheduler", h.rev, ws), h'.rev = h.rev, h'.value = h.value,
         h.todo \ {n} \subseteq h'.todo, h.step \in {"create", "record"} => h.node = n
  PROVE  \A m \in Node \cup {Output} : Carried(m) => Carried(m)'
  <1>1. DOMAIN ws = {n} /\ ws[n] = w /\ w.inputs # Keep
    BY DistinctAssumption
  <1>2. /\ \A m \in Node : rows'[h.rev][m] = rows[h.rev][m] \/ m = n
        /\ rows'[h.rev][n] = Upsert(rows[h.rev][n], w) \/ h.rev \in skipped'
        /\ skipped \subseteq skipped'
    BY <1>1, Written DEF Client
  <1>3. Upsert(rows[h.rev][n], w) # NoRow /\ Upsert(rows[h.rev][n], w).inputs = h.value
    <2>1. rows[h.rev][n] \in Row \cup {NoRow}
      BY HandlerTypes
    <2> QED
      BY <2>1, <1>1, UpsertFacts, RowFacts
  <1>4. Carried(n)'
    BY <1>2, <1>3 DEF Carried, Reached
  <1>5. ASSUME NEW m \in Node \ {n}, Carried(m) PROVE Carried(m)'
    BY <1>2, <1>5 DEF Carried, Reached
  <1>6. Carried(Output)'
    BY DEF Carried
  <1> QED
    BY <1>4, <1>5, <1>6

LEMMA SubmitMarks ==
  ASSUME IInv, SubmitInv, RecordTask \/ \E n \in Node : MarkStale(n)
  PROVE  SubmitInv'
  <1>1. TypeOK /\ StepInv /\ CarriesInv /\ h \in Handler /\ h.node \in Node
    BY HandlerTypes DEF IInv, HandlerInv
  <1>2. /\ h # Idle /\ h.rev \in 1..count /\ h.rev \in Revision /\ h.value \in Value
        /\ h.step \in {"record", "feed"} /\ (h.step = "record" => h.made \in Task)
    BY <1>1, HandlerTypes, IdleFacts
       DEF RecordTask, MarkStale, Feeding, StepInv, CarriesInv, Exists
  <1> DEFINE Wrote(n, w) ==
          /\ WriteNodes("scheduler", h.rev, [m \in {n} |-> w])
          /\ w.inputs = h.value /\ w.task # Keep /\ (w.task # Null => w.task[1] = n)
          /\ h'.step = "feed" /\ h'.rev = h.rev /\ h'.task = h.task /\ h'.value = h.value
          /\ h'.failed = h.failed /\ h'.own = h.own /\ h'.stale = h.stale /\ h'.snap = h.snap
          /\ h.todo \ {n} \subseteq h'.todo /\ h'.todo \subseteq h.todo
          /\ h.todo # {} \/ h.step = "record"
          /\ h.step = "record" => h.node = n
  <1>3. PICK n \in Node, w \in Update : Wrote(n, w)
    <2>1. CASE RecordTask
      <3> DEFINE w == [dep |-> "FRESH", run |-> RuntimeOf(h.made), task |-> h.made, inputs |-> h.value]
      <3>1. /\ h.step = "record" /\ WriteNodes("scheduler", h.rev, [m \in {h.node} |-> w])
            /\ h' = [h EXCEPT !.step = "feed", !.made = Null]
        BY <2>1 DEF RecordTask
      <3>2. /\ h.made \in Task /\ h.made[1] = h.node
            /\ RuntimeOf(h.made) \in Runtime
        BY <3>1, <1>2 DEF SubmitInv, NamesInv, RuntimeOf, Runtime
      <3>3. w \in Update /\ w.inputs = h.value /\ w.task = h.made
        BY <3>2, <1>2 DEF Update, Dependency
      <3> HIDE DEF w
      <3>4. /\ h'.step = "feed" /\ h'.rev = h.rev /\ h'.task = h.task /\ h'.value = h.value
            /\ h'.failed = h.failed /\ h'.own = h.own /\ h'.stale = h.stale /\ h'.snap = h.snap
            /\ h'.todo = h.todo
        BY <3>1, <1>1 DEF Handler
      <3> QED
        BY <3>1, <3>2, <3>3, <3>4, <1>1, TaskFacts
    <2>2. ASSUME NEW n \in Node, MarkStale(n) PROVE \E w \in Update : Wrote(n, w)
      <3> DEFINE w == [dep |-> "STALE", run |-> "IDLE", task |-> Null, inputs |-> h.value]
      <3>1. /\ h.step = "feed" /\ n \in h.todo /\ WriteNodes("scheduler", h.rev, [m \in {n} |-> w])
            /\ h' = [h EXCEPT !.todo = @ \ {n}]
        BY <2>2 DEF MarkStale, Feeding, Fed
      <3>2. w \in Update /\ w.inputs = h.value /\ w.task = Null
        BY <1>2 DEF Update, Dependency, Runtime
      <3> HIDE DEF w
      <3>3. /\ h'.step = "feed" /\ h'.rev = h.rev /\ h'.task = h.task /\ h'.value = h.value
            /\ h'.failed = h.failed /\ h'.own = h.own /\ h'.stale = h.stale /\ h'.snap = h.snap
            /\ h'.todo = h.todo \ {n}
        BY <3>1, <1>1 DEF Handler
      <3> QED
        BY <3>1, <3>2, <3>3, DistinctAssumption
    <2> QED
      BY <2>1, <2>2
  <1>4. log' = log /\ handled' = handled /\ Event1' = Event1
    BY DEF RecordTask, MarkStale, Event1
  <1> DEFINE ws == [m \in {n} |-> w]
  <1>5. DOMAIN ws = {n} /\ ws[n] = w /\ WriteNodes("scheduler", h.rev, ws)
    BY <1>3
  <1> HIDE DEF ws
  <1>6. \A r \in Revision : \A m \in Node : NamedFor(m, rows[r][m])'
    BY <1>1, <1>2, <1>3, <1>5, RowsNamed DEF SubmitInv, Client
  <1>7. NamesInv'
    BY <1>3, <1>6 DEF SubmitInv, NamesInv, NamedFor
  <1>8. BehindInv'
    BY <1>3 DEF SubmitInv, BehindInv
  <1>9. PlayerInv'
    BY <1>2, <1>3, <1>4 DEF SubmitInv, PlayerInv
  <1>10. CarryInv'
    <2> SUFFICES ASSUME Event1.topic = "task_player_submitted" PROVE \A m \in Succ[h.task[1]] : Carried(m)'
      BY <1>3, <1>4 DEF CarryInv
    <2>1. \A m \in Succ[h.task[1]] : Carried(m)
      BY <1>2, <1>3 DEF SubmitInv, CarryInv, Begun
    <2>2. h.task \in Task
      <3>1. handled < Len(log) /\ h.task = Event1.task /\ TypeOK /\ StoreInv
        BY <1>1, <1>2 DEF IInv, StepInv, SubmitInv, PlayerInv
      <3> QED
        BY <3>1, EventFacts DEF Exists, Given
    <2>3. Succ[h.task[1]] \subseteq Node \cup {Output}
      BY <2>2, TaskFacts, PipelineAssumption
    <2>4. \A m \in Node \cup {Output} : Carried(m) => Carried(m)'
      BY <1>1, <1>2, <1>3, <1>5, CarriedOn DEF ws
    <2> QED
      BY <2>1, <2>3, <2>4
  <1> QED
    BY <1>7, <1>8, <1>9, <1>10 DEF SubmitInv

(* No submission's handler gets to write a finished or a stale node.         *)
LEMMA SubmitWritesBack ==
  ASSUME IInv, SubmitInv, NEW n \in Node, NEW run \in {"IDLE", "FAILED"}, WriteBack(n, run)
  PROVE  SubmitInv'
  <1>1. TypeOK /\ StoreInv /\ StepInv /\ ReadInv /\ h \in Handler
    BY HandlerTypes DEF IInv, HandlerInv
  <1> DEFINE w == [dep |-> h.snap[n].dep, run |-> run, task |-> h.task, inputs |-> Keep]
  <1> DEFINE ws == [m \in {n} |-> w]
  <1>2. /\ h.step = "feed" /\ h.todo = {} /\ n \in h.own /\ WriteNodes("engine", h.rev, ws)
        /\ h' = [h EXCEPT !.own = @ \ {n}] /\ log' = log /\ handled' = handled
    BY DEF WriteBack
  <1>3. h # Idle /\ h.rev \in Revision /\ ItsEvent /\ handled < Len(log)
    BY <1>1, <1>2, HandlerTypes, IdleFacts DEF StepInv, ReadInv
  <1>4. h.task \in Task /\ Event1.topic # "task_player_submitted"
    BY <1>1, <1>3, EventFacts DEF ItsEvent, Result, Exists
  <1>5. h.snap[n] # NoRow /\ h.snap[n].task = h.task /\ h.snap[n].dep \in Dependency
    BY <1>1, <1>2 DEF ReadInv, GoodRow, Row
  <1>6. h.task[1] = n /\ h.task # Keep /\ w \in Update /\ w.task = h.task
    BY <1>4, <1>5, TaskFacts DEF SubmitInv, NamesInv, NamedFor, Update, Runtime
  <1> HIDE DEF w
  <1>7. DOMAIN ws = {n} /\ ws[n] = w
    OBVIOUS
  <1> HIDE DEF ws
  <1>8. \A r \in Revision : \A m \in Node : NamedFor(m, rows[r][m])'
    BY <1>1, <1>2, <1>3, <1>6, <1>7, RowsNamed DEF SubmitInv, Client
  <1>9. h'.step = "feed" /\ h'.snap = h.snap /\ h'.todo = {}
    BY <1>1, <1>2 DEF Handler
  <1>10. NamesInv' /\ BehindInv'
    BY <1>8, <1>9 DEF SubmitInv, NamesInv, NamedFor, BehindInv
  <1> QED
    BY <1>2, <1>4, <1>10, SubmitOther

LEMMA SubmitResets ==
  ASSUME IInv, SubmitInv, ResetStale
  PROVE  SubmitInv'
  <1>1. TypeOK /\ StoreInv /\ StepInv /\ h \in Handler
    BY HandlerTypes DEF IInv, HandlerInv
  <1> DEFINE stale == {n \in h.stale : RowOf(n) # NoRow /\ RowOf(n).dep = "STALE"}
  <1> DEFINE ws == [n \in stale |-> [dep |-> "STALE", run |-> "IDLE",
                        task |-> AsRead(RowOf(n).task), inputs |-> AsRead(RowOf(n).inputs)]]
  <1>2. /\ h.step = "revision" /\ WriteNodes("engine", h.rev, ws) /\ log' = log /\ handled' = handled
        /\ h' = [h EXCEPT !.step = "feed", !.snap = rows[h.rev], !.stale = stale]
    BY DEF ResetStale
  <1>3. /\ h # Idle /\ h.rev \in Revision /\ h.todo = {}
        /\ Event1.topic # "task_player_submitted"
    BY <1>1, <1>2, HandlerTypes, IdleFacts DEF StepInv, SubmitInv, PlayerInv
  <1>4. stale \subseteq Node /\ DOMAIN ws = stale
    BY <1>1, HandlerTypes
  <1>5. ASSUME NEW n \in stale
        PROVE  ws[n] \in Update /\ ws[n].task # Keep /\ (ws[n].task # Null => ws[n].task[1] = n)
    <2> DEFINE x == rows[h.rev][n]
    <2>1. GoodRow(x) /\ x # NoRow /\ NamedFor(n, x)
      BY <1>1, <1>3, <1>4 DEF StoreInv, RowsInv, SubmitInv, NamesInv, RowOf
    <2>2. x.task \in Task \cup {Null} /\ x.inputs \in Value \cup {Null}
      BY <2>1 DEF GoodRow, Exists
    <2>3. AsRead(x.task) = x.task /\ AsRead(x.inputs) = x.inputs
      BY <2>2, ReadFacts
    <2>4. ws[n] = [dep |-> "STALE", run |-> "IDLE", task |-> x.task, inputs |-> x.inputs]
      BY <2>3 DEF RowOf
    <2> HIDE DEF x, ws
    <2> QED
      BY <2>1, <2>2, <2>4, TaskFacts, DistinctAssumption DEF NamedFor, Update, Dependency, Runtime
  <1> HIDE DEF ws, stale
  <1>6. \A r \in Revision : \A m \in Node : NamedFor(m, rows[r][m])'
    BY <1>1, <1>2, <1>3, <1>4, <1>5, RowsNamed DEF SubmitInv, Client
  <1>7. h'.step = "feed" /\ h'.snap = rows[h.rev] /\ h'.todo = {}
    BY <1>1, <1>2, <1>3 DEF Handler
  <1>8. NamesInv' /\ BehindInv'
    BY <1>3, <1>6, <1>7 DEF SubmitInv, NamesInv, NamedFor, BehindInv
  <1> QED
    BY <1>2, <1>3, <1>8, SubmitOther

LEMMA SubmitFreshens ==
  ASSUME IInv, SubmitInv, Freshen
  PROVE  SubmitInv'
  <1>1. TypeOK /\ StoreInv /\ StepInv /\ CarriesInv /\ ReadInv /\ h \in Handler /\ h.node \in Node
    BY HandlerTypes DEF IInv, HandlerInv
  <1> DEFINE w == [dep |-> "FRESH", run |-> h.snap[h.node].run, task |-> h.made,
                   inputs |-> AsRead(h.snap[h.node].inputs)]
  <1> DEFINE ws == [m \in {h.node} |-> w]
  <1>2. /\ h.step = "freshen" /\ WriteNodes("engine", h.rev, ws) /\ log' = log /\ handled' = handled
        /\ h' = [h EXCEPT !.stale = @ \ {h.node}, !.made = Null, !.task = h.made,
                    !.step = IF h.value = Null /\ ~h.failed THEN "feed" ELSE "records"]
    BY DEF Freshen
  <1>3. /\ h # Idle /\ h.rev \in Revision /\ h.todo = {} /\ h.made \in Task /\ h.node \in h.stale
        /\ Event1.topic # "task_player_submitted"
    BY <1>1, <1>2, HandlerTypes, IdleFacts
       DEF StepInv, CarriesInv, ReadInv, Exists, SubmitInv, PlayerInv
  <1>4. h.made[1] = h.node /\ h.made # Null /\ h.made # Keep
    BY <1>2, <1>3, TaskFacts DEF SubmitInv, NamesInv
  <1>5. /\ h.snap[h.node].run \in Runtime /\ AsRead(h.snap[h.node].inputs) \in Value \cup {Null}
    BY <1>1, <1>2, <1>3, ReadFacts DEF ReadInv, GoodRow, Row
  <1>6. w \in Update /\ w.task = h.made
    BY <1>3, <1>5 DEF Update, Dependency
  <1> HIDE DEF w
  <1>7. DOMAIN ws = {h.node} /\ ws[h.node] = w
    OBVIOUS
  <1> HIDE DEF ws
  <1>8. \A r \in Revision : \A m \in Node : NamedFor(m, rows[r][m])'
    BY <1>1, <1>2, <1>3, <1>4, <1>6, <1>7, RowsNamed DEF SubmitInv, Client
  <1>9. h'.step \in {"feed", "records"} /\ h'.snap = h.snap /\ h'.todo = {} /\ h'.task = h.made
    BY <1>1, <1>2, <1>3 DEF Handler
  <1>10. NamesInv' /\ BehindInv'
    BY <1>4, <1>8, <1>9 DEF SubmitInv, NamesInv, NamedFor, BehindInv
  <1> QED
    BY <1>2, <1>3, <1>10, SubmitOther

LEMMA SubmitStart == Init => SubmitInv
  <1> DEFINE t == <<Root, Start>>
  <1> DEFINE first == [dep |-> "FRESH", run |-> "RUNNING", task |-> t, inputs |-> Start]
  <1> DEFINE then == [dep |-> "STALE", run |-> "FAILED", task |-> t, inputs |-> Keep]
  <1> SUFFICES ASSUME Init PROVE SubmitInv
    OBVIOUS
  <1>1. Root \in Node /\ Start \in Value /\ t \in Task /\ t[1] = Root
    BY PipelineAssumption DEF Task
  <1>2. first \in Row /\ then \in Update /\ first.task = t /\ then.task = t
    BY <1>1 DEF Row, Update, Dependency, Runtime
  <1>3. PICK failed \in BOOLEAN :
          rows = [r \in Revision |-> [n \in Node |->
                    IF r # 1 \/ n # Root THEN NoRow
                    ELSE IF failed THEN Upsert(first, then) ELSE first]]
    BY DEF Init
  <1>4. h = Idle
    BY DEF Init
  <1> HIDE DEF first, then
  <1>5. Upsert(first, then).task = t
    <2>1. t # Keep
      BY <1>1, TaskFacts
    <2> QED
      BY <2>1, <1>2, UpsertFacts
  <1> HIDE DEF t
  <1>6. \A r \in Revision : \A n \in Node : NamedFor(n, rows[r][n])
    BY <1>1, <1>2, <1>3, <1>5 DEF NamedFor
  <1>7. NamesInv /\ BehindInv
    BY <1>4, <1>6, IdleFacts DEF NamesInv, NamedFor, BehindInv
  <1> QED
    BY <1>4, <1>7 DEF SubmitInv, PlayerInv, CarryInv

LEMMA SubmitStep == IInv /\ SubmitInv /\ [Next]_vars => SubmitInv'
  <1> SUFFICES ASSUME IInv, SubmitInv, [Next]_vars PROVE SubmitInv'
    OBVIOUS
  <1>1. CASE Work \/ \E c \in Caller : ReadActive(c) \/ Commit(c) \/ Throw(c)
    BY <1>1, SubmitCallers
  <1>2. CASE EngineNext
    <2>1. CASE TakeCompleted \/ TakeFailed \/ TakePlayer \/ TakeStale
      BY <2>1, SubmitTakeUp
    <2>2. CASE PassOver \/ NobodyUses \/ CommitOffset
      BY <2>2, SubmitIdle DEF PassOver, NobodyUses, CommitOffset, Done, OnlyHandler, storeVars
    <2>3. CASE ListActive
      BY <2>3, SubmitListing
    <2>4. CASE ListRecords \/ AbortWorkflow
      BY <2>4, SubmitRecords
    <2>5. CASE Deliver \/ \E n \in Node : StartTask(n) \/ SkipNode(n)
      BY <2>5, SubmitFeeds
    <2>6. CASE CreateNodeTask \/ \E n \in Node : CreateStaleTask(n) \/ UseTask(n)
      BY <2>6, SubmitCreates
    <2>7. CASE RecordTask \/ \E n \in Node : MarkStale(n)
      BY <2>7, SubmitMarks
    <2>8. ASSUME NEW n \in Node, FinishNode(n) \/ FailNode(n) PROVE SubmitInv'
      BY <2>8, SubmitWritesBack DEF FinishNode, FailNode
    <2>9. CASE ResetStale
      BY <2>9, SubmitResets
    <2>10. CASE Freshen
      BY <2>10, SubmitFreshens
    <2> QED
      BY <1>2, <2>1, <2>2, <2>3, <2>4, <2>5, <2>6, <2>7, <2>8, <2>9, <2>10 DEF EngineNext
  <1>3. CASE HandlerFails \/ Restart
    BY <1>3, SubmitIdle DEF HandlerFails, Restart, storeVars
  <1>4. CASE UNCHANGED vars
    <2>1. h' = h /\ handled' = handled /\ skipped' = skipped /\ log' = log /\ rows' = rows
      BY <1>4 DEF vars, storeVars
    <2>2. \A r \in Revision : \A n \in Node : NamedFor(n, rows'[r][n])
      BY <2>1 DEF SubmitInv, NamesInv
    <2> QED
      BY <2>1, <2>2, SubmitOutside
  <1> QED
    BY <1>1, <1>2, <1>3, <1>4 DEF Next

(* A write at one node changes no other input, and leaves what it writes.     *)
LEMMA InputsWritten ==
  ASSUME TypeOK, NEW c \in Client, h.rev \in Revision, NEW ws, DOMAIN ws \subseteq Node,
         WriteNodes(c, h.rev, ws), \A n \in DOMAIN ws : ws[n] \in Update,
         NEW r \in Revision, NEW m \in Node, rows[r][m] # NoRow,
         rows'[r][m].inputs # rows[r][m].inputs
  PROVE  /\ r = h.rev /\ m \in DOMAIN ws /\ ws[m].inputs # Keep
         /\ rows'[r][m].inputs = ws[m].inputs
  <1>1. /\ \A q \in Revision \ {h.rev} : rows'[q] = rows[q]
        /\ \A n \in Node : rows'[h.rev][n] = rows[h.rev][n]
             \/ (n \in DOMAIN ws /\ rows'[h.rev][n] = Upsert(rows[h.rev][n], ws[n]))
    BY Written
  <1>2. r = h.rev /\ m \in DOMAIN ws /\ rows'[r][m] = Upsert(rows[r][m], ws[m])
    BY <1>1
  <1>3. rows[r][m] \in Row \cup {NoRow} /\ ws[m] \in Update
    BY <1>2, HandlerTypes
  <1> QED
    BY <1>2, <1>3, UpsertFacts

(* When the handler of a player's submission commits, the nodes behind the    *)
(* player's node have the submitted value as their input, in the revision the *)
(* submission made; from then on only a result of the node before, or the      *)
(* update of a stale node, replaces it (task-update-handler.ts, scheduler.ts,  *)
(* the player mutations of mutations.ts).                                      *)
THEOREM SubmissionCarried == Spec => SubmissionIsCarried
  <1> DEFINE Delivered ==
        handled' # handled /\ Event1.topic = "task_player_submitted" /\ Event1.rev \notin skipped =>
           \A n \in NodesOfTask(Event1.rev, Event1.task) : \A m \in Succ[n] \ {Output} :
             rows[Event1.rev][m] # NoRow /\ rows[Event1.rev][m].inputs = Event1.value
  <1> DEFINE Replaced(r, m) ==
        \/ r = h.rev /\ m \in Succ[h.task[1]] /\ rows'[r][m].inputs = h.value
        \/ r = h.rev /\ h.step = "freshen" /\ m = h.node
  <1> DEFINE Kept ==
        \A r \in 1..count : \A m \in Node :
           rows[r][m] # NoRow /\ rows'[r][m].inputs # rows[r][m].inputs => Replaced(r, m)
  <1>1. IInv /\ SubmitInv /\ [Next]_vars => [Delivered]_vars
    <2> SUFFICES ASSUME IInv, SubmitInv, Next, handled' # handled,
                        Event1.topic = "task_player_submitted", Event1.rev \notin skipped,
                        NEW n \in NodesOfTask(Event1.rev, Event1.task), NEW m \in Succ[n] \ {Output}
                 PROVE  Reached(m) /\ h.rev = Event1.rev /\ h.value = Event1.value
      BY DEF Reached
    <2>1. CommitOffset
      <3>1. PassOver \/ NobodyUses \/ CommitOffset
        <4>1. ~ \E c \in Caller : ReadActive(c) \/ Throw(c) \/ Commit(c)
          BY DEF ReadActive, Throw, Commit, engineVars
        <4>2. ~(Work \/ HandlerFails \/ Restart)
          BY DEF Work, engineVars, HandlerFails, Restart
        <4>3. ~(TakeCompleted \/ TakeFailed \/ TakePlayer \/ TakeStale \/ ListActive \/ ListRecords)
          BY DEF TakeCompleted, TakeFailed, TakePlayer, TakeStale, ListActive, ListRecords
        <4>4. ~(AbortWorkflow \/ Deliver \/ CreateNodeTask \/ RecordTask \/ ResetStale \/ Freshen)
          BY DEF AbortWorkflow, Deliver, CreateNodeTask, CreateTask, RecordTask, ResetStale, Freshen
        <4>5. \A k \in Node : ~(StartTask(k) \/ SkipNode(k) \/ MarkStale(k) \/ UseTask(k))
          BY DEF StartTask, SkipNode, MarkStale, UseTask
        <4>6. \A k \in Node : ~(FinishNode(k) \/ FailNode(k) \/ CreateStaleTask(k))
          BY DEF FinishNode, FailNode, WriteBack, CreateStaleTask, CreateTask
        <4> QED
          BY <4>1, <4>2, <4>3, <4>4, <4>5, <4>6 DEF Next, EngineNext
      <3>2. ~PassOver
        BY DEF PassOver
      <3>3. ~NobodyUses
        BY IdleFacts DEF NobodyUses, SubmitInv, PlayerInv
      <3> QED
        BY <3>1, <3>2, <3>3
    <2>2. h.step = "feed" /\ h.todo = {} /\ h # Idle
      BY <2>1, IdleFacts DEF CommitOffset
    <2>3. h.rev = Event1.rev /\ h.task = Event1.task /\ h.value = Event1.value
      BY <2>2 DEF SubmitInv, PlayerInv
    <2>4. h.task \in Task /\ h.rev \in Revision /\ TypeOK
      <3>1. handled < Len(log) /\ TypeOK /\ StoreInv /\ h.rev \in 1..count
        BY <2>2 DEF IInv, HandlerInv, StepInv
      <3> QED
        BY <2>3, <3>1, EventFacts, HandlerTypes DEF Exists, Given
    <2>5. n = h.task[1]
      BY <2>3, <2>4, OnlyItsNode DEF SubmitInv
    <2>6. Carried(m)
      BY <2>2, <2>3, <2>5 DEF SubmitInv, CarryInv, Begun
    <2> QED
      BY <2>2, <2>3, <2>6 DEF Carried
  <1>2. IInv /\ SubmitInv /\ [Next]_vars => [Kept]_vars
    <2> SUFFICES ASSUME IInv, SubmitInv, Next, NEW r \in 1..count, NEW m \in Node,
                        rows[r][m] # NoRow, rows'[r][m].inputs # rows[r][m].inputs
                 PROVE  Replaced(r, m)
      OBVIOUS
    <2>1. TypeOK /\ StoreInv /\ StepInv /\ CarriesInv /\ ReadInv /\ r \in Revision /\ h.node \in Node
          /\ rows \in [Revision -> [Node -> Row \cup {NoRow}]] /\ count \in Nat
      BY HandlerTypes DEF IInv, HandlerInv
    <2>2. rows' # rows
      OBVIOUS
    <2>3. ASSUME NEW c \in Caller, Commit(c) PROVE FALSE
      <3>1. call[c] \in Revision /\ Fork(call[c])
        BY <2>1, <2>3 DEF Commit, TypeOK
      <3>2. Forked(call[c])
        BY <3>1, ForkForm DEF IInv
      <3> QED
        BY <3>2, <2>1 DEF Forked, ForkTo
    <2>4. CASE RecordTask
      <3> DEFINE w == [dep |-> "FRESH", run |-> RuntimeOf(h.made), task |-> h.made, inputs |-> h.value]
      <3> DEFINE ws == [k \in {h.node} |-> w]
      <3>1. h.step = "record" /\ WriteNodes("scheduler", h.rev, ws)
        BY <2>4 DEF RecordTask
      <3>2. /\ h.rev \in Revision /\ h.value \in Value /\ h.made \in Task
            /\ h.node \in Succ[h.task[1]] /\ RuntimeOf(h.made) \in Runtime
        BY <3>1, <2>1, HandlerTypes
           DEF StepInv, CarriesInv, Exists, SubmitInv, BehindInv, RuntimeOf, Runtime
      <3>3. w \in Update /\ w.inputs = h.value
        BY <3>2 DEF Update, Dependency
      <3> HIDE DEF w
      <3>4. DOMAIN ws = {h.node} /\ ws[h.node] = w
        OBVIOUS
      <3> HIDE DEF ws
      <3>5. r = h.rev /\ m = h.node /\ rows'[r][m].inputs = h.value
        BY <2>1, <3>1, <3>2, <3>3, <3>4, InputsWritten DEF Client
      <3> QED
        BY <3>2, <3>5
    <2>5. ASSUME NEW n \in Node, MarkStale(n) PROVE Replaced(r, m)
      <3> DEFINE w == [dep |-> "STALE", run |-> "IDLE", task |-> Null, inputs |-> h.value]
      <3> DEFINE ws == [k \in {n} |-> w]
      <3>1. h.step = "feed" /\ n \in h.todo /\ WriteNodes("scheduler", h.rev, ws)
        BY <2>5 DEF MarkStale, Feeding
      <3>2. h.rev \in Revision /\ h.value \in Value /\ n \in Succ[h.task[1]]
        BY <3>1, <2>1, HandlerTypes DEF StepInv, CarriesInv, SubmitInv, BehindInv
      <3>3. w \in Update /\ w.inputs = h.value
        BY <3>2 DEF Update, Dependency, Runtime
      <3> HIDE DEF w
      <3>4. DOMAIN ws = {n} /\ ws[n] = w
        OBVIOUS
      <3> HIDE DEF ws
      <3>5. r = h.rev /\ m = n /\ rows'[r][m].inputs = h.value
        BY <2>1, <3>1, <3>2, <3>3, <3>4, InputsWritten DEF Client
      <3> QED
        BY <3>2, <3>5
    <2>6. ASSUME NEW n \in Node, NEW run \in {"IDLE", "FAILED"}, WriteBack(n, run) PROVE FALSE
      <3> DEFINE w == [dep |-> h.snap[n].dep, run |-> run, task |-> h.task, inputs |-> Keep]
      <3> DEFINE ws == [k \in {n} |-> w]
      <3>1. h.step = "feed" /\ n \in h.own /\ WriteNodes("engine", h.rev, ws)
        BY <2>6 DEF WriteBack
      <3>2. /\ h.rev \in Revision /\ h.task \in Task \cup {Null} /\ h.snap[n] # NoRow
            /\ h.snap[n].dep \in Dependency
        BY <3>1, <2>1, HandlerTypes DEF StepInv, ReadInv, GoodRow, Row
      <3>3. w \in Update /\ w.inputs = Keep
        BY <3>2 DEF Update, Runtime
      <3> HIDE DEF w
      <3>4. DOMAIN ws = {n} /\ ws[n] = w
        OBVIOUS
      <3> HIDE DEF ws
      <3> QED
        BY <2>1, <3>1, <3>2, <3>3, <3>4, InputsWritten DEF Client
    <2>7. CASE ResetStale
      <3> DEFINE stale == {n \in h.stale : RowOf(n) # NoRow /\ RowOf(n).dep = "STALE"}
      <3> DEFINE ws == [n \in stale |-> [dep |-> "STALE", run |-> "IDLE",
                        task |-> AsRead(RowOf(n).task), inputs |-> AsRead(RowOf(n).inputs)]]
      <3>1. h.step = "revision" /\ WriteNodes("engine", h.rev, ws)
        BY <2>7 DEF ResetStale
      <3>2. h.rev \in Revision
        BY <3>1, <2>1, HandlerTypes DEF StepInv
      <3>3. stale \subseteq Node /\ DOMAIN ws = stale
        BY <2>1, HandlerTypes
      <3>4. ASSUME NEW n \in stale
            PROVE  ws[n] \in Update /\ ws[n].inputs = rows[h.rev][n].inputs
        <4> DEFINE x == rows[h.rev][n]
        <4>1. GoodRow(x) /\ x # NoRow
          BY <2>1, <3>2, <3>3 DEF StoreInv, RowsInv, RowOf
        <4>2. x.task \in Task \cup {Null} /\ x.inputs \in Value \cup {Null}
          BY <4>1 DEF GoodRow, Exists
        <4>3. AsRead(x.task) = x.task /\ AsRead(x.inputs) = x.inputs
          BY <4>2, ReadFacts
        <4>4. ws[n] = [dep |-> "STALE", run |-> "IDLE", task |-> x.task, inputs |-> x.inputs]
          BY <4>3 DEF RowOf
        <4> HIDE DEF x, ws
        <4>5. ws[n] \in Update /\ ws[n].inputs = x.inputs
          BY <4>2, <4>4 DEF Update, Dependency, Runtime
        <4> QED
          BY <4>5 DEF x
      <3> HIDE DEF ws, stale
      <3>5. r = h.rev /\ m \in DOMAIN ws /\ rows'[r][m].inputs = ws[m].inputs
        BY <2>1, <3>1, <3>2, <3>3, <3>4, InputsWritten DEF Client
      <3> QED
        BY <3>3, <3>4, <3>5
    <2>8. CASE Freshen
      <3>1. h.step = "freshen" /\ h.rev \in Revision
        BY <2>8, <2>1, HandlerTypes DEF Freshen, StepInv
      <3> DEFINE w == [dep |-> "FRESH", run |-> h.snap[h.node].run, task |-> h.made,
                       inputs |-> AsRead(h.snap[h.node].inputs)]
      <3> DEFINE ws == [k \in {h.node} |-> w]
      <3>2. WriteNodes("engine", h.rev, ws) /\ DOMAIN ws = {h.node}
        BY <2>8 DEF Freshen
      <3> HIDE DEF ws
      <3>3. /\ \A q \in Revision \ {h.rev} : rows'[q] = rows[q]
            /\ \A n \in Node : rows'[h.rev][n] = rows[h.rev][n] \/ n \in DOMAIN ws
        <4>1. DOMAIN ws \subseteq Node /\ "engine" \in Client
          BY <3>1, <3>2, <2>1, HandlerTypes DEF StepInv, Client
        <4>2. TypeOK
          BY <2>1
        <4> QED
          BY <4>1, <4>2, <3>1, <3>2, Written
      <3>4. r = h.rev /\ m = h.node
        BY <3>2, <3>3, <2>1
      <3> QED
        BY <3>1, <3>4
    <2>9. CASE Work
      BY <2>2, <2>9 DEF Work, ReportTask
    <2>10. CASE \E c \in Caller : ReadActive(c) \/ Throw(c)
      BY <2>2, <2>10 DEF ReadActive, Throw, storeVars
    <2>11. CASE HandlerFails \/ Restart
      BY <2>2, <2>11 DEF HandlerFails, Restart, storeVars
    <2>12. CASE EngineNext
      <3>1. \/ RecordTask \/ ResetStale \/ Freshen
            \/ \E n \in Node : MarkStale(n) \/ FinishNode(n) \/ FailNode(n)
        BY <2>2, <2>12
           DEF EngineNext, TakeCompleted, TakeFailed, TakePlayer, TakeStale, PassOver, ListActive,
               NobodyUses, ListRecords, AbortWorkflow, Deliver, CreateNodeTask, CommitOffset, StartTask,
               SkipNode, UseTask, CreateStaleTask, CreateTask, OnlyHandler, storeVars
      <3> QED
        BY <3>1, <2>4, <2>5, <2>6, <2>7, <2>8 DEF FinishNode, FailNode
    <2> QED
      BY <2>3, <2>9, <2>10, <2>11, <2>12 DEF Next
  <1>3. IInv /\ SubmitInv /\ [Next]_vars => [Delivered /\ Kept]_vars
    BY <1>1, <1>2
  <1> QED
    BY <1>3, InitOK, StepOK, SubmitStart, SubmitStep, PTL DEF Spec, SubmissionIsCarried
=============================================================================

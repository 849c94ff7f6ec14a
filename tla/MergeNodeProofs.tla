---------------------------- MODULE MergeNodeProofs ----------------------------
(***************************************************************************)
(* MergeNode for every set of slots, sources and values and every bound:    *)
(* the promise chain lets one call at a time into the critical zone, and    *)
(* the accumulator, the node's row and what the calls delivered agree.      *)
(***************************************************************************)
EXTENDS MergeNode, SequenceTheorems, TLAPS

(* The log, and the event being handled. *)
LogInv ==
  /\ events \in Seq([sources : Together, value : Value])
  /\ Len(events) <= MaxEvent /\ handled <= Len(events)
  /\ batch # {} => handled < Len(events) /\ batch = events[handled + 1].sources

(* A call is the bootstrap's or the current event's, and works in a revision     *)
(* that exists.                                                                  *)
CallInv ==
  \A s \in Source : InFlight(s) => s \in Boot \cup batch /\ call[s].rev <= active

InZone(s) == call[s].step \notin {"none", "todo"}
Deep(s) == InZone(s) /\ call[s].step # "queued"

(* The calls of a revision that have entered stand in one line; each awaits the  *)
(* one before it, and the next to enter will await the last.                     *)
Line(r, n, f) ==
  /\ f \in [1..n -> Source]
  /\ \A i \in 1..n : InZone(f[i]) /\ call[f[i]].rev = r
  /\ \A s \in Source : InZone(s) /\ call[s].rev = r => \E i \in 1..n : f[i] = s
  /\ \A i, j \in 1..n : f[i] = f[j] => i = j
  /\ n = 0 => tail[r] = NoCall
  /\ n > 0 => tail[r] = f[n] /\ ahead[f[1]] = NoCall
  /\ \A i \in 1..n : i > 1 => ahead[f[i]] = f[i - 1]

LockInv ==
  /\ \A r \in Revision : \E n \in Nat : \E f : Line(r, n, f)
  /\ \A s \in Source : (Deep(s) \/ ~InZone(s)) => ahead[s] = NoCall

(* Whose turn it is. *)
Busy(s) == InZone(s) /\ ahead[s] = NoCall
Alone == \A s, t \in Source : Busy(s) /\ Busy(t) /\ call[s].rev = call[t].rev => s = t

(* A revision that has not been forked yet. *)
Untouched(r) ==
  /\ given[r] = Empty /\ acc[r] = NoRow /\ r \notin lossy
  /\ row[r].task = NoRow /\ row[r].inputs = NoRow

(* Accumulator and row against what was delivered; and what a call has read.     *)
RowAgrees(r) == row[r].task \in {NoRow, row[r].inputs}
AccAgrees(r) ==
  IF acc[r] # NoRow THEN acc[r] = given[r] /\ ~Full(given[r])
  ELSE row[r].inputs = given[r] \/ (given[r] = Empty /\ row[r].inputs = NoRow)
CallAgrees(s) ==
  LET r == call[s].rev IN
  /\ call[s].step \in {"task", "ready", "record"} => acc[r] = NoRow
  /\ call[s].step \in {"dispatch", "ready", "record"} => call[s].inputs = Merged(s, given[r])
  /\ PastDrop(s) => Full(call[s].inputs)

DataInv ==
  /\ \A r \in Revision : r > active => Untouched(r)
  /\ \A r \in Revision \ lossy : RowAgrees(r) /\ (Settled(r) => AccAgrees(r))
  /\ \A s \in Source : call[s].rev \notin lossy => CallAgrees(s)

IInv == TypeOK /\ LogInv /\ CallInv /\ LockInv /\ DataInv

-----------------------------------------------------------------------------
LEMMA EmptyFacts ==
  /\ Empty \in Inputs /\ NoRow \notin Inputs /\ ~Full(Empty)
  /\ NoDelivery \in Call /\ NoDelivery.step = "none"
BY MergeAssumption DEF Empty, Inputs, Full, NoDelivery, Call, Step, Revision

(* What a call adds is a full value for its slots. *)
LEMMA MergedFacts ==
  ASSUME NEW s \in Source, NEW base \in Inputs, call[s].value \in Value
  PROVE  /\ Merged(s, base) \in Inputs
         /\ Merged(s, base) # Empty
         /\ Full(base) => Full(Merged(s, base))
         /\ \A i \in Slot : Merged(s, base)[i] # base[i] => i \in Feeds[s]
BY MergeAssumption DEF Merged, Inputs, Empty, Full

(* The same for what is left of it once the node has started. *)
LEMMA LeftFacts ==
  ASSUME TypeOK, NEW s \in Source
  PROVE  /\ Delivered(s) \in Inputs /\ UsedUp(s) \in Inputs
         /\ DataOf(call[s].inputs) \in Inputs
<1>1. call[s] \in Call /\ given[call[s].rev] \in Inputs
  BY DEF TypeOK, Call
<1>2. call[s].value \in Value /\ call[s].inputs \in Inputs
  BY <1>1 DEF Call
<1>3. Delivered(s) \in Inputs
  BY <1>1, <1>2, MergedFacts DEF Delivered
<1>4. \A inputs \in Inputs : DataOf(inputs) \in Inputs
  BY DEF DataOf, Inputs
<1> QED
  BY <1>2, <1>3, <1>4 DEF UsedUp

LEMMA CallFields ==
  ASSUME TypeOK, NEW s \in Source
  PROVE  /\ call[s] \in Call /\ call[s].step \in Step /\ call[s].rev \in Revision
         /\ call[s].value \in Value /\ call[s].inputs \in Inputs
         /\ acc[call[s].rev] \in Inputs \cup {NoRow}
         /\ row[call[s].rev] \in NodeState
         /\ row[call[s].rev].task \in Inputs \cup {NoRow}
         /\ row[call[s].rev].inputs \in Inputs \cup {NoRow}
BY DEF TypeOK, Call, NodeState

LEMMA OneIsAlone ==
  ASSUME TypeOK, LockInv
  PROVE  Alone
<1> SUFFICES ASSUME NEW s \in Source, NEW t \in Source, Busy(s), Busy(t),
                    call[s].rev = call[t].rev
             PROVE  s = t
  BY DEF Alone
<1>1. call[s].rev \in Revision
  BY CallFields
<1>2. PICK n \in Nat : \E f : Line(call[s].rev, n, f)
  BY <1>1 DEF LockInv
<1>3. PICK f : Line(call[s].rev, n, f)
  BY <1>2
<1>4. \A u \in Source : Busy(u) /\ call[u].rev = call[s].rev => u = f[1]
  <2> SUFFICES ASSUME NEW u \in Source, Busy(u), call[u].rev = call[s].rev
               PROVE  u = f[1]
    OBVIOUS
  <2>1. PICK i \in 1..n : f[i] = u
    BY <1>3 DEF Line, Busy
  <2>2. CASE i > 1
    <3>1. i - 1 \in 1..n /\ ahead[u] = f[i - 1]
      BY <1>3, <2>1, <2>2 DEF Line
    <3>2. ahead[u] \in Source
      BY <1>3, <3>1 DEF Line
    <3> QED
      BY <3>2, MergeAssumption DEF Busy
  <2>3. CASE ~(i > 1)
    BY <2>1, <2>3
  <2> QED
    BY <2>2, <2>3
<1> QED
  BY <1>4

-----------------------------------------------------------------------------
(* The initial states. *)

LEMMA InitInv == Init => IInv
<1> SUFFICES ASSUME Init PROVE IInv
  OBVIOUS
<1> USE EmptyFacts
<1>1. Revision \subseteq Nat /\ 1 \in Revision
  BY MergeAssumption DEF Revision
<1>2. /\ call \in [Source -> Call]
      /\ \A s \in Source : /\ call[s].rev = 1 /\ call[s].step \in {"none", "todo"}
                           /\ (call[s].step = "todo" => s \in Boot)
  <2>1. /\ [NoDelivery EXCEPT !.step = "todo"] \in Call
        /\ [NoDelivery EXCEPT !.step = "todo"].step = "todo"
        /\ [NoDelivery EXCEPT !.step = "todo"].rev = 1 /\ NoDelivery.rev = 1
    BY DEF NoDelivery, Call, Step
  <2> HIDE DEF NoDelivery
  <2> QED
    BY <2>1 DEF Init
<1>3. TypeOK
  <2>1. row \in [Revision -> NodeState]
    BY DEF Init, NodeState
  <2>2. given \in [Revision -> Inputs] /\ acc \in [Revision -> Inputs \cup {NoRow}]
    BY DEF Init
  <2>3. \A i \in DOMAIN events : events[i].sources \in Together /\ events[i].value \in Value
    BY DEF Init
  <2>4. handled \in 0..MaxEvent /\ faults \in 0..MaxFault /\ active \in Revision
    BY <1>1, MergeAssumption DEF Init
  <2>5. tail \in [Revision -> Source \cup {NoCall}] /\ ahead \in [Source -> Source \cup {NoCall}]
    BY DEF Init
  <2>6. auto \in AutoPropagate /\ sent \subseteq NodeUpdate /\ lossy \subseteq Revision
    BY DEF Init
  <2> QED
    BY <1>2, <2>1, <2>2, <2>3, <2>4, <2>5, <2>6 DEF Init, TypeOK
<1>4. LogInv
  BY MergeAssumption DEF Init, LogInv
<1>5. CallInv
  BY <1>1, <1>2 DEF Init, CallInv, InFlight
<1>6. LockInv
  <2>1. \A s \in Source : ~InZone(s) /\ ahead[s] = NoCall
    BY <1>2 DEF Init, InZone
  <2>2. ASSUME NEW r \in Revision
        PROVE  Line(r, 0, [i \in 1..0 |-> NoCall])
    BY <2>1 DEF Line, Init
  <2> QED
    BY <2>1, <2>2 DEF LockInv
<1>7. DataInv
  BY <1>1, <1>2 DEF Init, DataInv, Untouched, RowAgrees, AccAgrees, CallAgrees, PastDrop
<1> QED
  BY <1>3, <1>4, <1>5, <1>6, <1>7 DEF IInv

-----------------------------------------------------------------------------
(* What the two ways to end a step of a call do. *)

LEMMA GotoFacts ==
  ASSUME TypeOK, NEW s \in Source, NEW step \in Step, NEW inputs \in Inputs,
         Goto(s, step, inputs)
  PROVE  /\ call' \in [Source -> Call]
         /\ call'[s].step = step /\ call'[s].inputs = inputs
         /\ call'[s].rev = call[s].rev /\ call'[s].value = call[s].value
         /\ \A t \in Source : t # s => call'[t] = call[t]
BY CallFields DEF Goto, TypeOK, Call

LEMMA ReleaseFacts ==
  ASSUME TypeOK, NEW s \in Source, NEW left \in Inputs, Release(s, left)
  PROVE  /\ call' \in [Source -> Call] /\ call'[s] = NoDelivery
         /\ \A t \in Source : t # s => call'[t] = call[t]
         /\ ahead' \in [Source -> Source \cup {NoCall}]
         /\ tail' \in [Revision -> Source \cup {NoCall}]
         /\ given' \in [Revision -> Inputs]
         /\ given'[call[s].rev] = left
         /\ \A r \in Revision : r # call[s].rev => given'[r] = given[r]
<1>1. call[s].rev \in Revision /\ given[call[s].rev] \in Inputs
  BY CallFields DEF TypeOK
<1> QED
  BY <1>1, EmptyFacts DEF Release, TypeOK

(* An update of the row is sent, or the cache has it. *)
LEMMA UpdateFacts ==
  ASSUME TypeOK, NEW update \in NodeUpdate, UpdateNodeState(update)
  PROVE  /\ row' \in [Revision -> NodeState] /\ sent' \subseteq NodeUpdate
         /\ \A r \in Revision : r # update.rev => row'[r] = row[r]
         /\ lossy \subseteq lossy' /\ lossy' \subseteq lossy \cup {update.rev}
         /\ update.rev \notin lossy' =>
              row'[update.rev] = [task |-> update.task, inputs |-> DataOf(update.inputs)]
         /\ \/ row'[update.rev] = row[update.rev]
            \/ row'[update.rev] = [task |-> update.task, inputs |-> DataOf(update.inputs)]
<1>1. /\ update.rev \in Revision /\ update.task \in Inputs \cup {NoRow}
      /\ DataOf(update.inputs) \in Inputs
  BY DEF NodeUpdate, DataOf, Inputs
<1> DEFINE state == [task |-> update.task, inputs |-> DataOf(update.inputs)]
<1>2. state \in NodeState
  BY <1>1 DEF NodeState
<1>3. \/ /\ row' = [row EXCEPT ![update.rev] = state]
         /\ sent' = sent \cup {update} /\ lossy' = lossy
      \/ /\ lossy' = IF row[update.rev] = state THEN lossy ELSE lossy \cup {update.rev}
         /\ row' = row /\ sent' = sent
  BY DEF UpdateNodeState
<1> HIDE DEF state
<1>4. /\ row' \in [Revision -> NodeState] /\ sent' \subseteq NodeUpdate
      /\ \A r \in Revision : r # update.rev => row'[r] = row[r]
      /\ lossy \subseteq lossy' /\ lossy' \subseteq lossy \cup {update.rev}
      /\ update.rev \notin lossy' => row'[update.rev] = state
      /\ row'[update.rev] = row[update.rev] \/ row'[update.rev] = state
  BY <1>1, <1>2, <1>3 DEF TypeOK
<1> QED
  BY <1>4 DEF state

(* The updates of the two writers. *)
LEMMA Updates ==
  ASSUME TypeOK, NEW s \in Source, MarkStale(s) \/ RecordTask(s)
  PROVE  \E update \in NodeUpdate :
           /\ UpdateNodeState(update) /\ update.rev = call[s].rev
           /\ DataOf(update.inputs) = DataOf(call[s].inputs)
           /\ update.task \in {NoRow, DataOf(update.inputs)}
<1> DEFINE data == DataOf(call[s].inputs)
           stale == [rev |-> call[s].rev, task |-> NoRow, inputs |-> data]
           record == [rev |-> call[s].rev, task |-> data, inputs |-> call[s].inputs]
<1>1. stale \in NodeUpdate /\ record \in NodeUpdate
  BY CallFields, LeftFacts DEF NodeUpdate
<1>2. DataOf(data) = data
  BY DEF DataOf
<1>3. CASE MarkStale(s)
  <2>1. UpdateNodeState(stale)
    BY <1>3 DEF MarkStale
  <2> QED
    BY <1>1, <1>2, <2>1
<1>4. CASE RecordTask(s)
  <2>1. UpdateNodeState(record)
    BY <1>4 DEF RecordTask
  <2> QED
    BY <1>1, <2>1
<1> QED
  BY <1>3, <1>4

(* The steps of a call; those of the second group end it. *)
CallMoves(s) ==
  \/ Enter(s) \/ ReadAccumulator(s) \/ ReadTask(s) \/ ReadTaskFails(s)
  \/ DropAccumulator(s) \/ StartTask(s)
CallEnds(s) == SavePartial(s) \/ SkipNode(s) \/ MarkStale(s) \/ RecordTask(s)

-----------------------------------------------------------------------------
(* Types, log and calls. *)

LEMMA TypeMoves ==
  ASSUME TypeOK, NEW s \in Source, CallMoves(s)
  PROVE  TypeOK' /\ \E step \in Step \ {"none", "todo"} :
                      \E inputs \in Inputs : Goto(s, step, inputs)
<1> USE CallFields, EmptyFacts, MergedFacts
<1>1. CASE Enter(s)
  <2>1. Goto(s, "queued", Empty)
    BY <1>1 DEF Enter
  <2>2. call' \in [Source -> Call]
    BY <2>1, GotoFacts DEF Step
  <2> QED
    BY <1>1, <2>1, <2>2 DEF Enter, storeVars, eventVars, processVars, TypeOK, Step
<1>2. CASE ReadAccumulator(s)
  <2>1. PICK step \in {"dispatch", "task"}, inputs \in Inputs : Goto(s, step, inputs)
    BY <1>2 DEF ReadAccumulator, Accumulator
  <2>2. call' \in [Source -> Call]
    BY <2>1, GotoFacts DEF Step
  <2> QED
    BY <1>2, <2>1, <2>2
    DEF ReadAccumulator, OnlyCall, storeVars, eventVars, processVars, TypeOK, Step
<1>3. CASE ReadTask(s)
  <2>1. PICK inputs \in Inputs : Goto(s, "dispatch", inputs)
    BY <1>3 DEF ReadTask
  <2>2. call' \in [Source -> Call]
    BY <2>1, GotoFacts DEF Step
  <2> QED
    BY <1>3, <2>1, <2>2 DEF ReadTask, storeVars, eventVars, processVars, TypeOK, Step
<1>4. CASE DropAccumulator(s)
  <2>1. Goto(s, "ready", call[s].inputs)
    BY <1>4 DEF DropAccumulator
  <2>2. call' \in [Source -> Call]
    BY <2>1, GotoFacts DEF Step
  <2> QED
    BY <1>4, <2>1, <2>2 DEF DropAccumulator, Discard, eventVars, processVars, TypeOK, Step
<1>5. CASE StartTask(s)
  <2>1. Goto(s, "record", call[s].inputs)
    BY <1>5 DEF StartTask
  <2>2. call' \in [Source -> Call]
    BY <2>1, GotoFacts DEF Step
  <2> QED
    BY <1>5, <2>1, <2>2
    DEF StartTask, OnlyCall, storeVars, eventVars, processVars, TypeOK, Step
<1>6. CASE ReadTaskFails(s)
  <2>1. Goto(s, "dispatch", Merged(s, Empty)) /\ Merged(s, Empty) \in Inputs
    BY <1>6 DEF ReadTaskFails
  <2>2. call' \in [Source -> Call]
    BY <2>1, GotoFacts DEF Step
  <2>3. faults' \in 0..MaxFault
    BY <1>6, MergeAssumption DEF ReadTaskFails, TypeOK
  <2> QED
    BY <1>6, <2>1, <2>2, <2>3
    DEF ReadTaskFails, storeVars, eventVars, processVars, TypeOK, Step
<1> QED
  BY <1>1, <1>2, <1>3, <1>4, <1>5, <1>6 DEF CallMoves

LEMMA TypeEnds ==
  ASSUME TypeOK, NEW s \in Source, CallEnds(s)
  PROVE  TypeOK' /\ \E left \in Inputs : Release(s, left)
<1> USE CallFields
<1>1. PICK left \in Inputs : Release(s, left)
  BY LeftFacts DEF CallEnds, SavePartial, SkipNode, MarkStale, RecordTask
<1>2. acc' \in [Revision -> Inputs \cup {NoRow}]
  BY DEF CallEnds, SavePartial, SkipNode, MarkStale, RecordTask, Overwrite, TypeOK
<1>3. row' \in [Revision -> NodeState] /\ sent' \subseteq NodeUpdate /\ lossy' \subseteq Revision
  <2>1. CASE SavePartial(s) \/ SkipNode(s)
    BY <2>1 DEF SavePartial, SkipNode, TypeOK
  <2>2. CASE MarkStale(s) \/ RecordTask(s)
    <3>1. PICK update \in NodeUpdate : UpdateNodeState(update) /\ update.rev = call[s].rev
      BY <2>2, Updates
    <3>2. /\ row' \in [Revision -> NodeState] /\ sent' \subseteq NodeUpdate
          /\ lossy' \subseteq lossy \cup {update.rev}
      BY <3>1, UpdateFacts
    <3>3. lossy \subseteq Revision /\ call[s].rev \in Revision
      BY DEF TypeOK
    <3> QED
      BY <3>1, <3>2, <3>3
  <2> QED
    BY <2>1, <2>2 DEF CallEnds
<1> QED
  BY <1>1, <1>2, <1>3, ReleaseFacts DEF Release, eventVars, TypeOK

LEMMA TakenCalls ==
  ASSUME TypeOK, LogInv, TakeEvent
  PROVE  /\ batch' \subseteq Source \ Boot /\ call' \in [Source -> Call]
         /\ events[handled + 1].sources = batch'
         /\ \A s \in batch' : call'[s].step = "todo" /\ call'[s].rev = active
         /\ \A s \in Source \ batch' : call'[s] = call[s]
<1>1. events[handled + 1] \in [sources : Together, value : Value]
  <2>1. handled + 1 \in 1..Len(events) /\ events \in Seq([sources : Together, value : Value])
    <3>1. handled \in Nat /\ handled < Len(events)
      BY MergeAssumption DEF TakeEvent, TypeOK
    <3>2. events \in Seq([sources : Together, value : Value])
      BY DEF LogInv
    <3>3. Len(events) \in Nat
      BY <3>2, LenProperties
    <3> QED
      BY <3>1, <3>2, <3>3
  <2> QED
    BY <2>1, ElementOfSeq
<1>2. batch' \subseteq Source \ Boot /\ events[handled + 1].value \in Value
  BY <1>1, MergeAssumption DEF TakeEvent
<1> QED
  BY <1>2, EmptyFacts DEF TakeEvent, TypeOK, Call, Step

LEMMA Types == TypeOK /\ LogInv /\ [Next]_vars => TypeOK'
<1> SUFFICES ASSUME TypeOK, LogInv, [Next]_vars PROVE TypeOK'
  OBVIOUS
<1>1. CASE Arrive
  <2>1. PICK S \in Together, v \in Value : events' = Append(events, [sources |-> S, value |-> v])
    BY <1>1 DEF Arrive
  <2>2. \A i \in DOMAIN events' : events'[i].sources \in Together /\ events'[i].value \in Value
    <3>1. [sources |-> S, value |-> v] \in [sources : Together, value : Value]
      OBVIOUS
    <3>2. events' \in Seq([sources : Together, value : Value])
      BY <2>1, <3>1, AppendProperties DEF LogInv
    <3>3. \A i \in DOMAIN events' : events'[i] \in [sources : Together, value : Value]
      BY <3>2, ElementOfSeq, LenProperties
    <3> QED
      BY <3>3
  <2> QED
    BY <1>1, <2>2 DEF Arrive, TypeOK, storeVars, callVars, processVars
<1>2. CASE Fork
  <2>1. active + 1 \in Revision
    BY <1>2, MergeAssumption DEF Fork, NewRevision, Revision, TypeOK
  <2>2. faults' \in 0..MaxFault /\ lossy' \subseteq Revision
    BY <1>2, <2>1, MergeAssumption DEF Fork, NewRevision, TypeOK
  <2>3. acc' \in [Revision -> Inputs \cup {NoRow}]
    BY <1>2, <2>1 DEF Fork, TypeOK
  <2> QED
    BY <1>2, <2>1, <2>2, <2>3 DEF NewRevision, Fork, TypeOK, callVars, processVars
<1>3. CASE TakeEvent
  BY <1>3, TakenCalls DEF TakeEvent, TypeOK, storeVars, processVars
<1>4. CASE CommitEvent
  BY <1>4, MergeAssumption DEF CommitEvent, LogInv, TypeOK, storeVars, callVars, processVars
<1>5. CASE \E s \in Source : CallNext(s) \/ ReadTaskFails(s)
  BY <1>5, TypeMoves, TypeEnds DEF CallNext, CallMoves, CallEnds
<1>6. CASE Crash
  <2>1. {call[s].rev : s \in {t \in Source : PastDrop(t)}} \subseteq Revision
    BY CallFields
  <2> QED
    BY <1>6, <2>1, EmptyFacts, MergeAssumption DEF Crash, TypeOK, storeVars
<1>7. CASE UNCHANGED vars
  BY <1>7 DEF vars, TypeOK
<1> QED
  BY <1>1, <1>2, <1>3, <1>4, <1>5, <1>6, <1>7 DEF Next

LEMMA Log == TypeOK /\ LogInv /\ [Next]_vars => LogInv'
<1> SUFFICES ASSUME TypeOK, LogInv, [Next]_vars PROVE LogInv'
  OBVIOUS
<1>1. CASE Arrive
  <2>1. PICK S \in Together, v \in Value : events' = Append(events, [sources |-> S, value |-> v])
    BY <1>1 DEF Arrive
  <2>2. /\ events' \in Seq([sources : Together, value : Value])
        /\ Len(events') = Len(events) + 1
        /\ \A i \in 1..Len(events) : events'[i] = events[i]
    BY <2>1 DEF LogInv
  <2> QED
    BY <1>1, <2>2, MergeAssumption DEF Arrive, LogInv, TypeOK
<1>2. CASE TakeEvent
  BY <1>2, TakenCalls DEF TakeEvent, LogInv, TypeOK
<1>3. CASE CommitEvent
  BY <1>3 DEF CommitEvent, LogInv, TypeOK
<1>4. CASE Crash
  BY <1>4 DEF Crash, LogInv
<1>5. CASE UNCHANGED <<events, handled, batch>>
  BY <1>5 DEF LogInv
<1>6. ASSUME NEW s \in Source, CallNext(s) \/ ReadTaskFails(s)
      PROVE  UNCHANGED <<events, handled, batch>>
  BY <1>6 DEF CallNext, Enter, ReadAccumulator, ReadTask, ReadTaskFails, SavePartial,
              DropAccumulator, StartTask, SkipNode, MarkStale, RecordTask, Release, OnlyCall,
              eventVars
<1> QED
  BY <1>1, <1>2, <1>3, <1>4, <1>5, <1>6 DEF Next, Fork, NewRevision, vars

LEMMA Calls == TypeOK /\ LogInv /\ CallInv /\ [Next]_vars => CallInv'
<1> SUFFICES ASSUME TypeOK, LogInv, CallInv, [Next]_vars PROVE CallInv'
  OBVIOUS
<1>1. Revision \subseteq Nat /\ active \in Nat
  BY DEF Revision, TypeOK
<1>2. CASE Fork
  BY <1>1, <1>2, CallFields DEF Fork, NewRevision, CallInv, InFlight, callVars
<1>3. CASE TakeEvent
  BY <1>1, <1>3, TakenCalls DEF TakeEvent, CallInv, InFlight, storeVars
<1>4. CASE CommitEvent
  BY <1>4 DEF CommitEvent, CallInv, InFlight, storeVars, callVars
<1>5. CASE Crash
  BY <1>5, EmptyFacts DEF Crash, CallInv, InFlight
<1>6. ASSUME NEW s \in Source, CallMoves(s)
      PROVE  CallInv'
  <2>1. PICK step \in Step \ {"none", "todo"}, inputs \in Inputs : Goto(s, step, inputs)
    BY <1>6, TypeMoves
  <2>2. active' = active /\ batch' = batch /\ InFlight(s)
    BY <1>6 DEF CallMoves, Enter, ReadAccumulator, ReadTask, ReadTaskFails, DropAccumulator,
                StartTask, OnlyCall, storeVars, eventVars, InFlight, At
  <2> QED
    BY <2>1, <2>2, GotoFacts DEF CallInv, InFlight
<1>7. ASSUME NEW s \in Source, CallEnds(s)
      PROVE  CallInv'
  <2>1. PICK left \in Inputs : Release(s, left)
    BY <1>7, TypeEnds
  <2> QED
    BY <2>1, ReleaseFacts, EmptyFacts DEF CallInv, InFlight, Release, eventVars
<1>8. CASE Arrive \/ UNCHANGED vars
  BY <1>8 DEF Arrive, vars, CallInv, InFlight, storeVars, callVars
<1> QED
  BY <1>2, <1>3, <1>4, <1>5, <1>6, <1>7, <1>8 DEF Next, CallNext, CallMoves, CallEnds

-----------------------------------------------------------------------------
(* The chain of promises. *)

LEMMA LockKept ==
  ASSUME LockInv, UNCHANGED <<tail, ahead>>,
         \A s \in Source : /\ InZone(s)' <=> InZone(s)
                           /\ InZone(s) => call'[s].rev = call[s].rev
                           /\ Deep(s)' => ahead[s] = NoCall
  PROVE  LockInv'
<1>1. ASSUME NEW r \in Revision
      PROVE  \E n \in Nat : \E f : Line(r, n, f)'
  <2>1. PICK n \in Nat : \E f : Line(r, n, f)
    BY DEF LockInv
  <2>2. PICK f : Line(r, n, f)
    BY <2>1
  <2>3. Line(r, n, f)'
    BY <2>2 DEF Line
  <2> QED
    BY <2>3
<1> QED
  BY <1>1 DEF LockInv

(* To enter is to stand behind the last. *)
LEMMA LockEnter ==
  ASSUME TypeOK, LockInv, NEW s \in Source, Enter(s)
  PROVE  LockInv'
<1> USE CallFields
<1>1. Goto(s, "queued", Empty) /\ ~InZone(s) /\ call[s].rev \in Revision
  BY DEF Enter, At, InZone
<1>2. /\ InZone(s)' /\ ~Deep(s)' /\ call'[s].rev = call[s].rev
      /\ \A t \in Source : t # s => call'[t] = call[t] /\ (InZone(t)' <=> InZone(t))
                                     /\ (Deep(t)' <=> Deep(t))
  BY <1>1, GotoFacts, EmptyFacts DEF InZone, Deep, Step
<1>3. /\ ahead'[s] = tail[call[s].rev] /\ tail'[call[s].rev] = s
      /\ \A t \in Source : t # s => ahead'[t] = ahead[t]
      /\ \A r \in Revision : r # call[s].rev => tail'[r] = tail[r]
  BY <1>1 DEF Enter, TypeOK
<1>4. \A t \in Source : (Deep(t)' \/ ~InZone(t)') => ahead'[t] = NoCall
  BY <1>2, <1>3 DEF LockInv
<1>5. ASSUME NEW r \in Revision, r # call[s].rev
      PROVE  \E n \in Nat : \E f : Line(r, n, f)'
  <2>1. PICK n \in Nat : \E f : Line(r, n, f)
    BY DEF LockInv
  <2>2. PICK f : Line(r, n, f)
    BY <2>1
  <2>3. \A i \in 1..n : f[i] # s
    BY <1>1, <2>2 DEF Line
  <2>4. Line(r, n, f)'
    BY <1>2, <1>3, <1>5, <2>2, <2>3 DEF Line
  <2> QED
    BY <2>4
<1>6. ASSUME NEW r \in Revision, r = call[s].rev
      PROVE  \E n \in Nat : \E f : Line(r, n, f)'
  <2>1. PICK n \in Nat : \E f : Line(r, n, f)
    BY DEF LockInv
  <2>2. PICK f : Line(r, n, f)
    BY <2>1
  <2> DEFINE g == [i \in 1..(n + 1) |-> IF i = n + 1 THEN s ELSE f[i]]
  <2>3. /\ g \in [1..(n + 1) -> Source] /\ g[n + 1] = s
        /\ \A i \in 1..n : i \in 1..(n + 1) /\ i # n + 1 /\ g[i] = f[i] /\ g[i] # s
    BY <1>1, <2>2 DEF Line
  <2>4. \A i \in 1..(n + 1) : i \in 1..n \/ i = n + 1
    OBVIOUS
  <2> HIDE DEF g
  <2>5. \A i \in 1..(n + 1) : InZone(g[i])' /\ call'[g[i]].rev = r
    BY <1>2, <1>6, <2>2, <2>3, <2>4 DEF Line
  <2>6. \A t \in Source : InZone(t)' /\ call'[t].rev = r => \E i \in 1..(n + 1) : g[i] = t
    <3> SUFFICES ASSUME NEW t \in Source, InZone(t)', call'[t].rev = r
                 PROVE  \E i \in 1..(n + 1) : g[i] = t
      OBVIOUS
    <3>1. CASE t = s
      BY <3>1, <2>3
    <3>2. CASE t # s
      BY <3>2, <1>2, <2>2, <2>3 DEF Line
    <3> QED
      BY <3>1, <3>2
  <2>7. \A i, j \in 1..(n + 1) : g[i] = g[j] => i = j
    BY <2>2, <2>3, <2>4 DEF Line
  <2>8. tail'[r] = g[n + 1] /\ ahead'[g[1]] = NoCall
    <3>1. CASE n = 0
      BY <3>1, <1>3, <1>6, <2>2, <2>3 DEF Line
    <3>2. CASE n > 0
      <4>1. 1 \in 1..n
        BY <3>2
      <4> QED
        BY <3>2, <4>1, <1>3, <1>6, <2>2, <2>3 DEF Line
    <3> QED
      BY <3>1, <3>2
  <2>9. \A i \in 1..(n + 1) : i > 1 => ahead'[g[i]] = g[i - 1]
    <3> SUFFICES ASSUME NEW i \in 1..(n + 1), i > 1
                 PROVE  ahead'[g[i]] = g[i - 1]
      OBVIOUS
    <3>1. i - 1 \in 1..n
      OBVIOUS
    <3>2. CASE i = n + 1
      BY <3>1, <3>2, <1>3, <1>6, <2>2, <2>3 DEF Line
    <3>3. CASE i \in 1..n
      BY <3>1, <3>3, <1>3, <1>6, <2>2, <2>3 DEF Line
    <3> QED
      BY <3>2, <3>3
  <2>10. Line(r, n + 1, g)'
    BY <2>3, <2>5, <2>6, <2>7, <2>8, <2>9 DEF Line
  <2> WITNESS n + 1 \in Nat
  <2> WITNESS g
  <2> QED
    BY <2>10
<1> QED
  BY <1>4, <1>5, <1>6 DEF LockInv

(* To leave is to let the second go on. *)
LEMMA LockRelease ==
  ASSUME TypeOK, LockInv, NEW s \in Source, Deep(s), NEW left \in Inputs, Release(s, left)
  PROVE  LockInv'
<1> USE CallFields
<1>1. /\ InZone(s) /\ ahead[s] = NoCall /\ call[s].rev \in Revision /\ s # NoCall
  BY MergeAssumption DEF Deep, LockInv
<1>2. /\ ~InZone(s)' /\ ~Deep(s)'
      /\ \A t \in Source : t # s => call'[t] = call[t] /\ (InZone(t)' <=> InZone(t))
                                     /\ (Deep(t)' <=> Deep(t))
  BY ReleaseFacts, EmptyFacts DEF InZone, Deep
<1>3. /\ \A t \in Source : ahead'[t] = IF ahead[t] = s THEN NoCall ELSE ahead[t]
      /\ \A r \in Revision : tail'[r] = IF tail[r] = s THEN NoCall ELSE tail[r]
  BY DEF Release, TypeOK
<1>4. \A t \in Source : (Deep(t)' \/ ~InZone(t)') => ahead'[t] = NoCall
  BY <1>1, <1>2, <1>3 DEF LockInv
<1>5. ASSUME NEW r \in Revision, r # call[s].rev
      PROVE  \E n \in Nat : \E f : Line(r, n, f)'
  <2>1. PICK n \in Nat : \E f : Line(r, n, f)
    BY DEF LockInv
  <2>2. PICK f : Line(r, n, f)
    BY <2>1
  <2>3. \A i \in 1..n : f[i] # s /\ f[i] \in Source
    BY <1>5, <2>2 DEF Line
  <2>4. \A i \in 1..n : i > 1 => i - 1 \in 1..n
    OBVIOUS
  <2>5. n > 0 => n \in 1..n /\ 1 \in 1..n
    OBVIOUS
  <2>6. Line(r, n, f)'
    BY <1>1, <1>2, <1>3, <1>5, <2>2, <2>3, <2>4, <2>5 DEF Line
  <2> QED
    BY <2>6
<1>6. ASSUME NEW r \in Revision, r = call[s].rev
      PROVE  \E n \in Nat : \E f : Line(r, n, f)'
  <2>1. PICK n \in Nat : \E f : Line(r, n, f)
    BY DEF LockInv
  <2>2. PICK f : Line(r, n, f)
    BY <2>1
  <2>3. n \in Nat \ {0} /\ f[1] = s
    <3>1. PICK i \in 1..n : f[i] = s
      BY <1>1, <1>6, <2>2 DEF Line
    <3>2. i > 1 => i - 1 \in 1..n /\ ahead[s] = f[i - 1] /\ f[i - 1] \in Source
      BY <2>2, <3>1 DEF Line
    <3>3. ~(i > 1)
      BY <1>1, <3>2, MergeAssumption
    <3> QED
      BY <3>1, <3>3
  <2> DEFINE m == n - 1
             g == [i \in 1..m |-> f[i + 1]]
  <2>4. /\ m \in Nat /\ g \in [1..m -> Source]
        /\ \A i \in 1..m : i + 1 \in 1..n /\ g[i] = f[i + 1] /\ g[i] # s
    BY <2>2, <2>3 DEF Line
  <2>5. \A i \in 1..n : i # 1 => i - 1 \in 1..m /\ g[i - 1] = f[i]
    BY <2>3
  <2> HIDE DEF m, g
  <2>6. \A i \in 1..m : InZone(g[i])' /\ call'[g[i]].rev = r
    <3> SUFFICES ASSUME NEW i \in 1..m
                 PROVE  InZone(g[i])' /\ call'[g[i]].rev = r
      OBVIOUS
    <3>1. i + 1 \in 1..n /\ g[i] = f[i + 1] /\ g[i] # s /\ g[i] \in Source
      BY <2>4
    <3>2. InZone(g[i]) /\ call[g[i]].rev = r
      BY <2>2, <3>1 DEF Line
    <3> QED
      BY <1>2, <3>1, <3>2
  <2>7. \A t \in Source : InZone(t)' /\ call'[t].rev = r => \E i \in 1..m : g[i] = t
    <3> SUFFICES ASSUME NEW t \in Source, InZone(t)', call'[t].rev = r
                 PROVE  \E i \in 1..m : g[i] = t
      OBVIOUS
    <3>1. t # s /\ InZone(t) /\ call[t].rev = r
      BY <1>2, <1>6
    <3>2. PICK i \in 1..n : f[i] = t
      BY <3>1, <2>2 DEF Line
    <3> QED
      BY <3>1, <3>2, <2>3, <2>5
  <2>8. \A i, j \in 1..m : g[i] = g[j] => i = j
    <3> SUFFICES ASSUME NEW i \in 1..m, NEW j \in 1..m, g[i] = g[j]
                 PROVE  i = j
      OBVIOUS
    <3>1. i + 1 = j + 1
      BY <2>2, <2>4 DEF Line
    <3> QED
      BY <3>1, <2>4
  <2>9. m = 0 => tail'[r] = NoCall
    BY <1>1, <1>3, <1>6, <2>2, <2>3 DEF Line, m
  <2>10. ASSUME m > 0
         PROVE  tail'[r] = g[m] /\ ahead'[g[1]] = NoCall
    <3>1. 1 \in 1..m /\ m \in 1..m /\ m + 1 = n /\ 2 \in 1..n /\ 2 > 1 /\ n > 0
      BY <2>3, <2>4, <2>10 DEF m
    <3>2. tail[r] = f[n] /\ f[n] = g[m] /\ g[m] # s
      BY <3>1, <2>2, <2>4 DEF Line
    <3>3. g[1] = f[2] /\ ahead[f[2]] = f[1]
      BY <3>1, <2>2, <2>4 DEF Line
    <3> QED
      BY <3>1, <3>2, <3>3, <1>1, <1>3, <2>3, <2>4
  <2>11. \A i \in 1..m : i > 1 => ahead'[g[i]] = g[i - 1]
    <3> SUFFICES ASSUME NEW i \in 1..m, i > 1
                 PROVE  ahead'[g[i]] = g[i - 1]
      OBVIOUS
    <3>1. i - 1 \in 1..m /\ i + 1 \in 1..n /\ i + 1 > 1 /\ (i - 1) + 1 = i /\ (i + 1) - 1 = i
      BY <2>4
    <3>2. g[i - 1] = f[i] /\ g[i] = f[i + 1] /\ g[i - 1] # s
      BY <3>1, <2>4
    <3>3. ahead[f[i + 1]] = f[i]
      BY <3>1, <2>2 DEF Line
    <3> QED
      BY <3>2, <3>3, <1>3, <2>4
  <2>12. Line(r, m, g)'
    BY <2>4, <2>6, <2>7, <2>8, <2>9, <2>10, <2>11 DEF Line
  <2> QED
    BY <2>4, <2>12
<1> QED
  BY <1>4, <1>5, <1>6 DEF LockInv

LEMMA Lock == TypeOK /\ LogInv /\ CallInv /\ LockInv /\ [Next]_vars => LockInv'
<1> SUFFICES ASSUME TypeOK, LogInv, CallInv, LockInv, [Next]_vars PROVE LockInv'
  OBVIOUS
<1>1. CASE TakeEvent
  <2>1. \A s \in batch' : ~InFlight(s)
    BY <1>1, TakenCalls DEF TakeEvent, CallInv
  <2>2. \A s \in Source : /\ InZone(s)' <=> InZone(s)
                          /\ InZone(s) => call'[s].rev = call[s].rev
                          /\ Deep(s)' => Deep(s)
    BY <1>1, <2>1, TakenCalls DEF InZone, Deep, InFlight
  <2> QED
    BY <1>1, <2>2, LockKept DEF TakeEvent, LockInv
<1>2. CASE Crash
  <2>1. \A s \in Source : ~InZone(s)' /\ ahead'[s] = NoCall
    BY <1>2, EmptyFacts DEF Crash, InZone
  <2>2. ASSUME NEW r \in Revision
        PROVE  Line(r, 0, [i \in 1..0 |-> NoCall])'
    BY <1>2, <2>1 DEF Line, Crash
  <2> QED
    BY <2>1, <2>2 DEF LockInv
<1>3. ASSUME NEW s \in Source, Enter(s)
      PROVE  LockInv'
  BY <1>3, LockEnter
<1>4. ASSUME NEW s \in Source,
             ReadAccumulator(s) \/ ReadTask(s) \/ ReadTaskFails(s) \/ DropAccumulator(s) \/ StartTask(s)
      PROVE  LockInv'
  <2>1. PICK step \in Step \ {"none", "todo"}, inputs \in Inputs : Goto(s, step, inputs)
    BY <1>4, TypeMoves DEF CallMoves
  <2>2. /\ InZone(s) /\ ahead[s] = NoCall /\ tail' = tail /\ ahead' = ahead
    BY <1>4 DEF ReadAccumulator, ReadTask, ReadTaskFails, DropAccumulator, StartTask,
                OnlyCall, At, InZone, Deep, LockInv
  <2>3. \A t \in Source : /\ InZone(t)' <=> InZone(t)
                          /\ InZone(t) => call'[t].rev = call[t].rev
                          /\ Deep(t)' => ahead[t] = NoCall
    BY <2>1, <2>2, GotoFacts DEF InZone, Deep, LockInv
  <2> QED
    BY <2>2, <2>3, LockKept
<1>5. ASSUME NEW s \in Source, CallEnds(s)
      PROVE  LockInv'
  <2>1. Deep(s)
    BY <1>5 DEF CallEnds, SavePartial, SkipNode, MarkStale, RecordTask, At, Deep, InZone
  <2> QED
    BY <1>5, <2>1, TypeEnds, LockRelease
<1>6. CASE UNCHANGED callVars
  BY <1>6, LockKept DEF callVars, InZone, Deep, LockInv
<1> QED
  BY <1>1, <1>2, <1>3, <1>4, <1>5, <1>6
  DEF Next, CallNext, CallEnds, Arrive, Fork, NewRevision, CommitEvent, vars, callVars

-----------------------------------------------------------------------------
(* What was delivered. *)

LEMMA NobodyElse ==
  ASSUME TypeOK, LockInv, NEW s \in Source, Busy(s)
  PROVE  \A t \in Source \ {s} : call[t].rev = call[s].rev => ~Deep(t)
BY OneIsAlone DEF Alone, Busy, Deep, LockInv

(* A step of the call whose turn it is can only disturb its own revision.        *)
LEMMA OwnRevision ==
  ASSUME TypeOK, CallInv, LockInv, DataInv, NEW s \in Source, Busy(s),
         NEW own \in Revision, own = call[s].rev, active' = active,
         \A r \in Revision \ {own} : acc'[r] = acc[r] /\ row'[r] = row[r] /\ given'[r] = given[r],
         \A t \in Source \ {s} : call'[t] = call[t],
         call'[s].step = "none" \/ call'[s].rev = own,
         lossy \subseteq lossy', lossy' \subseteq lossy \cup {own},
         own \notin lossy' =>
           RowAgrees(own)' /\ (Settled(own)' => AccAgrees(own)') /\
           (call'[s].step # "none" => CallAgrees(s)')
  PROVE  DataInv'
<1>1. Revision \subseteq Nat /\ active \in Nat /\ own <= active
  BY DEF Revision, TypeOK, CallInv, InFlight, Busy, InZone
<1>2. \A r \in Revision : r > active' => Untouched(r)'
  BY <1>1 DEF DataInv, Untouched
<1>3. ASSUME NEW r \in Revision \ lossy'
      PROVE  RowAgrees(r)' /\ (Settled(r)' => AccAgrees(r)')
  <2>1. CASE r = own
    BY <1>3, <2>1
  <2>2. CASE r # own
    <3>1. Settled(r)' => Settled(r)
      BY <2>2 DEF Settled, PastDrop
    <3> QED
      BY <1>3, <2>2, <3>1 DEF DataInv, RowAgrees, AccAgrees, Full
  <2> QED
    BY <2>1, <2>2
<1>4. ASSUME NEW t \in Source, call'[t].rev \notin lossy'
      PROVE  CallAgrees(t)'
  <2>1. CASE t = s
    BY <1>4, <2>1 DEF CallAgrees, PastDrop
  <2>2. CASE t # s /\ call[t].rev = own
    <3>1. call'[t].step \notin {"task", "dispatch", "ready", "record"}
      BY <2>2, NobodyElse DEF Deep, InZone
    <3> QED
      BY <3>1 DEF CallAgrees, PastDrop
  <2>3. CASE t # s /\ call[t].rev # own
    <3>1. call'[t] = call[t] /\ call[t].rev \in Revision \ {own} /\ call[t].rev \notin lossy
      BY <1>4, <2>3, CallFields
    <3> QED
      BY <3>1 DEF DataInv, CallAgrees, PastDrop, Merged, Full
  <2> QED
    BY <2>1, <2>2, <2>3
<1> QED
  BY <1>2, <1>3, <1>4 DEF DataInv

(* What the call whose turn it is may rely on. *)
LEMMA OwnFacts ==
  ASSUME TypeOK, LockInv, DataInv, NEW s \in Source, Busy(s), call[s].rev \notin lossy
  PROVE  /\ RowAgrees(call[s].rev) /\ CallAgrees(s)
         /\ ~PastDrop(s) => AccAgrees(call[s].rev)
         /\ given[call[s].rev] \in Inputs
<1>1. call[s].rev \in Revision \ lossy
  BY CallFields
<1>2. ~PastDrop(s) => Settled(call[s].rev)
  BY NobodyElse DEF Settled, PastDrop, Deep, InZone
<1> QED
  BY <1>1, <1>2 DEF DataInv, TypeOK

LEMMA DataEnter ==
  ASSUME TypeOK, DataInv, NEW s \in Source, Enter(s)
  PROVE  DataInv'
<1>1. Goto(s, "queued", Empty) /\ UNCHANGED <<active, acc, row, given, lossy>> /\ ~PastDrop(s)
  BY DEF Enter, storeVars, At, PastDrop
<1>2. /\ call'[s].step = "queued" /\ call'[s].rev = call[s].rev
      /\ \A t \in Source : t # s => call'[t] = call[t]
  BY <1>1, GotoFacts, EmptyFacts DEF Step
<1>3. \A t \in Source : /\ call'[t].rev = call[t].rev
                        /\ PastDrop(t)' <=> PastDrop(t)
                        /\ call[t].rev \notin lossy => CallAgrees(t)'
  BY <1>1, <1>2 DEF DataInv, CallAgrees, PastDrop, Merged, Full
<1>4. \A r \in Revision : Settled(r)' => Settled(r)
  BY <1>3 DEF Settled
<1> QED
  BY <1>1, <1>3, <1>4 DEF DataInv, Untouched, RowAgrees, AccAgrees, Full

LEMMA DataRead ==
  ASSUME TypeOK, CallInv, LockInv, DataInv, NEW s \in Source, ReadAccumulator(s)
  PROVE  DataInv'
<1> DEFINE own == call[s].rev
<1>1. Busy(s) /\ own \in Revision /\ ~PastDrop(s)
  BY CallFields DEF ReadAccumulator, At, Busy, InZone, PastDrop
<1>2. UNCHANGED <<active, acc, row, given, lossy>>
  BY DEF ReadAccumulator, OnlyCall, storeVars
<1>3. PICK step \in {"dispatch", "task"}, inputs \in Inputs :
        /\ Goto(s, step, inputs)
        /\ step = "dispatch" => acc[own] # NoRow /\ inputs = Merged(s, acc[own])
        /\ step = "task" => acc[own] = NoRow
  BY CallFields, MergedFacts, EmptyFacts DEF ReadAccumulator, Accumulator
<1>4. /\ call'[s].step = step /\ call'[s].inputs = inputs /\ call'[s].rev = own
      /\ call'[s].value = call[s].value
      /\ \A t \in Source \ {s} : call'[t] = call[t]
  BY <1>3, GotoFacts DEF Step
<1>5. ASSUME own \notin lossy'
      PROVE  /\ RowAgrees(own)' /\ (Settled(own)' => AccAgrees(own)')
             /\ CallAgrees(s)'
  <2>1. RowAgrees(own) /\ AccAgrees(own) /\ given[own] \in Inputs
    BY <1>1, <1>2, <1>5, OwnFacts
  <2>2. RowAgrees(own)' /\ AccAgrees(own)'
    BY <1>2, <1>4, <2>1 DEF RowAgrees, AccAgrees, Full
  <2>3. step = "dispatch" => inputs = Merged(s, given[own])
    BY <1>3, <2>1 DEF AccAgrees
  <2>4. CallAgrees(s)'
    BY <1>2, <1>3, <1>4, <2>3 DEF CallAgrees, PastDrop, Merged
  <2> QED
    BY <2>2, <2>4
<1> QED
  BY <1>1, <1>2, <1>4, <1>5, OwnRevision

LEMMA DataReadTask ==
  ASSUME TypeOK, CallInv, LockInv, DataInv, NEW s \in Source, ReadTask(s)
  PROVE  DataInv'
<1> DEFINE own == call[s].rev
           state == row[own]
           base == IF state.task = NoRow THEN Empty ELSE state.task
<1>1. Busy(s) /\ own \in Revision /\ ~PastDrop(s) /\ call[s].step = "task"
  BY CallFields DEF ReadTask, At, Busy, InZone, Deep, LockInv, PastDrop
<1>2. UNCHANGED <<active, acc, row, given>>
  BY DEF ReadTask, storeVars
<1>3. /\ lossy \subseteq lossy' /\ lossy' \subseteq lossy \cup {own}
      /\ own \notin lossy' => own \notin lossy /\ ~(state.task = NoRow /\ state.inputs # NoRow)
  BY DEF ReadTask
<1>4. base \in Inputs /\ Merged(s, base) \in Inputs /\ Goto(s, "dispatch", Merged(s, base))
  BY CallFields, EmptyFacts, MergedFacts DEF ReadTask
<1>5. /\ call'[s].step = "dispatch" /\ call'[s].inputs = Merged(s, base) /\ call'[s].rev = own
      /\ call'[s].value = call[s].value
      /\ \A t \in Source \ {s} : call'[t] = call[t]
  BY <1>4, GotoFacts DEF Step
<1>6. ASSUME own \notin lossy'
      PROVE  /\ RowAgrees(own)' /\ (Settled(own)' => AccAgrees(own)')
             /\ CallAgrees(s)'
  <2>1. RowAgrees(own) /\ AccAgrees(own) /\ acc[own] = NoRow /\ given[own] \in Inputs
    BY <1>1, <1>3, <1>6, OwnFacts DEF CallAgrees
  <2>2. RowAgrees(own)' /\ AccAgrees(own)'
    BY <1>2, <1>5, <2>1 DEF RowAgrees, AccAgrees, Full
  <2>3. base = given[own]
    <3>1. CASE state.task = NoRow
      <4>1. state.inputs = NoRow
        BY <1>3, <1>6, <3>1
      <4> QED
        BY <2>1, <3>1, <4>1, EmptyFacts DEF AccAgrees
    <3>2. CASE state.task # NoRow
      BY <2>1, <3>2 DEF RowAgrees, AccAgrees
    <3> QED
      BY <3>1, <3>2
  <2>4. CallAgrees(s)'
    BY <1>2, <1>5, <2>3 DEF CallAgrees, PastDrop, Merged
  <2> QED
    BY <2>2, <2>4
<1> QED
  BY <1>1, <1>2, <1>3, <1>5, <1>6, OwnRevision

LEMMA DataReadTaskFails ==
  ASSUME TypeOK, CallInv, LockInv, DataInv, NEW s \in Source, ReadTaskFails(s)
  PROVE  DataInv'
<1> DEFINE own == call[s].rev
<1>1. Busy(s) /\ own \in Revision /\ UNCHANGED <<active, acc, row, given>>
  BY CallFields DEF ReadTaskFails, At, Busy, InZone, Deep, LockInv, storeVars
<1>2. lossy' = lossy \cup {own} /\ Goto(s, "dispatch", Merged(s, Empty))
  BY DEF ReadTaskFails
<1>3. Merged(s, Empty) \in Inputs
  BY CallFields, EmptyFacts, MergedFacts
<1>4. call'[s].rev = own /\ \A t \in Source \ {s} : call'[t] = call[t]
  BY <1>2, <1>3, GotoFacts DEF Step
<1> QED
  BY <1>1, <1>2, <1>4, OwnRevision

LEMMA DataDrop ==
  ASSUME TypeOK, CallInv, LockInv, DataInv, NEW s \in Source, DropAccumulator(s)
  PROVE  DataInv'
<1> DEFINE own == call[s].rev
<1>1. /\ Busy(s) /\ own \in Revision /\ ~PastDrop(s)
      /\ call[s].step = "dispatch" /\ Full(call[s].inputs)
  BY CallFields DEF DropAccumulator, At, Busy, InZone, Deep, LockInv, PastDrop
<1>2. /\ UNCHANGED <<active, row, given, lossy>> /\ acc'[own] = NoRow
      /\ \A r \in Revision \ {own} : acc'[r] = acc[r]
  BY <1>1 DEF DropAccumulator, Discard, TypeOK
<1>3. Goto(s, "ready", call[s].inputs) /\ call[s].inputs \in Inputs
  BY CallFields DEF DropAccumulator
<1>4. /\ call'[s].step = "ready" /\ call'[s].inputs = call[s].inputs /\ call'[s].rev = own
      /\ call'[s].value = call[s].value
      /\ \A t \in Source \ {s} : call'[t] = call[t]
  BY <1>3, GotoFacts DEF Step
<1>5. ASSUME own \notin lossy'
      PROVE  /\ RowAgrees(own)' /\ (Settled(own)' => AccAgrees(own)')
             /\ CallAgrees(s)'
  <2>1. RowAgrees(own) /\ CallAgrees(s)
    BY <1>1, <1>2, <1>5, OwnFacts
  <2>2. RowAgrees(own)' /\ ~Settled(own)'
    BY <1>2, <1>4, <2>1 DEF RowAgrees, Full, Settled, PastDrop
  <2>3. CallAgrees(s)'
    BY <1>1, <1>2, <1>4, <2>1 DEF CallAgrees, PastDrop, Merged, Full
  <2> QED
    BY <2>2, <2>3
<1> QED
  BY <1>1, <1>2, <1>4, <1>5, OwnRevision

LEMMA DataStart ==
  ASSUME TypeOK, CallInv, LockInv, DataInv, NEW s \in Source, StartTask(s)
  PROVE  DataInv'
<1> DEFINE own == call[s].rev
<1>1. Busy(s) /\ own \in Revision /\ PastDrop(s) /\ call[s].step = "ready"
  BY CallFields DEF StartTask, At, Busy, InZone, Deep, LockInv, PastDrop
<1>2. UNCHANGED <<active, acc, row, given, lossy>>
  BY DEF StartTask, OnlyCall, storeVars
<1>3. Goto(s, "record", call[s].inputs) /\ call[s].inputs \in Inputs
  BY CallFields DEF StartTask
<1>4. /\ call'[s].step = "record" /\ call'[s].inputs = call[s].inputs /\ call'[s].rev = own
      /\ call'[s].value = call[s].value
      /\ \A t \in Source \ {s} : call'[t] = call[t]
  BY <1>3, GotoFacts DEF Step
<1>5. ASSUME own \notin lossy'
      PROVE  /\ RowAgrees(own)' /\ (Settled(own)' => AccAgrees(own)')
             /\ CallAgrees(s)'
  <2>1. RowAgrees(own) /\ CallAgrees(s)
    BY <1>1, <1>2, <1>5, OwnFacts
  <2>2. RowAgrees(own)' /\ ~Settled(own)'
    BY <1>2, <1>4, <2>1 DEF RowAgrees, Full, Settled, PastDrop
  <2>3. CallAgrees(s)'
    BY <1>1, <1>2, <1>4, <2>1 DEF CallAgrees, PastDrop, Merged, Full
  <2> QED
    BY <2>2, <2>3
<1> QED
  BY <1>1, <1>2, <1>4, <1>5, OwnRevision

LEMMA DataSave ==
  ASSUME TypeOK, CallInv, LockInv, DataInv, NEW s \in Source, SavePartial(s)
  PROVE  DataInv'
<1> SUFFICES ASSUME NEW own \in Revision, own = call[s].rev
             PROVE  DataInv'
  BY CallFields
<1>1. /\ Busy(s) /\ own \in Revision /\ ~PastDrop(s)
      /\ call[s].step = "dispatch" /\ ~Full(call[s].inputs) /\ call[s].value \in Value
  BY CallFields DEF SavePartial, At, Busy, InZone, Deep, LockInv, PastDrop
<1>2. /\ UNCHANGED <<active, row, lossy>> /\ acc'[own] = call[s].inputs
      /\ \A r \in Revision \ {own} : acc'[r] = acc[r]
  BY <1>1 DEF SavePartial, Release, Overwrite, TypeOK
<1>3. /\ call'[s].step = "none" /\ given'[own] = Merged(s, given[own])
      /\ \A t \in Source \ {s} : call'[t] = call[t]
      /\ \A r \in Revision \ {own} : given'[r] = given[r]
  BY <1>1, ReleaseFacts, LeftFacts, EmptyFacts DEF SavePartial, Delivered
<1>4. ASSUME own \notin lossy'
      PROVE  RowAgrees(own)' /\ AccAgrees(own)'
  <2>1. RowAgrees(own) /\ CallAgrees(s) /\ given[own] \in Inputs
    BY <1>1, <1>2, <1>4, OwnFacts
  <2>2. call[s].inputs = Merged(s, given[own]) /\ call[s].inputs # NoRow
    BY <1>1, <2>1, CallFields, EmptyFacts DEF CallAgrees
  <2>3. ~Full(given'[own])
    BY <1>1, <1>3, <2>2
  <2>4. ~Full(given[own])'
    BY <2>3 DEF Full
  <2> QED
    BY <1>2, <1>3, <2>1, <2>2, <2>4 DEF RowAgrees, AccAgrees
<1> QED
  BY <1>1, <1>2, <1>3, <1>4, OwnRevision

(* SkipNode, MarkStale and RecordTask leave the row with the data that was read. *)
LEMMA DataRecorded ==
  ASSUME TypeOK, CallInv, LockInv, DataInv, NEW s \in Source,
         SkipNode(s) \/ MarkStale(s) \/ RecordTask(s)
  PROVE  DataInv'
<1> SUFFICES ASSUME NEW own \in Revision, own = call[s].rev
             PROVE  DataInv'
  BY CallFields
<1>1. /\ Busy(s) /\ own \in Revision /\ PastDrop(s) /\ call[s].value \in Value
      /\ call[s].step \in {"ready", "record"}
  BY CallFields DEF SkipNode, MarkStale, RecordTask, At, Busy, InZone, Deep, LockInv, PastDrop
<1>2. UNCHANGED <<active, acc>>
  BY DEF SkipNode, MarkStale, RecordTask, Release
<1> DEFINE data == DataOf(call[s].inputs)
<1>3. /\ \A r \in Revision \ {own} : row'[r] = row[r]
      /\ lossy \subseteq lossy' /\ lossy' \subseteq lossy \cup {own}
      /\ own \notin lossy' =>
           /\ row'[own].inputs = data
           /\ RowAgrees(own) => row'[own].task \in {NoRow, data}
  <2>1. CASE SkipNode(s)
    BY <2>1 DEF SkipNode, State, Unchanged, RowAgrees
  <2>2. CASE MarkStale(s) \/ RecordTask(s)
    <3>1. PICK update \in NodeUpdate :
            /\ UpdateNodeState(update) /\ update.rev = own
            /\ DataOf(update.inputs) = data /\ update.task \in {NoRow, DataOf(update.inputs)}
      BY <2>2, Updates
    <3> DEFINE state == [task |-> update.task, inputs |-> DataOf(update.inputs)]
    <3>2. state.inputs = data /\ state.task \in {NoRow, data}
      BY <3>1
    <3>3. /\ \A r \in Revision \ {own} : row'[r] = row[r]
          /\ lossy \subseteq lossy' /\ lossy' \subseteq lossy \cup {own}
          /\ own \notin lossy' => row'[own] = state
      BY <3>1, UpdateFacts
    <3> HIDE DEF state
    <3> QED
      BY <3>2, <3>3
  <2> QED
    BY <2>1, <2>2
<1>4. /\ call'[s].step = "none" /\ given'[own] = DataOf(Merged(s, given[own]))
      /\ \A t \in Source \ {s} : call'[t] = call[t]
      /\ \A r \in Revision \ {own} : given'[r] = given[r]
  BY <1>1, ReleaseFacts, LeftFacts, EmptyFacts DEF SkipNode, MarkStale, RecordTask, UsedUp, Delivered
<1>5. ASSUME own \notin lossy'
      PROVE  RowAgrees(own)' /\ AccAgrees(own)'
  <2>1. /\ RowAgrees(own) /\ call[s].inputs = Merged(s, given[own]) /\ acc[own] = NoRow
    BY <1>1, <1>3, <1>5, OwnFacts DEF CallAgrees
  <2>2. row'[own].inputs = given'[own] /\ row'[own].task \in {NoRow, row'[own].inputs}
    BY <1>3, <1>4, <1>5, <2>1
  <2> QED
    BY <1>2, <2>1, <2>2 DEF RowAgrees, AccAgrees
<1> QED
  BY <1>1, <1>2, <1>3, <1>4, <1>5, OwnRevision

(* A fork that is not among the losses finds accumulator and row in agreement.   *)
LEMMA DataFork ==
  ASSUME TypeOK, CallInv, LockInv, DataInv, Fork
  PROVE  DataInv'
<1>1. /\ Revision \subseteq Nat /\ active \in Revision
      /\ active' = active + 1 /\ active' \in Revision
  BY MergeAssumption DEF Fork, NewRevision, Revision, TypeOK
<1>2. /\ UNCHANGED call /\ lossy \subseteq lossy' /\ lossy' \subseteq lossy \cup {active'}
      /\ row'[active'] = row[active] /\ given'[active'] = given[active]
      /\ \A r \in Revision \ {active'} : row'[r] = row[r] /\ given'[r] = given[r] /\ acc'[r] = acc[r]
  BY <1>1 DEF Fork, NewRevision, callVars, TypeOK
<1>3. \A s \in Source : InFlight(s) => call[s].rev <= active
  BY DEF CallInv
<1>4. ASSUME NEW r \in Revision, r > active'
      PROVE  Untouched(r)'
  <2>1. r > active /\ r # active'
    BY <1>1, <1>4
  <2>2. Untouched(r)
    BY <2>1 DEF DataInv
  <2> QED
    BY <1>2, <2>1, <2>2 DEF Untouched
<1>5. ASSUME NEW r \in Revision \ lossy'
      PROVE  RowAgrees(r)' /\ (Settled(r)' => AccAgrees(r)')
  <2>1. CASE r = active'
    <3>1. /\ acc'[active'] = acc[active] /\ active \notin lossy
          /\ \A s \in Source : PastDrop(s) => call[s].rev # active
      BY <1>1, <1>5, <2>1 DEF Fork, TypeOK
    <3>2. Settled(active)
      BY <3>1 DEF Settled
    <3>3. RowAgrees(active) /\ AccAgrees(active)
      BY <1>1, <3>1, <3>2 DEF DataInv
    <3> QED
      BY <1>1, <1>2, <2>1, <3>1, <3>3 DEF RowAgrees, AccAgrees, Full
  <2>2. CASE r # active'
    BY <1>2, <1>5, <2>2 DEF DataInv, RowAgrees, AccAgrees, Full, Settled, PastDrop
  <2> QED
    BY <2>1, <2>2
<1>6. ASSUME NEW s \in Source, call'[s].rev \notin lossy'
      PROVE  CallAgrees(s)'
  <2>1. CASE InFlight(s)
    <3>1. call[s].rev \in Revision \ {active'} /\ call[s].rev \notin lossy
      BY <1>1, <1>2, <1>3, <1>6, <2>1, CallFields
    <3> QED
      BY <1>2, <3>1 DEF DataInv, CallAgrees, Merged, Full, PastDrop
  <2>2. CASE ~InFlight(s)
    BY <1>2, <2>2 DEF CallAgrees, PastDrop, InFlight
  <2> QED
    BY <2>1, <2>2
<1> QED
  BY <1>4, <1>5, <1>6 DEF DataInv

LEMMA DataTake ==
  ASSUME TypeOK, LogInv, CallInv, DataInv, TakeEvent
  PROVE  DataInv'
<1>1. UNCHANGED <<active, acc, row, given, lossy>>
  BY DEF TakeEvent, storeVars
<1>2. \A s \in Source : \/ call'[s] = call[s]
                        \/ ~PastDrop(s) /\ call'[s].step = "todo"
  BY TakenCalls DEF TakeEvent, CallInv, InFlight, PastDrop
<1>3. \A r \in Revision : Settled(r)' => Settled(r)
  BY <1>2 DEF Settled, PastDrop
<1>4. \A s \in Source : call'[s].rev \notin lossy => CallAgrees(s)'
  BY <1>1, <1>2 DEF DataInv, CallAgrees, PastDrop, Merged, Full
<1> QED
  BY <1>1, <1>3, <1>4 DEF DataInv, Untouched, RowAgrees, AccAgrees, Full

LEMMA DataCrash ==
  ASSUME TypeOK, CallInv, DataInv, Crash
  PROVE  DataInv'
<1>1. /\ UNCHANGED <<active, acc, row, given>> /\ lossy \subseteq lossy'
      /\ \A s \in Source : call'[s].step = "none" /\ (PastDrop(s) => call[s].rev \in lossy')
      /\ \A r \in lossy' : r \in lossy \/ \E s \in Source : PastDrop(s) /\ call[s].rev = r
  BY EmptyFacts DEF Crash, storeVars
<1>2. \A r \in Revision : r > active => r \notin lossy'
  <2> SUFFICES ASSUME NEW r \in Revision, r > active, r \in lossy'
               PROVE  FALSE
    OBVIOUS
  <2>1. r \in Nat /\ active \in Nat
    BY DEF Revision, TypeOK
  <2>2. r \notin lossy
    BY DEF DataInv, Untouched
  <2>3. PICK s \in Source : PastDrop(s) /\ call[s].rev = r
    BY <1>1, <2>2
  <2> QED
    BY <2>1, <2>3 DEF CallInv, InFlight, PastDrop
<1>3. \A r \in Revision \ lossy' : r \notin lossy /\ Settled(r)
  BY <1>1 DEF Settled
<1>4. \A s \in Source : CallAgrees(s)'
  BY <1>1 DEF CallAgrees, PastDrop
<1> QED
  BY <1>1, <1>2, <1>3, <1>4 DEF DataInv, Untouched, RowAgrees, AccAgrees, Full

LEMMA Data ==
  TypeOK /\ LogInv /\ CallInv /\ LockInv /\ DataInv /\ [Next]_vars => DataInv'
<1> SUFFICES ASSUME TypeOK, LogInv, CallInv, LockInv, DataInv, [Next]_vars PROVE DataInv'
  OBVIOUS
<1>1. CASE Arrive \/ CommitEvent \/ UNCHANGED vars
  <2>1. UNCHANGED <<active, acc, row, call, given, lossy>>
    BY <1>1 DEF Arrive, CommitEvent, vars, storeVars, callVars
  <2> QED
    BY <2>1 DEF DataInv, Untouched, RowAgrees, AccAgrees, CallAgrees, Settled, PastDrop, Merged, Full
<1>2. CASE \E s \in Source : CallNext(s) \/ ReadTaskFails(s)
  BY <1>2, DataEnter, DataRead, DataReadTask, DataReadTaskFails, DataDrop, DataStart, DataSave, DataRecorded
  DEF CallNext
<1> QED
  BY <1>1, <1>2, DataFork, DataTake, DataCrash DEF Next

-----------------------------------------------------------------------------
(* Theorems. *)

LEMMA Invariance == Spec => []IInv
<1>1. IInv /\ [Next]_vars => IInv'
  BY Types, Log, Calls, Lock, Data DEF IInv
<1> QED
  BY InitInv, <1>1, PTL DEF Spec

(* The chain of promises is a lock: of the calls for a node of one revision, at  *)
(* most one has entered and waits for nobody (acquireMergeNodeLock).             *)
THEOREM OneCallInTheZone == Spec => []Alone
<1>1. IInv => Alone
  BY OneIsAlone DEF IInv
<1> QED
  BY Invariance, <1>1, PTL

(* ArrivalsAreKept, for any number of sources feeding any number of slots.       *)
THEOREM Kept == Spec => []ArrivalsAreKept
<1>1. IInv => ArrivalsAreKept
  BY DEF IInv, DataInv, AccAgrees, ArrivalsAreKept
<1> QED
  BY Invariance, <1>1, PTL

(* OneArrivalAtATime: the data that is recorded is what earlier calls delivered, *)
(* but for the slots of one source.                                              *)
THEOREM OneArrival == Spec => OneArrivalAtATime
<1> DEFINE ByOne(r) ==
      row'[r].inputs # row[r].inputs =>
        \/ \E s \in Source :
             {i \in Slot \ Meta : row'[r].inputs[i] # given[r][i]} \subseteq Feeds[s]
        \/ r \in lossy
<1>1. IInv /\ [Next]_vars => [\A r \in 1..active : ByOne(r)]_vars
  <2> SUFFICES ASSUME IInv, [Next]_vars, NEW r \in 1..active, r \notin lossy,
                      row'[r].inputs # row[r].inputs
               PROVE  \E s \in Source :
                        {i \in Slot \ Meta : row'[r].inputs[i] # given[r][i]} \subseteq Feeds[s]
    OBVIOUS
  <2> USE DEF IInv
  <2>0. r \in Revision /\ active \in Nat /\ r # active + 1
    BY MergeAssumption DEF Revision, TypeOK
  <2>1. CASE Fork
    BY <2>0, <2>1 DEF Fork, NewRevision, TypeOK
  <2>2. ASSUME NEW s \in Source, MarkStale(s) \/ RecordTask(s)
        PROVE  {i \in Slot \ Meta : row'[r].inputs[i] # given[r][i]} \subseteq Feeds[s]
    <3>1. PICK update \in NodeUpdate :
            /\ UpdateNodeState(update) /\ update.rev = call[s].rev
            /\ DataOf(update.inputs) = DataOf(call[s].inputs)
      BY <2>2, Updates
    <3> DEFINE state == [task |-> update.task, inputs |-> DataOf(update.inputs)]
    <3>a. state.inputs = DataOf(call[s].inputs)
      BY <3>1
    <3>b. /\ \A q \in Revision : q # call[s].rev => row'[q] = row[q]
          /\ row'[call[s].rev] = row[call[s].rev] \/ row'[call[s].rev] = state
      BY <3>1, UpdateFacts
    <3> HIDE DEF state
    <3>2. r = call[s].rev /\ row'[r].inputs = DataOf(call[s].inputs)
      BY <2>0, <3>a, <3>b
    <3>3. Busy(s) /\ PastDrop(s) /\ call[s].value \in Value
      BY <2>2, CallFields DEF MarkStale, RecordTask, At, Busy, InZone, Deep, LockInv, PastDrop
    <3>4. given[r] \in Inputs /\ call[s].inputs = Merged(s, given[r])
      BY <3>2, <3>3, OwnFacts DEF CallAgrees, PastDrop
    <3> QED
      BY <3>2, <3>3, <3>4, MergedFacts DEF DataOf
  <2>3. ASSUME NEW s \in Source, CallNext(s) \/ ReadTaskFails(s), ~(MarkStale(s) \/ RecordTask(s))
        PROVE  row' = row
    BY <2>3 DEF CallNext, Enter, ReadAccumulator, ReadTask, ReadTaskFails, SavePartial,
                DropAccumulator, StartTask, SkipNode, OnlyCall, storeVars
  <2>4. CASE Arrive \/ TakeEvent \/ CommitEvent \/ Crash \/ UNCHANGED vars
    BY <2>4 DEF Arrive, TakeEvent, CommitEvent, Crash, vars, storeVars
  <2> QED
    BY <2>1, <2>2, <2>3, <2>4 DEF Next
<1> QED
  BY Invariance, <1>1, PTL DEF Spec, OneArrivalAtATime
=============================================================================

-------------------------- MODULE ForkAnchorsProofs --------------------------
(***************************************************************************)
(* ForkAnchors for every set of anchors and agents: its invariants, and    *)
(* that it implements RewindOutcome.                                       *)
(***************************************************************************)
EXTENDS ForkAnchors, SequenceTheorems, TLAPS

LandingOf(a) == [anchor |-> a, landing |-> TRUE]

(* What the ledger of announcements says of every row, active or not.           *)
Ledger ==
  \A a \in Anchor :
    /\ settled[a] = 0 <=> outcome[a] = NoRevision
    /\ a \notin struck => settled[a] # 2 /\ (outcome[a] \in Revision => outcome[a] = LandingOf(a))
    /\ row[a].state = "absent" => settled[a] = 0 /\ a \notin landed \cup struck

(* What the proxy remembers of the row it spliced still holds when the answer   *)
(* ends: nothing but a release happens to the row while the call is out.        *)
Remembered(f) ==
  /\ row[f.match].state # "absent"
  /\ Active \subseteq {f.match}
  /\ f.meta # "probe"
  /\ f.match \notin struck =>
       /\ f.meta = "bare" =>
            row[f.match].meta = Bare /\ f.match \notin landed /\ settled[f.match] = 0
       /\ f.meta = "deferred" =>
            row[f.match].meta = LandingOf(f.match) /\ f.match \in landed /\ settled[f.match] = 0
       /\ f.meta = "null" =>
            row[f.match].meta = NoRevision /\ f.match \in landed /\ settled[f.match] = 1
       /\ f.meta = "aborted" => row[f.match].state = "released" /\ settled[f.match] = 1

InFlight ==
  running # Idle =>
    /\ ending = Idle
    /\ IF running.match = NoAnchor THEN running.meta \in {"null", "probe"} ELSE Remembered(running)

(* The end of a queued call: its rewind has landed, is not announced before its *)
(* turn to tell, and no other row is active.                                    *)
Telling(a, e) ==
  /\ a \in landed
  /\ settled[a] = (IF e.stage = "clear" THEN 1 ELSE 0)
  /\ e.stage = "defer" => row[a].meta = Bare /\ e.result = LandingOf(a)
  /\ e.stage = "tell" => row[a].meta \in {Bare, LandingOf(a)} /\ e.result \in {Failed, LandingOf(a)}
  /\ e.stage = "clear" => row[a].meta # NoRevision

AtEnd ==
  ending # Idle =>
    /\ running = Idle
    /\ row[ending.anchor].state # "absent"
    /\ Active \subseteq {ending.anchor}
    /\ ending.stage = "defer" => ending.result \in Revision
    /\ ending.anchor \notin struck => Telling(ending.anchor, ending)

(* The end of a call outside the queue: not struck, it has the session for itself. *)
Listed ==
  listing # Idle =>
    /\ row[listing.anchor].state # "absent"
    /\ listing.anchor \notin struck =>
         /\ Free
         /\ listing.anchor \in landed
         /\ listing.result = Failed
         /\ settled[listing.anchor] = (IF listing.stage = "clear" THEN 1 ELSE 0)
         /\ row[listing.anchor].meta = LandingOf(listing.anchor)

IInv == TypeOK /\ OneActiveAnchor /\ RewindIsAccountedFor /\ Ledger /\ InFlight /\ AtEnd /\ Listed

-----------------------------------------------------------------------------
LEMMA NullsDiffer ==
  /\ NoRevision \notin Revision /\ Bare \notin Revision /\ Failed \notin Revision
  /\ NoRevision # Bare /\ NoRevision # Failed
  /\ \A a \in Anchor : LandingOf(a) \in Revision
BY RevisionAssumption DEF Revision, LandingOf

LEMMA RowFields ==
  ASSUME TypeOK, NEW a \in Anchor
  PROVE  /\ row[a] \in Row
         /\ row[a].state \in {"absent", "active", "released"}
         /\ row[a].meta \in Meta
BY DEF TypeOK, Row

LEMMA FlightFields ==
  ASSUME TypeOK, running # Idle
  PROVE  /\ running \in Flight
         /\ running.by \in Agent \cup {NoAgent}
         /\ running.match \in Anchor \cup {NoAnchor}
         /\ running.meta \in {"null", "bare", "deferred", "aborted", "probe"}
BY DEF TypeOK, Flight

LEMMA EndFields ==
  ASSUME NEW e \in End
  PROVE  /\ e.anchor \in Anchor /\ e.stage \in {"defer", "tell", "clear"}
         /\ e.result \in Outcome /\ e.result # NoRevision /\ e.result \in Meta \cup {Failed}
         /\ [e EXCEPT !.stage = "clear"] \in End
         /\ [e EXCEPT !.stage = "clear"].anchor = e.anchor
         /\ [e EXCEPT !.stage = "clear"].stage = "clear"
         /\ [e EXCEPT !.stage = "clear"].result = e.result
BY DEF End, Outcome, Meta

LEMMA EndsTyped ==
  ASSUME TypeOK
  PROVE  /\ ending # Idle => ending \in End
         /\ listing # Idle => listing \in End
BY DEF TypeOK

LEMMA TellFields ==
  ASSUME NEW a \in Anchor, NEW r \in Outcome \ {NoRevision}
  PROVE  /\ Tell(a, r) \in End
         /\ Tell(a, r).anchor = a /\ Tell(a, r).stage = "tell" /\ Tell(a, r).result = r
BY DEF Tell, End

LEMMA HeadFields ==
  ASSUME TypeOK, queue # <<>>
  PROVE  /\ Head(queue) \in Call
         /\ Head(queue).by \in Agent \cup {NoAgent}
         /\ Head(queue).body \in Seq(Anchor)
         /\ Tail(queue) \in Seq(Call)
<1>1. queue \in Seq(Call)
  BY DEF TypeOK
<1>2. Head(queue) \in Call /\ Tail(queue) \in Seq(Call)
  BY <1>1, HeadTailProperties
<1>. QED  BY <1>2 DEF Call

(* The token a body is spliced by.                                              *)
LEMMA LastToken ==
  ASSUME NEW b \in Seq(Anchor), b # <<>>
  PROVE  b[Len(b)] \in Anchor
OBVIOUS

-----------------------------------------------------------------------------
(* What a release, an insertion and a write of metadata do to the rows.         *)

LEMMA ReleasedRows ==
  ASSUME TypeOK, NEW S \in SUBSET Active
  PROVE  /\ Released(S) \in [Anchor -> Row]
         /\ \A a \in Anchor : /\ Released(S)[a].meta = row[a].meta
                              /\ Released(S)[a].state = (IF a \in S THEN "released" ELSE row[a].state)
BY DEF TypeOK, Released, Row, Active

LEMMA MetaRows ==
  ASSUME TypeOK, NEW m \in Meta
  PROVE  /\ ActiveMeta(m) \in [Anchor -> Row]
         /\ \A a \in Anchor : /\ ActiveMeta(m)[a].state = row[a].state
                              /\ ActiveMeta(m)[a].meta = (IF a \in Active THEN m ELSE row[a].meta)
BY DEF TypeOK, ActiveMeta, Row, Active

LEMMA InsertedRows ==
  ASSUME TypeOK, NEW a \in Anchor, NEW p \in BOOLEAN, InsertActiveAnchor(a, p)
  PROVE  /\ row' \in [Anchor -> Row]
         /\ row'[a].state = "active" /\ row'[a].meta = Bare
         /\ \A b \in Anchor \ {a} : /\ row'[b].meta = row[b].meta
                                    /\ row'[b].state = (IF b \in Active THEN "released" ELSE row[b].state)
<1>1. Released(Active) \in [Anchor -> Row]
  BY ReleasedRows
<1>2. [state |-> "active", meta |-> Bare, parallel |-> p] \in Row
  BY DEF Row, Meta
<1>. QED  BY <1>1, <1>2, ReleasedRows DEF InsertActiveAnchor
-----------------------------------------------------------------------------
(* Types.                                                                       *)

LEMMA AnswerType ==
  ASSUME TypeOK, NEW g \in Agent \cup {NoAgent}, NEW t \in {"user", "waiting", "tools"}
  PROVE  Answer(g, t) \in [Agent -> {"user", "waiting", "tools"}]
BY DEF TypeOK, Answer

LEMMA EnqueueType ==
  ASSUME TypeOK, NEW g \in Agent, NEW kind \in {"messages", "tool"}, Enqueue(g, kind)
  PROVE  TypeOK'
<1>1. [kind |-> kind, by |-> g, body |-> convo[g]] \in Call
  BY DEF TypeOK, Call
<1>2. queue' \in Seq(Call)
  BY <1>1, AppendProperties DEF TypeOK, Enqueue
<1>. QED  BY <1>2 DEF TypeOK, Enqueue, endVars, eventVars

LEMMA GoneFlight ==
  ASSUME NEW f \in Flight, NEW g \in Agent
  PROVE  /\ Gone(f, g) \in Flight
         /\ Gone(f, g).match = f.match /\ Gone(f, g).meta = f.meta
BY DEF Flight, Gone

LEMMA GoneCall ==
  ASSUME NEW c \in Call, NEW g \in Agent
  PROVE  Gone(c, g) \in Call
BY DEF Call, Gone

LEMMA InterruptType ==
  ASSUME TypeOK, NEW g \in Agent, Interrupt(g)
  PROVE  TypeOK'
<1>1. queue' \in Seq(Call)
  <2>1. queue \in Seq(Call) /\ DOMAIN queue = 1..Len(queue)
    BY DEF TypeOK
  <2>2. \A i \in 1..Len(queue) : Gone(queue[i], g) \in Call
    <3>1. \A i \in 1..Len(queue) : queue[i] \in Call
      BY <2>1
    <3>. QED  BY <3>1, GoneCall
  <2>3. queue' = [i \in 1..Len(queue) |-> Gone(queue[i], g)]
    BY <2>1 DEF Interrupt
  <2>4. Len(queue) \in Nat
    BY <2>1
  <2>. QED  BY <2>2, <2>3, <2>4
<1>2. running' \in Flight \cup {Idle}
  BY GoneFlight DEF TypeOK, Interrupt
<1>. QED  BY <1>1, <1>2 DEF TypeOK, Interrupt, endVars, eventVars

LEMMA CutBackType ==
  ASSUME TypeOK, NEW g \in Agent, CutBack(g)
  PROVE  TypeOK'
<1>1. PICK n \in 0..(Len(convo[g]) - 1) : convo' = [convo EXCEPT ![g] = SubSeq(@, 1, n)]
  BY DEF CutBack
<1>2. convo[g] \in Seq(Anchor)
  BY DEF TypeOK
<1>3. \A i \in 1..n : convo[g][i] \in Anchor
  BY <1>2
<1>4. SubSeq(convo[g], 1, n) \in Seq(Anchor)
  BY <1>3, SubSeqProperties
<1>5. convo' \in [Agent -> Seq(Anchor)]
  BY <1>1, <1>4 DEF TypeOK
<1>. QED  BY <1>5 DEF TypeOK, CutBack, endVars, eventVars

LEMMA HookType ==
  ASSUME TypeOK, SessionStartHook
  PROVE  TypeOK'
<1>1. row' \in [Anchor -> Row]
  BY ReleasedRows DEF SessionStartHook
<1>2. convo' \in [Agent -> Seq(Anchor)]
  BY EmptySeq DEF TypeOK, SessionStartHook
<1>. QED  BY <1>1, <1>2 DEF TypeOK, SessionStartHook, endVars, eventVars

LEMMA ToolAnsweredType ==
  ASSUME TypeOK, ToolAnswered
  PROVE  TypeOK'
<1>1. queue # <<>>
  BY DEF ToolAnswered, Next1st
<1>2. turn' \in [Agent -> {"user", "waiting", "tools"}]
  BY <1>1, HeadFields, AnswerType DEF ToolAnswered
<1>. QED  BY <1>1, <1>2, HeadFields DEF TypeOK, ToolAnswered, endVars, eventVars

LEMMA RewindScheduledType ==
  ASSUME TypeOK, RewindScheduled
  PROVE  TypeOK'
<1>1. queue # <<>>
  BY DEF RewindScheduled, Next1st
<1>2. PICK a \in Anchor, p \in BOOLEAN :
        /\ InsertActiveAnchor(a, p)
        /\ convo' = IF Head(queue).by = NoAgent THEN convo
                     ELSE [convo EXCEPT ![Head(queue).by] = Append(@, a)]
  BY DEF RewindScheduled
<1>3. row' \in [Anchor -> Row]
  BY <1>2, InsertedRows
<1>4. convo' \in [Agent -> Seq(Anchor)]
  <2>1. \A g \in Agent : Append(convo[g], a) \in Seq(Anchor)
    BY AppendProperties DEF TypeOK
  <2>. QED  BY <1>1, <1>2, <2>1, HeadFields DEF TypeOK
<1>5. turn' \in [Agent -> {"user", "waiting", "tools"}]
  BY <1>1, HeadFields, AnswerType DEF RewindScheduled
<1>. QED  BY <1>1, <1>3, <1>4, <1>5, HeadFields DEF TypeOK, RewindScheduled, endVars, eventVars

LEMMA RestartType ==
  ASSUME TypeOK, Restart
  PROVE  TypeOK'
<1>1. turn' \in [Agent -> {"user", "waiting", "tools"}]
  BY DEF TypeOK, Restart
<1>2. queue' \in Seq(Call)
  BY DEF Restart
<1>3. struck' \in SUBSET Anchor
  BY DEF TypeOK, Restart, Cut
<1>. QED  BY <1>1, <1>2, <1>3 DEF TypeOK, Restart, eventVars

LEMMA CountTokensType ==
  ASSUME TypeOK, CountTokens
  PROVE  TypeOK'
<1>1. [kind |-> "count", by |-> NoAgent, body |-> <<>>] \in Call
  BY EmptySeq DEF Call
<1>2. queue' \in Seq(Call)
  BY <1>1, AppendProperties DEF TypeOK, CountTokens
<1>. QED  BY <1>2 DEF TypeOK, CountTokens, clientVars, endVars, eventVars

LEMMA DispatchType ==
  ASSUME IInv, Dispatch
  PROVE  TypeOK' /\ running' \in Flight
<1>. DEFINE c == Head(queue)
            a == c.body[Len(c.body)]
<1>. TypeOK /\ queue # <<>>
  BY DEF IInv, Dispatch
<1>1. c.by \in Agent \cup {NoAgent} /\ c.body \in Seq(Anchor) /\ Tail(queue) \in Seq(Call)
  BY HeadFields
<1>2. c.body # <<>> => a \in Anchor
  BY <1>1, LastToken
<1>3. SpliceSkipped(c) \/ SpliceDiverged(c) \/ SplicePassed(c) \/ SpliceApplied(c) \/ SpliceAborted(c)
  BY DEF Dispatch
<1>4. row' \in [Anchor -> Row]
  <2>1. CASE SpliceDiverged(c)
    BY <2>1, ReleasedRows DEF SpliceDiverged
  <2>2. CASE SpliceSkipped(c) \/ SplicePassed(c) \/ SpliceApplied(c)
    BY <2>2 DEF SpliceSkipped, SplicePassed, SpliceApplied, TypeOK
  <2>3. CASE SpliceAborted(c)
    <3>1. {a} \subseteq Active
      BY <2>3, <1>2 DEF SpliceAborted, Active
    <3>. QED  BY <2>3, <3>1, ReleasedRows DEF SpliceAborted
  <2>. QED  BY <1>3, <2>1, <2>2, <2>3
<1>5. running' \in Flight
  <2>1. \A m \in Anchor \cup {NoAnchor}, t \in {"null", "bare", "deferred", "aborted", "probe"} :
          [by |-> c.by, match |-> m, meta |-> t] \in Flight
    BY <1>1 DEF Flight
  <2>2. MetaOf(a) \in {"null", "bare", "deferred"}
    BY DEF MetaOf
  <2>. QED  BY <1>2, <1>3, <2>1, <2>2 DEF SpliceSkipped, SpliceDiverged, SplicePassed, SpliceApplied, SpliceAborted
<1>6. /\ forkable' \in BOOLEAN /\ landed' \in SUBSET Anchor
      /\ outcome' \in [Anchor -> Outcome] /\ settled' \in [Anchor -> 0..2]
  <2>1. CASE SpliceAborted(c)
    BY <2>1, <1>2 DEF SpliceAborted, Settle, TypeOK, Outcome
  <2>2. CASE SpliceSkipped(c) \/ SpliceDiverged(c) \/ SplicePassed(c) \/ SpliceApplied(c)
    BY <2>2 DEF SpliceSkipped, SpliceDiverged, SplicePassed, SpliceApplied, TypeOK, eventVars
  <2>. QED  BY <1>3, <2>1, <2>2
<1>7. struck' \in SUBSET Anchor
  BY EndsTyped, EndFields DEF Dispatch, TypeOK
<1>. QED  BY <1>1, <1>4, <1>5, <1>6, <1>7 DEF TypeOK, Dispatch, clientVars

-----------------------------------------------------------------------------
(* The refinement, by what a step does to the rows and the ledger.              *)

Stage == [a \in Anchor |-> StageOf(row[a].state)]
Told == [a \in Anchor |-> OutcomeOf(a, outcome[a])]

Maps == Rewinds!RNext \/ UNCHANGED Rewinds!rVars

LEMMA InitMaps == Init => Rewinds!RInit
BY DEF Init, NoRow, Rewinds!RInit, StageOf, OutcomeOf

LEMMA QuietMaps ==
  ASSUME UNCHANGED <<row, outcome, landed, struck>>
  PROVE  Maps
BY DEF Maps, Rewinds!rVars, OutcomeOf

LEMMA StageKept ==
  ASSUME \A a \in Anchor : row'[a].state = row[a].state
  PROVE  Stage' = Stage
BY DEF Stage

(* Rewinds of rows that exist may be spoilt.                                    *)
LEMMA StruckTold ==
  ASSUME NEW S \in SUBSET Anchor, struck' = struck \cup S, UNCHANGED outcome
  PROVE  Told' = [a \in Anchor |-> IF a \in S THEN "spoilt" ELSE Told[a]]
BY DEF Told, OutcomeOf

LEMMA SpoilMaps ==
  ASSUME NEW S \in SUBSET Anchor, \A a \in S : row[a].state # "absent",
         \A a \in Anchor : row'[a].state = row[a].state,
         struck' = struck \cup S, UNCHANGED <<outcome, landed>>
  PROVE  Maps
<1>1. S \in SUBSET Rewinds!Used
  BY DEF Rewinds!Used, StageOf
<1>2. Rewinds!Spoil(S)
  BY StageKept, StruckTold DEF Rewinds!Spoil, Rewinds!Spoiled, Stage, Told
<1>. QED  BY <1>1, <1>2 DEF Maps, Rewinds!RNext

LEMMA ReleaseMaps ==
  ASSUME TypeOK, row' = Released(Active), UNCHANGED <<outcome, landed>>,
         NEW S \in SUBSET Anchor, \A a \in S : row[a].state # "absent", struck' = struck \cup S
  PROVE  Maps
<1>1. Stage' = [a \in Anchor |-> IF Stage[a] = "live" THEN "over" ELSE Stage[a]]
  BY ReleasedRows, RowFields DEF Stage, StageOf, Active
<1>2. Rewinds!End(S)
  BY <1>1, StruckTold DEF Rewinds!End, Rewinds!Over, Rewinds!Spoiled, Stage, Told
<1>3. S \in SUBSET Rewinds!Used
  BY DEF Rewinds!Used, StageOf
<1>. QED  BY <1>2, <1>3 DEF Maps, Rewinds!RNext

LEMMA InsertMaps ==
  ASSUME TypeOK, NEW a \in Anchor, NEW p \in BOOLEAN, row[a].state = "absent",
         InsertActiveAnchor(a, p), UNCHANGED <<outcome, landed, struck>>
  PROVE  Maps
<1>1. Stage[a] = "unused"
  BY DEF Stage, StageOf
<1>2. Stage' = [[b \in Anchor |-> IF Stage[b] = "live" THEN "over" ELSE Stage[b]] EXCEPT ![a] = "live"]
  BY InsertedRows, RowFields DEF Stage, StageOf, Active
<1>3. Told' = Told
  BY DEF Told, OutcomeOf
<1>4. Rewinds!Begin(a)
  BY <1>1, <1>2, <1>3 DEF Rewinds!Begin, Rewinds!Over, Stage, Told
<1>. QED  BY <1>4 DEF Maps, Rewinds!RNext

(* One announcement about a, failed or from its landing.                        *)
LEMMA ToldStep ==
  ASSUME TypeOK, NEW a \in Anchor \ struck, NEW r \in {Failed, LandingOf(a)}, Settle(a, r),
         UNCHANGED struck
  PROVE  \E o \in {"forked", Failed} : Told' = [Told EXCEPT ![a] = o]
<1>1. OutcomeOf(a, r) \in {"forked", Failed}
  <2>1. CASE r = Failed
    BY <2>1 DEF OutcomeOf
  <2>2. CASE r = LandingOf(a)
    <3>1. r # NoRevision /\ r # Failed
      BY <2>2, NullsDiffer
    <3>. QED  BY <2>2, <3>1 DEF OutcomeOf, LandingOf
  <2>. QED  BY <2>1, <2>2
<1>2. outcome' = [outcome EXCEPT ![a] = r]
  BY DEF Settle
<1>3. Told' = [Told EXCEPT ![a] = OutcomeOf(a, r)]
  BY <1>2 DEF Told, OutcomeOf, TypeOK
<1>. QED  BY <1>1, <1>3

LEMMA SettleMaps ==
  ASSUME TypeOK, NEW a \in Anchor, UNCHANGED <<row, landed, struck>>,
         NEW r \in Outcome, Settle(a, r),
         a \notin struck => a \in landed /\ outcome[a] = NoRevision /\ r \in {Failed, LandingOf(a)}
  PROVE  Maps
<1>1. CASE a \in struck
  <2>1. Told' = Told
    BY <1>1 DEF Told, OutcomeOf, Settle, TypeOK
  <2>. QED  BY <2>1 DEF Maps, Rewinds!rVars, Told
<1>2. CASE a \notin struck
  <2>1. Told[a] = NoRevision
    BY <1>2 DEF Told, OutcomeOf
  <2>2. \E o \in {"forked", Failed} : Told' = [Told EXCEPT ![a] = o]
    BY <1>2, ToldStep
  <2>3. Rewinds!Announce(a)
    BY <1>2, <2>1, <2>2 DEF Rewinds!Announce, Told
  <2>. QED  BY <2>3 DEF Maps, Rewinds!RNext
<1>. QED  BY <1>1, <1>2

LEMMA LandMaps ==
  ASSUME NEW a \in Anchor, row[a].state # "absent", outcome[a] = NoRevision \/ a \in struck,
         landed' = landed \cup {a}, UNCHANGED <<row, outcome, struck>>
  PROVE  Maps
<1>1. Stage[a] # "unused" /\ Told' = Told /\ Told[a] \in {NoRevision, "spoilt"}
  BY DEF Stage, StageOf, Told, OutcomeOf
<1>2. Rewinds!Land(a)
  BY <1>1 DEF Rewinds!Land, Stage, Told
<1>. QED  BY <1>2 DEF Maps, Rewinds!RNext

LEMMA AbortMaps ==
  ASSUME TypeOK, NEW a \in Anchor, Active = {a}, row' = Released({a}), Settle(a, Failed), UNCHANGED landed,
         NEW S \in SUBSET Anchor, \A b \in S : row[b].state # "absent", struck' = struck \cup S,
         a \notin struck' => outcome[a] = NoRevision /\ a \notin landed
  PROVE  Maps
<1>1. Stage[a] = "live" /\ S \in SUBSET Rewinds!Used
  BY DEF Stage, StageOf, Active, Rewinds!Used
<1>2. Stage' = [b \in Anchor |-> IF Stage[b] = "live" THEN "over" ELSE Stage[b]]
  BY ReleasedRows, RowFields DEF Stage, StageOf, Active
<1>3. \A b \in Anchor \ {a} : outcome'[b] = outcome[b]
  BY DEF TypeOK, Settle
<1>4. outcome'[a] = Failed
  BY DEF TypeOK, Settle
<1>5. CASE a \in struck'
  <2>1. Told' = [b \in Anchor |-> IF b \in S THEN "spoilt" ELSE Told[b]]
    BY <1>3, <1>5 DEF Told, OutcomeOf
  <2>2. Rewinds!End(S)
    BY <1>2, <2>1 DEF Rewinds!End, Rewinds!Over, Rewinds!Spoiled, Stage, Told
  <2>. QED  BY <1>1, <2>2 DEF Maps, Rewinds!RNext
<1>6. CASE a \notin struck'
  <2>1. Told' = [[b \in Anchor |-> IF b \in S THEN "spoilt" ELSE Told[b]] EXCEPT ![a] = Failed]
    BY <1>3, <1>4, <1>6 DEF Told, OutcomeOf
  <2>2. Told[a] = NoRevision /\ a \notin S
    BY <1>6 DEF Told, OutcomeOf
  <2>3. Rewinds!Abort(a, S)
    BY <1>1, <1>2, <1>6, <2>1, <2>2 DEF Rewinds!Abort, Rewinds!Over, Rewinds!Spoiled, Stage, Told
  <2>. QED  BY <1>1, <2>2, <2>3 DEF Maps, Rewinds!RNext
<1>. QED  BY <1>5, <1>6

-----------------------------------------------------------------------------
(* The invariant, by what a step does to the rows and the ledger.               *)

(* Steps that touch neither: the client's, a tool's answer, a failed call.  The *)
(* call that is out, if it stays out, remembers the same row.                   *)
LEMMA QuietStep ==
  ASSUME IInv, TypeOK', UNCHANGED <<row, outcome, settled, landed, ending, listing, struck>>,
         \/ running' \in {Idle, running}
         \/ \E g \in Agent : running # Idle /\ running' = Gone(running, g)
  PROVE  IInv' /\ Maps
<1>0. running = Idle => running' = Idle
  OBVIOUS
<1>1. OneActiveAnchor' /\ RewindIsAccountedFor' /\ Ledger' /\ AtEnd' /\ Listed'
  BY <1>0 DEF IInv, OneActiveAnchor, RewindIsAccountedFor, Ledger, AtEnd, Listed, Telling, Free, Active, LandingOf
<1>2. InFlight'
  <2> SUFFICES ASSUME running' # Idle
               PROVE  /\ ending' = Idle
                      /\ IF running'.match = NoAnchor THEN running'.meta \in {"null", "probe"}
                                                      ELSE Remembered(running)'
    BY DEF InFlight
  <2>1. running # Idle /\ running'.match = running.match /\ running'.meta = running.meta
    <3>1. CASE \E g \in Agent : running # Idle /\ running' = Gone(running, g)
      BY <3>1, FlightFields, GoneFlight DEF IInv
    <3>. QED  BY <3>1
  <2>. QED  BY <2>1 DEF IInv, InFlight, Remembered, Active, LandingOf
<1>. QED  BY <1>1, <1>2, QuietMaps DEF IInv

(* Rows are released while the ledger, the call that is out and the ends stay.  *)
LEMMA ReleaseStep ==
  ASSUME IInv, TypeOK', row' = Released(Active), running' = running,
         UNCHANGED <<outcome, settled, landed, ending, listing, struck>>
  PROVE  IInv' /\ Maps
<1>. TypeOK /\ Active' \subseteq Active
  BY ReleasedRows DEF IInv, Active
<1>0. \A a \in Anchor : /\ row'[a].meta = row[a].meta
                        /\ row'[a].state = "absent" <=> row[a].state = "absent"
                        /\ row[a].state = "released" => row'[a].state = "released"
  BY ReleasedRows DEF Active
<1>1. OneActiveAnchor' /\ RewindIsAccountedFor' /\ Ledger'
  BY <1>0 DEF IInv, OneActiveAnchor, RewindIsAccountedFor, Ledger, Active, LandingOf
<1>2. InFlight'
  BY <1>0, FlightFields DEF IInv, InFlight, Remembered, LandingOf
<1>3. AtEnd' /\ Listed'
  BY <1>0, EndsTyped, EndFields DEF IInv, AtEnd, Listed, Telling, Free, LandingOf
<1>4. Maps
  BY ReleaseMaps, {} \in SUBSET Anchor, struck' = struck \cup {}
<1>. QED  BY <1>1, <1>2, <1>3, <1>4 DEF IInv

(* A new rewind: nothing is out, the prior branch is released, the row is new.  *)
LEMMA RewindScheduledStep ==
  ASSUME IInv, RewindScheduled
  PROVE  IInv' /\ Maps
<1>. TypeOK /\ TypeOK'
  BY RewindScheduledType DEF IInv
<1>1. PICK a \in Anchor, p \in BOOLEAN : row[a].state = "absent" /\ InsertActiveAnchor(a, p)
  BY DEF RewindScheduled
<1>2. /\ row'[a].state = "active" /\ row'[a].meta = Bare
      /\ \A b \in Anchor \ {a} : /\ row'[b].meta = row[b].meta
                                 /\ row'[b].state = (IF b \in Active THEN "released" ELSE row[b].state)
  BY <1>1, InsertedRows
<1>3. /\ running = Idle /\ running' = Idle /\ ending = Idle /\ ending' = Idle
      /\ UNCHANGED <<outcome, settled, landed, listing, struck>>
  BY DEF RewindScheduled, Next1st, Free, eventVars, endVars
<1>4. Active' = {a}
  BY <1>2 DEF Active
<1>5. OneActiveAnchor' /\ RewindIsAccountedFor' /\ Ledger' /\ InFlight' /\ AtEnd'
  BY <1>1, <1>2, <1>3, <1>4
  DEF IInv, OneActiveAnchor, RewindIsAccountedFor, Ledger, InFlight, AtEnd, LandingOf
<1>6. Listed'
  <2>1. listing # Idle => listing.anchor \in Anchor \ {a}
    BY <1>1, EndsTyped, EndFields DEF IInv, Listed
  <2>2. listing # Idle => row'[listing.anchor].state # "absent"
    BY <1>2, <2>1 DEF IInv, Listed
  <2>. QED  BY <1>2, <1>3, <2>1, <2>2 DEF IInv, Listed, Free, LandingOf
<1>7. Maps
  BY <1>1, <1>3, InsertMaps
<1>. QED  BY <1>5, <1>6, <1>7 DEF IInv

-----------------------------------------------------------------------------
(* A call starts. *)

Crossed == IF listing = Idle THEN {} ELSE {listing.anchor}

LEMMA CrossedFacts ==
  ASSUME IInv
  PROVE  /\ Crossed \in SUBSET Anchor
         /\ \A a \in Crossed : a \in Anchor /\ row[a].state # "absent"
BY EndsTyped, EndFields DEF IInv, Listed, Crossed

(* Nothing is out and no end is under way but one that is crossed from now on.  *)
LEMMA StartFacts ==
  ASSUME IInv, Dispatch
  PROVE  /\ running = Idle /\ ending = Idle /\ ending' = Idle /\ listing' = listing
         /\ struck' = struck \cup Crossed
         /\ running' # Idle /\ running' \in Flight /\ TypeOK'
         /\ listing # Idle => listing.anchor \in struck'
BY IdleAssumption, DispatchType DEF Dispatch, Next1st, Free, Crossed

(* What is left to show of the invariant when rows are at most released.        *)
LEMMA StartStep ==
  ASSUME IInv, Dispatch, UNCHANGED <<outcome, settled, landed>>, Active' \subseteq Active,
         \A b \in Anchor : /\ row'[b].meta = row[b].meta
                           /\ row'[b].state = "absent" <=> row[b].state = "absent"
  PROVE  OneActiveAnchor' /\ RewindIsAccountedFor' /\ Ledger' /\ AtEnd' /\ Listed'
<1>1. OneActiveAnchor'
  BY DEF IInv, OneActiveAnchor
<1>2. RewindIsAccountedFor'
  <2> SUFFICES ASSUME NEW b \in Active \ struck, b \notin struck'
               PROVE  \/ b \notin landed /\ row[b].meta = Bare /\ settled[b] = 0
                      \/ b \in landed /\ row[b].meta = LandingOf(b) /\ settled[b] = 0
                      \/ b \in landed /\ row[b].meta = NoRevision /\ settled[b] = 1
    BY StartFacts DEF RewindIsAccountedFor, Active, LandingOf
  <2>. QED  BY StartFacts DEF IInv, RewindIsAccountedFor, LandingOf
<1>3. Ledger'
  BY StartFacts, CrossedFacts DEF IInv, Ledger, LandingOf
<1>4. AtEnd' /\ Listed'
  BY StartFacts, CrossedFacts DEF IInv, AtEnd, Listed, Crossed
<1>. QED  BY <1>1, <1>2, <1>3, <1>4

(* An active row no end is at: what the splice finds.                           *)
LEMMA ActiveRow ==
  ASSUME IInv, Free, NEW a \in Active, a \notin struck, listing # Idle => a # listing.anchor
  PROVE  \/ a \notin landed /\ row[a].meta = Bare /\ settled[a] = 0
         \/ a \in landed /\ row[a].meta = LandingOf(a) /\ settled[a] = 0
         \/ a \in landed /\ row[a].meta = NoRevision /\ settled[a] = 1
BY DEF IInv, RewindIsAccountedFor, Free, LandingOf

LEMMA AbortedStep ==
  ASSUME IInv, Dispatch, NEW a \in Active, row[a].meta = Bare, row' = Released({a}),
         running'.match = a, running'.meta = "aborted", Settle(a, Failed), landed' = landed
  PROVE  IInv' /\ Maps
<1>. TypeOK /\ TypeOK' /\ a \in Anchor /\ a # NoAnchor
  BY StartFacts, NoAnchorAssumption DEF IInv, Active
<1>1. a \notin struck' => a \notin landed /\ settled[a] = 0 /\ outcome[a] = NoRevision
  <2>1. Bare # LandingOf(a) /\ Bare # NoRevision
    BY NullsDiffer
  <2>2. a \notin struck' => a \notin struck /\ (listing # Idle => a # listing.anchor)
    BY StartFacts
  <2>. QED  BY <2>1, <2>2, StartFacts, ActiveRow DEF Free, IInv, Ledger
<1>2. Active = {a} /\ {a} \in SUBSET Active
  BY DEF IInv, OneActiveAnchor
<1>3. \A b \in Anchor : row'[b].state = (IF b = a THEN "released" ELSE row[b].state)
  BY <1>2, ReleasedRows
<1>4. Active' = {} /\ row'[a].state = "released"
      /\ \A b \in Anchor : row[b].state = "absent" <=> row'[b].state = "absent"
  BY <1>2, <1>3 DEF Active
<1>5. /\ outcome'[a] = Failed /\ settled'[a] # 0 /\ (settled[a] = 0 => settled'[a] = 1)
      /\ \A b \in Anchor \ {a} : settled'[b] = settled[b] /\ outcome'[b] = outcome[b]
  BY DEF Settle, TypeOK
<1>6. Ledger'
  <2> SUFFICES ASSUME NEW b \in Anchor
               PROVE  /\ settled'[b] = 0 <=> outcome'[b] = NoRevision
                      /\ b \notin struck' =>
                           settled'[b] # 2 /\ (outcome'[b] \in Revision => outcome'[b] = LandingOf(b))
                      /\ row'[b].state = "absent" => settled'[b] = 0 /\ b \notin landed' \cup struck'
    BY DEF Ledger, LandingOf
  <2>1. CASE b = a
    <3>1. /\ outcome'[b] = Failed /\ settled'[b] # 0 /\ row'[b].state = "released"
          /\ b \notin struck' => settled'[b] = 1
      BY <1>1, <1>4, <1>5, <2>1
    <3>2. Failed # NoRevision /\ Failed \notin Revision
      BY NullsDiffer
    <3>3. settled'[b] = 0 <=> outcome'[b] = NoRevision
      BY <3>1, <3>2
    <3>4. b \notin struck' => settled'[b] # 2 /\ (outcome'[b] \in Revision => outcome'[b] = LandingOf(b))
      BY <3>1, <3>2
    <3>. QED  BY <3>1, <3>3, <3>4
  <2>2. CASE b # a
    <3>1. settled'[b] = settled[b] /\ outcome'[b] = outcome[b] /\ (row[b].state = "absent" <=> row'[b].state = "absent")
      BY <1>4, <1>5, <2>2
    <3>2. (b \notin struck' => b \notin struck) /\ (row[b].state = "absent" /\ b \notin struck => b \notin struck')
      BY StartFacts, CrossedFacts
    <3>. QED  BY <3>1, <3>2 DEF IInv, Ledger
  <2>. QED  BY <2>1, <2>2
<1>7. OneActiveAnchor' /\ RewindIsAccountedFor'
  BY <1>4 DEF OneActiveAnchor, RewindIsAccountedFor
<1>8. InFlight'
  BY <1>1, <1>4, <1>5, StartFacts DEF InFlight, Remembered
<1>9. AtEnd' /\ Listed'
  BY <1>4, StartFacts, CrossedFacts DEF IInv, AtEnd, Listed, Crossed
<1>10. Maps
  BY <1>1, <1>2, StartFacts, CrossedFacts, AbortMaps
<1>. QED  BY <1>6, <1>7, <1>8, <1>9, <1>10 DEF IInv

LEMMA DispatchStep ==
  ASSUME IInv, Dispatch
  PROVE  IInv' /\ Maps
<1>. DEFINE c == Head(queue)
            a == c.body[Len(c.body)]
<1>. TypeOK /\ TypeOK' /\ queue # <<>>
  BY StartFacts DEF IInv, Dispatch
<1>1. c.body # <<>> => a \in Anchor
  BY HeadFields, LastToken
<1>2. SpliceSkipped(c) \/ SpliceDiverged(c) \/ SplicePassed(c) \/ SpliceApplied(c) \/ SpliceAborted(c)
  BY DEF Dispatch
<1>3. CASE SpliceDiverged(c)
  <2>1. row' = Released(Active) /\ UNCHANGED <<outcome, settled, landed>>
    BY <1>3 DEF SpliceDiverged, eventVars
  <2>2. Active' \subseteq Active
        /\ \A b \in Anchor : /\ row'[b].meta = row[b].meta
                             /\ row'[b].state = "absent" <=> row[b].state = "absent"
    BY <2>1, ReleasedRows DEF Active
  <2>3. running'.match = NoAnchor /\ running'.meta = "null"
    BY <1>3 DEF SpliceDiverged
  <2>4. Maps
    BY <2>1, StartFacts, CrossedFacts, ReleaseMaps
  <2>5. OneActiveAnchor' /\ RewindIsAccountedFor' /\ Ledger' /\ AtEnd' /\ Listed'
    BY <2>1, <2>2, StartStep
  <2>. QED  BY <2>3, <2>4, <2>5, StartFacts DEF IInv, InFlight
<1>4. CASE SplicePassed(c) \/ SpliceSkipped(c)
  <2>1. UNCHANGED <<row, outcome, settled, landed>>
    BY <1>4 DEF SplicePassed, SpliceSkipped, eventVars
  <2>2. running'.match = NoAnchor /\ running'.meta \in {"null", "probe"}
    BY <1>4 DEF SplicePassed, SpliceSkipped
  <2>3. Maps
    BY <2>1, StartFacts, CrossedFacts, SpoilMaps
  <2>4. OneActiveAnchor' /\ RewindIsAccountedFor' /\ Ledger' /\ AtEnd' /\ Listed'
    BY <2>1, StartStep DEF Active
  <2>. QED  BY <2>2, <2>3, <2>4, StartFacts DEF IInv, InFlight
<1>5. CASE SpliceApplied(c)
  <2>1. /\ a \in Active /\ running'.match = a /\ running'.meta = MetaOf(a)
        /\ UNCHANGED <<row, outcome, settled, landed>>
    BY <1>1, <1>5 DEF SpliceApplied, eventVars, Active
  <2>2. a \in Anchor /\ a # NoAnchor /\ Active' = Active
    BY <2>1, NoAnchorAssumption DEF Active
  <2>3. OneActiveAnchor' /\ RewindIsAccountedFor' /\ Ledger' /\ AtEnd' /\ Listed'
    BY <2>1, <2>2, StartStep
  <2>4. Maps
    BY <2>1, StartFacts, CrossedFacts, SpoilMaps
  <2>5. Remembered(running)'
    <3>1. row[a].state # "absent" /\ Active \subseteq {a}
      BY <2>1 DEF IInv, OneActiveAnchor, Active
    <3>2. MetaOf(a) \in {"null", "bare", "deferred"}
      BY DEF MetaOf
    <3>3. a \notin struck' =>
            /\ MetaOf(a) = "bare" => row[a].meta = Bare /\ a \notin landed /\ settled[a] = 0
            /\ MetaOf(a) = "deferred" => row[a].meta = LandingOf(a) /\ a \in landed /\ settled[a] = 0
            /\ MetaOf(a) = "null" => row[a].meta = NoRevision /\ a \in landed /\ settled[a] = 1
      <4>. HIDE DEF a
      <4>1. a \notin struck' => a \notin struck /\ (listing # Idle => a # listing.anchor)
        BY StartFacts
      <4>. QED  BY <2>1, <2>2, <4>1, StartFacts, ActiveRow, NullsDiffer DEF MetaOf, Free
    <3>. HIDE DEF a
    <3>. QED  BY <2>1, <2>2, <3>1, <3>2, <3>3 DEF Remembered, LandingOf
  <2>. HIDE DEF a
  <2>. QED  BY <2>1, <2>2, <2>3, <2>4, <2>5, StartFacts DEF IInv, InFlight
<1>6. CASE SpliceAborted(c)
  <2>1. /\ a \in Active /\ row[a].meta = Bare /\ row' = Released({a})
        /\ running'.match = a /\ running'.meta = "aborted"
        /\ Settle(a, Failed) /\ landed' = landed
    BY <1>1, <1>6 DEF SpliceAborted, Active
  <2>. QED  BY <2>1, AbortedStep
<1>. QED  BY <1>2, <1>3, <1>4, <1>5, <1>6

-----------------------------------------------------------------------------
(* The answers. *)

LEMMA EndedType ==
  ASSUME IInv, NEW end \in {"closed", "open", "dangling", "error"}, Ended(end), ending' \in End \cup {Idle}
  PROVE  /\ TypeOK' /\ running # Idle /\ running' = Idle /\ ending = Idle
         /\ UNCHANGED <<row, outcome, settled, listing, struck>>
<1>. TypeOK /\ running # Idle
  BY DEF IInv, Ended
<1>1. turn' \in [Agent -> {"user", "waiting", "tools"}]
  BY FlightFields, AnswerType DEF Ended
<1>2. landed' \in SUBSET Anchor
  BY FlightFields DEF Ended, TypeOK
<1>. QED  BY <1>1, <1>2 DEF TypeOK, Ended, IInv, InFlight

(* An end with nothing left to do: the rewind of the call, if any, has landed   *)
(* before, or is struck.                                                        *)
LEMMA DoneStep ==
  ASSUME IInv, NEW end \in {"closed", "open", "dangling", "error"}, Ended(end), ending' = Idle,
         \/ landed' = landed
         \/ \E a \in landed \cup struck :
              a \in Anchor /\ row[a].state # "absent" /\ landed' = landed \cup {a}
  PROVE  IInv' /\ Maps
<1>1. /\ TypeOK' /\ running # Idle /\ running' = Idle /\ ending = Idle
      /\ UNCHANGED <<row, outcome, settled, listing, struck>>
  BY EndedType
<1>2. CASE landed' = landed
  BY <1>1, <1>2, QuietStep
<1>3. ASSUME NEW a \in Anchor, a \in struck, row[a].state # "absent", landed' = landed \cup {a}
      PROVE  IInv' /\ Maps
  <2>1. Maps
    BY <1>1, <1>3, LandMaps
  <2>2. OneActiveAnchor' /\ RewindIsAccountedFor' /\ Ledger'
    BY <1>1, <1>3 DEF IInv, OneActiveAnchor, RewindIsAccountedFor, Ledger, Active, LandingOf
  <2>3. InFlight' /\ AtEnd' /\ Listed'
    BY <1>1, <1>3 DEF IInv, InFlight, AtEnd, Listed, Free
  <2>. QED  BY <1>1, <2>1, <2>2, <2>3 DEF IInv
<1>. QED  BY <1>2, <1>3

(* An end that goes on: the writes to come are about a rewind that has landed   *)
(* and is not announced.                                                        *)
LEMMA EndStep ==
  ASSUME IInv, NEW end \in {"closed", "open", "dangling"}, Ended(end),
         NEW e \in End, ending' = e, NEW a \in Anchor, e.anchor = a, e.stage # "clear",
         row[a].state # "absent", Active \subseteq {a},
         landed' \in {landed, landed \cup {a}},
         e.stage = "defer" => e.result \in Revision,
         a \notin struck =>
           /\ a \in landed' /\ settled[a] = 0
           /\ e.stage = "defer" => row[a].meta = Bare /\ e.result = LandingOf(a)
           /\ e.stage = "tell" => row[a].meta \in {Bare, LandingOf(a)} /\ e.result \in {Failed, LandingOf(a)}
  PROVE  IInv' /\ Maps
<1>. TypeOK
  BY DEF IInv
<1>1. /\ TypeOK' /\ running # Idle /\ running' = Idle /\ ending = Idle
      /\ UNCHANGED <<row, outcome, settled, listing, struck>>
  BY EndedType
<1>2. e # Idle
  BY IdleAssumption
<1>3. listing # Idle => listing.anchor \in struck
  BY <1>1 DEF IInv, Listed, Free
<1>4. AtEnd'
  BY <1>1, <1>2 DEF AtEnd, Telling, Active, LandingOf
<1>5. InFlight' /\ Listed'
  BY <1>1, <1>3 DEF IInv, InFlight, Listed
<1>6. OneActiveAnchor'
  BY <1>1 DEF IInv, OneActiveAnchor, Active
<1>7. RewindIsAccountedFor'
  <2> SUFFICES ASSUME NEW b \in Active \ struck
               PROVE  b \in landed' /\ e.anchor = b /\ settled[b] = (IF e.stage = "clear" THEN 1 ELSE 0)
    BY <1>1, <1>2 DEF RewindIsAccountedFor, Active
  <2>. QED  OBVIOUS
<1>8. Ledger'
  BY <1>1 DEF IInv, Ledger, LandingOf
<1>9. Maps
  <2>1. CASE landed' = landed
    BY <1>1, <2>1, QuietMaps
  <2>2. CASE landed' = landed \cup {a}
    BY <1>1, <2>2, LandMaps DEF IInv, Ledger
  <2>. QED  BY <2>1, <2>2
<1>. QED  BY <1>1, <1>4, <1>5, <1>6, <1>7, <1>8, <1>9 DEF IInv

(* A call that owes an outcome: what is known of the row it was spliced by.     *)
LEMMA OwedRow ==
  ASSUME IInv, running # Idle, Owed, NEW a, a = running.match
  PROVE  /\ a \in Anchor /\ a # NoAnchor
         /\ row[a].state # "absent" /\ Active \subseteq {a}
         /\ a \notin struck =>
              /\ settled[a] = 0
              /\ running.meta = "bare" => row[a].meta = Bare /\ a \notin landed
              /\ running.meta = "deferred" => row[a].meta = LandingOf(a) /\ a \in landed
BY FlightFields DEF IInv, InFlight, Remembered, Owed

LEMMA OwedLands ==
  ASSUME IInv, running # Idle, Owed, NEW end \in {"closed", "open", "dangling"}, Ended(end)
  PROVE  landed' = landed \cup {running.match}
BY OwedRow DEF Ended, Owed

LEMMA AnswerFailedStep ==
  ASSUME IInv, AnswerFailed
  PROVE  IInv' /\ Maps
<1>1. Ended("error") /\ ending' = Idle /\ landed' = landed
  BY DEF AnswerFailed, Ended
<1>. QED  BY <1>1, DoneStep

LEMMA RevisionKinds ==
  ASSUME NEW r \in Revision \cup {Failed}
  PROVE  r \in Outcome \ {NoRevision}
BY NullsDiffer DEF Outcome

LEMMA ThisTurnFacts ==
  ASSUME IInv, running # Idle, Owed
  PROVE  /\ ThisTurn \in Revision
         /\ running.match \notin landed => ThisTurn = LandingOf(running.match)
BY OwedRow DEF ThisTurn, Revision, LandingOf

LEMMA SpliceTellStep ==
  ASSUME IInv, running # Idle, Owed, NEW end \in {"closed", "dangling"}, Ended(end),
         NEW r \in Revision \cup {Failed}, ending' = Tell(running.match, r),
         running.match \notin struck => r \in {Failed, LandingOf(running.match)}
  PROVE  IInv' /\ Maps
<1>. DEFINE a == running.match
            e == Tell(a, r)
<1>1. a \in Anchor /\ row[a].state # "absent" /\ Active \subseteq {a} /\ landed' = landed \cup {a}
  BY OwedRow, OwedLands
<1>2. e \in End /\ e.anchor = a /\ e.stage = "tell" /\ e.result = r
  BY <1>1, RevisionKinds, TellFields
<1>3. a \notin struck => settled[a] = 0 /\ row[a].meta \in {Bare, LandingOf(a)}
  BY OwedRow DEF Owed
<1>4. ending' = e /\ (a \notin struck => r \in {Failed, LandingOf(a)})
  OBVIOUS
<1>. HIDE DEF a, e
<1>. QED  BY <1>1, <1>2, <1>3, <1>4, EndStep

LEMMA SpliceClosedStep ==
  ASSUME IInv, SpliceClosed
  PROVE  IInv' /\ Maps
<1>. DEFINE a == running.match
<1>. TypeOK /\ running # Idle /\ Owed /\ Ended("closed")
  BY DEF IInv, SpliceClosed
<1>1. PICK r \in Revision \cup {Failed} :
        ending' = Tell(a, r) /\ (a \notin struck => r \in {Failed, LandingOf(a)})
  <2>1. CASE running.meta = "bare" /\ EmitForkForked(a, ThisTurn)
    BY <2>1, OwedRow, ThisTurnFacts DEF EmitForkForked
  <2>2. CASE running.meta = "deferred" /\ \E b \in Deferred : EmitForkForked(a, row[b].meta)
    <3>1. PICK b \in Deferred : EmitForkForked(a, row[b].meta)
      BY <2>2
    <3>2. b = a /\ row[b].meta \in Revision
      BY <3>1, OwedRow DEF Deferred
    <3>. QED  BY <2>2, <3>1, <3>2, OwedRow DEF EmitForkForked
  <2>3. CASE ending' = Tell(a, Failed)
    BY <2>3
  <2>. QED  BY <2>1, <2>2, <2>3 DEF SpliceClosed
<1>. QED  BY <1>1, SpliceTellStep

LEMMA SpliceDanglingStep ==
  ASSUME IInv, SpliceDangling
  PROVE  IInv' /\ Maps
BY SpliceTellStep DEF SpliceDangling

LEMMA SpliceOpenStep ==
  ASSUME IInv, SpliceOpen
  PROVE  IInv' /\ Maps
<1>. DEFINE a == running.match
            e == Defer
<1>. TypeOK /\ running # Idle /\ Owed /\ Ended("open")
  BY DEF IInv, SpliceOpen
<1>1. a \in Anchor /\ row[a].state # "absent" /\ Active \subseteq {a} /\ landed' = landed \cup {a}
  BY OwedRow, OwedLands
<1>2. CASE running.meta = "bare"
  <2>1. e \in End /\ e.anchor = a /\ e.stage = "defer" /\ e.result = ThisTurn /\ ThisTurn \in Revision
    BY <1>1, ThisTurnFacts, RevisionKinds DEF Defer, End
  <2>2. a \notin struck => settled[a] = 0 /\ row[a].meta = Bare /\ e.result = LandingOf(a)
    BY <1>2, <2>1, OwedRow, ThisTurnFacts
  <2>3. ending' = e
    BY <1>2 DEF SpliceOpen
  <2>. HIDE DEF a, e
  <2>. QED  BY <1>1, <2>1, <2>2, <2>3, EndStep
<1>3. CASE running.meta = "deferred"
  <2>1. ending' = Idle /\ a \in landed \cup struck
    BY <1>3, OwedRow DEF SpliceOpen
  <2>. QED  BY <1>1, <2>1, DoneStep
<1>. QED  BY <1>2, <1>3 DEF Owed

(* A call that owes nothing may still close the chain of the active row.        *)
LEMMA OtherEndedStep ==
  ASSUME IInv, NEW end \in {"closed", "open", "dangling"}, OtherEnded(end)
  PROVE  IInv' /\ Maps
<1>. DEFINE m == running.match
<1>. TypeOK /\ running # Idle /\ ~Owed /\ Ended(end) /\ end # "error"
  BY DEF IInv, OtherEnded
<1>1. CASE ending' = Idle
  <2>1. CASE landed' = landed
    BY <1>1, <2>1, DoneStep
  <2>2. CASE landed' # landed
    <3>1. m # NoAnchor /\ running.meta # "aborted" /\ landed' = landed \cup {m}
      BY <2>2 DEF Ended
    <3>2. m \in Anchor /\ Remembered(running) /\ running.meta = "null"
      BY <3>1, FlightFields DEF IInv, InFlight, Remembered, Owed
    <3>3. row[m].state # "absent" /\ m \in landed \cup struck
      BY <3>2 DEF Remembered
    <3>. QED  BY <1>1, <3>1, <3>2, <3>3, DoneStep
  <2>. QED  BY <2>1, <2>2
<1>2. CASE /\ m = NoAnchor /\ end # "open"
           /\ \E b \in Deferred :
                IF end = "closed" THEN EmitForkForked(b, row[b].meta) ELSE ending' = Tell(b, Failed)
  <2>1. PICK b \in Deferred :
          IF end = "closed" THEN EmitForkForked(b, row[b].meta) ELSE ending' = Tell(b, Failed)
    BY <1>2
  <2>2. b \in Anchor /\ b \in Active /\ row[b].meta \in Revision
    BY <2>1 DEF Deferred, Active
  <2>3. row[b].state # "absent" /\ Active \subseteq {b} /\ landed' = landed
    BY <1>2, <2>2 DEF IInv, OneActiveAnchor, Active, Ended
  <2>4. b \notin struck => row[b].meta = LandingOf(b) /\ b \in landed /\ settled[b] = 0
    <3> SUFFICES ASSUME b \notin struck PROVE row[b].meta = LandingOf(b) /\ b \in landed /\ settled[b] = 0
      OBVIOUS
    <3>1. row[b].meta # Bare /\ row[b].meta # NoRevision
      BY <2>2, NullsDiffer
    <3>2. ending = Idle /\ (listing # Idle => listing.anchor \in struck)
      BY DEF IInv, InFlight, Listed, Free
    <3>. QED  BY <2>2, <3>1, <3>2 DEF IInv, RewindIsAccountedFor, LandingOf
  <2>5. PICK r \in {Failed, row[b].meta} : ending' = Tell(b, r)
    BY <2>1 DEF EmitForkForked
  <2>. DEFINE e == Tell(b, r)
  <2>6. e \in End /\ e.anchor = b /\ e.stage = "tell" /\ e.result = r
    BY <2>2, RevisionKinds, TellFields
  <2>7. ending' = e /\ (b \notin struck => r \in {Failed, LandingOf(b)})
    BY <2>4, <2>5
  <2>. HIDE DEF e
  <2>. QED  BY <2>2, <2>3, <2>4, <2>6, <2>7, EndStep
<1>. QED  BY <1>1, <1>2 DEF OtherEnded

-----------------------------------------------------------------------------
(* The steps of an end. *)

LEMMA SettleType ==
  ASSUME TypeOK, NEW a \in Anchor, NEW r \in Outcome, Settle(a, r), r # NoRevision
  PROVE  /\ outcome' \in [Anchor -> Outcome] /\ settled' \in [Anchor -> 0..2]
         /\ outcome'[a] = r /\ settled'[a] # 0 /\ (settled[a] = 0 => settled'[a] = 1)
         /\ \A b \in Anchor \ {a} : settled'[b] = settled[b] /\ outcome'[b] = outcome[b]
BY DEF TypeOK, Settle

LEMMA TurnDefersStep ==
  ASSUME IInv, TurnDefers
  PROVE  IInv' /\ Maps
<1>. DEFINE a == ending.anchor
            r == ending.result
<1>. TypeOK
  BY DEF IInv
<1>1. /\ ending # Idle /\ ending.stage = "defer" /\ row' = ActiveMeta(r) /\ ending' = Idle
      /\ UNCHANGED <<outcome, settled, landed, struck, listing, running>>
  BY DEF TurnDefers, eventVars
<1>2. /\ a \in Anchor /\ running = Idle /\ row[a].state # "absent" /\ Active \subseteq {a}
      /\ r \in Revision /\ r \in Meta
      /\ a \notin struck => a \in landed /\ settled[a] = 0 /\ r = LandingOf(a)
      /\ listing # Idle => listing.anchor \in struck /\ listing.anchor \in Anchor
  BY <1>1, EndsTyped, EndFields DEF IInv, AtEnd, Telling, Listed, Free, Meta
<1>. HIDE DEF a, r
<1>3. /\ row' \in [Anchor -> Row]
      /\ \A b \in Anchor : /\ row'[b].state = row[b].state
                           /\ row'[b].meta = (IF b \in Active THEN r ELSE row[b].meta)
  BY <1>1, <1>2, MetaRows
<1>4. TypeOK' /\ Active' = Active
  <2>1. TypeOK'
    BY <1>1, <1>3 DEF TypeOK, TurnDefers, clientVars, eventVars
  <2>. QED  BY <2>1, <1>3 DEF Active
<1>5. OneActiveAnchor' /\ InFlight' /\ AtEnd'
  BY <1>1, <1>2, <1>4 DEF IInv, OneActiveAnchor, InFlight, AtEnd
<1>6. RewindIsAccountedFor'
  BY <1>1, <1>2, <1>3, <1>4 DEF RewindIsAccountedFor, LandingOf
<1>7. Ledger' /\ Listed'
  BY <1>1, <1>2, <1>3 DEF IInv, Ledger, Listed, LandingOf
<1>8. Maps
  BY <1>1, <1>3, SpoilMaps, {} \in SUBSET Anchor, struck' = struck \cup {}
<1>. QED  BY <1>4, <1>5, <1>6, <1>7, <1>8 DEF IInv

LEMMA TurnTellsStep ==
  ASSUME IInv, TurnTells
  PROVE  IInv' /\ Maps
<1>. DEFINE a == ending.anchor
            r == ending.result
            e == [ending EXCEPT !.stage = "clear"]
<1>. TypeOK
  BY DEF IInv
<1>1. /\ ending # Idle /\ ending.stage = "tell" /\ Settle(a, r) /\ ending' = e
      /\ UNCHANGED <<row, landed, struck, listing, running>>
  BY DEF TurnTells
<1>2. /\ a \in Anchor /\ running = Idle /\ row[a].state # "absent" /\ Active \subseteq {a}
      /\ r \in Outcome /\ r # NoRevision
      /\ a \notin struck => /\ a \in landed /\ settled[a] = 0 /\ r \in {Failed, LandingOf(a)}
                           /\ row[a].meta \in {Bare, LandingOf(a)}
      /\ listing # Idle => listing.anchor \in struck /\ listing.anchor \in Anchor
  BY <1>1, EndsTyped, EndFields DEF IInv, AtEnd, Telling, Listed, Free
<1>3. e \in End /\ e.anchor = a /\ e.stage = "clear" /\ e # Idle
  BY <1>1, EndsTyped, EndFields, IdleAssumption
<1>. HIDE DEF a, r, e
<1>4. /\ outcome' \in [Anchor -> Outcome] /\ settled' \in [Anchor -> 0..2]
      /\ outcome'[a] = r /\ settled'[a] # 0 /\ (settled[a] = 0 => settled'[a] = 1)
      /\ \A b \in Anchor \ {a} : settled'[b] = settled[b] /\ outcome'[b] = outcome[b]
  BY <1>1, <1>2, SettleType
<1>5. TypeOK' /\ Active' = Active
  <2>1. TypeOK'
    BY <1>1, <1>3, <1>4 DEF TypeOK, TurnTells, clientVars
  <2>. QED  BY <2>1, <1>1 DEF Active
<1>6. OneActiveAnchor' /\ InFlight' /\ Listed'
  BY <1>1, <1>2, <1>5 DEF IInv, OneActiveAnchor, InFlight, Listed
<1>7. AtEnd'
  BY <1>1, <1>2, <1>3, <1>4, <1>5, NullsDiffer DEF AtEnd, Telling, LandingOf
<1>8. RewindIsAccountedFor'
  <2> SUFFICES ASSUME NEW b \in Active \ struck
               PROVE  b \in landed /\ e.anchor = b /\ settled'[b] = (IF e.stage = "clear" THEN 1 ELSE 0)
    BY <1>1, <1>3, <1>5 DEF RewindIsAccountedFor
  <2>. QED  BY <1>2, <1>3, <1>4
<1>9. Ledger'
  <2> SUFFICES ASSUME NEW b \in Anchor
               PROVE  /\ settled'[b] = 0 <=> outcome'[b] = NoRevision
                      /\ b \notin struck =>
                           settled'[b] # 2 /\ (outcome'[b] \in Revision => outcome'[b] = LandingOf(b))
                      /\ row[b].state = "absent" => settled'[b] = 0 /\ b \notin landed \cup struck
    BY <1>1 DEF Ledger, LandingOf
  <2>1. CASE b = a
    BY <1>2, <1>4, <2>1, NullsDiffer
  <2>2. CASE b # a
    BY <1>4, <2>2 DEF IInv, Ledger
  <2>. QED  BY <2>1, <2>2
<1>10. Maps
  BY <1>1, <1>2, SettleMaps DEF IInv, Ledger
<1>. QED  BY <1>5, <1>6, <1>7, <1>8, <1>9, <1>10 DEF IInv

LEMMA TurnClearsStep ==
  ASSUME IInv, TurnClears
  PROVE  IInv' /\ Maps
<1>. DEFINE a == ending.anchor
<1>. TypeOK
  BY DEF IInv
<1>1. /\ ending # Idle /\ ending.stage = "clear" /\ row' = ActiveMeta(NoRevision) /\ ending' = Idle
      /\ UNCHANGED <<outcome, settled, landed, struck, listing, running>>
  BY DEF TurnClears, eventVars
<1>2. /\ a \in Anchor /\ running = Idle /\ row[a].state # "absent" /\ Active \subseteq {a}
      /\ a \notin struck => a \in landed /\ settled[a] = 1
      /\ listing # Idle => listing.anchor \in struck /\ listing.anchor \in Anchor
  BY <1>1, EndsTyped, EndFields DEF IInv, AtEnd, Telling, Listed, Free
<1>. HIDE DEF a
<1>3. /\ row' \in [Anchor -> Row]
      /\ \A b \in Anchor : /\ row'[b].state = row[b].state
                           /\ row'[b].meta = (IF b \in Active THEN NoRevision ELSE row[b].meta)
  BY <1>1, MetaRows DEF Meta
<1>4. TypeOK' /\ Active' = Active
  <2>1. TypeOK'
    BY <1>1, <1>3 DEF TypeOK, TurnClears, clientVars, eventVars
  <2>. QED  BY <2>1, <1>3 DEF Active
<1>5. OneActiveAnchor' /\ InFlight' /\ AtEnd'
  BY <1>1, <1>2, <1>4 DEF IInv, OneActiveAnchor, InFlight, AtEnd
<1>6. RewindIsAccountedFor'
  BY <1>1, <1>2, <1>3, <1>4 DEF RewindIsAccountedFor
<1>7. Ledger' /\ Listed'
  BY <1>1, <1>2, <1>3 DEF IInv, Ledger, Listed, LandingOf
<1>8. Maps
  BY <1>1, <1>3, SpoilMaps, {} \in SUBSET Anchor, struck' = struck \cup {}
<1>. QED  BY <1>4, <1>5, <1>6, <1>7, <1>8 DEF IInv

-----------------------------------------------------------------------------
(* Calls outside the queue. *)

LEMMA ListingEndsStep ==
  ASSUME IInv, ListingEnds
  PROVE  IInv' /\ Maps
<1>. TypeOK
  BY DEF IInv
<1>1. PICK a \in Deferred : listing' = Tell(a, Failed) /\ struck' = IF Free THEN struck ELSE struck \cup {a}
  BY DEF ListingEnds
<1>2. /\ listing = Idle /\ UNCHANGED <<row, running, ending, outcome, settled, landed>>
  BY DEF ListingEnds, eventVars
<1>3. a \in Anchor /\ a \in Active /\ row[a].meta \in Revision /\ row[a].state # "absent"
  BY <1>1 DEF Deferred, Active
<1>4. /\ listing' \in End /\ listing' # Idle /\ listing'.anchor = a
      /\ listing'.stage = "tell" /\ listing'.result = Failed
  BY <1>1, <1>3, RevisionKinds, TellFields, IdleAssumption
<1>5. TypeOK'
  BY <1>1, <1>2, <1>3, <1>4 DEF TypeOK, ListingEnds, clientVars, eventVars
<1>6. a \notin struck' => Free /\ row[a].meta = LandingOf(a) /\ a \in landed /\ settled[a] = 0
  <2> SUFFICES ASSUME a \notin struck'
               PROVE  Free /\ row[a].meta = LandingOf(a) /\ a \in landed /\ settled[a] = 0
    OBVIOUS
  <2>1. Free /\ a \notin struck
    BY <1>1
  <2>2. row[a].meta # Bare /\ row[a].meta # NoRevision
    BY <1>3, NullsDiffer
  <2>. QED  BY <1>2, <1>3, <2>1, <2>2, ActiveRow
<1>7. Listed'
  BY <1>2, <1>3, <1>4, <1>6 DEF Listed, Free, LandingOf
<1>8. struck \subseteq struck' /\ struck' \subseteq struck \cup {a}
  BY <1>1
<1>9. OneActiveAnchor' /\ RewindIsAccountedFor' /\ Ledger'
  BY <1>2, <1>3, <1>8 DEF IInv, OneActiveAnchor, RewindIsAccountedFor, Ledger, Active, LandingOf
<1>10. InFlight' /\ AtEnd'
  BY <1>2, <1>8 DEF IInv, InFlight, Remembered, AtEnd, Telling, Active, LandingOf
<1>11. Maps
  <2>1. PICK S \in SUBSET {a} : struck' = struck \cup S
    BY <1>1, {} \in SUBSET {a}, {a} \in SUBSET {a}
  <2>. QED  BY <1>2, <1>3, <2>1, SpoilMaps
<1>. QED  BY <1>5, <1>7, <1>9, <1>10, <1>11 DEF IInv

LEMMA ListingTellsStep ==
  ASSUME IInv, ListingTells
  PROVE  IInv' /\ Maps
<1>. DEFINE a == listing.anchor
            r == listing.result
            e == [listing EXCEPT !.stage = "clear"]
<1>. TypeOK
  BY DEF IInv
<1>1. /\ listing # Idle /\ listing.stage = "tell" /\ Settle(a, r) /\ listing' = e
      /\ UNCHANGED <<row, landed, struck, ending, running>>
  BY DEF ListingTells
<1>2. /\ a \in Anchor /\ row[a].state # "absent" /\ r \in Outcome /\ r # NoRevision
      /\ a \notin struck => /\ Free /\ a \in landed /\ settled[a] = 0 /\ r = Failed
                           /\ row[a].meta = LandingOf(a)
  BY <1>1, EndsTyped, EndFields DEF IInv, Listed
<1>3. e \in End /\ e.anchor = a /\ e.stage = "clear" /\ e.result = r /\ e # Idle
  BY <1>1, EndsTyped, EndFields, IdleAssumption
<1>. HIDE DEF a, r, e
<1>4. /\ outcome' \in [Anchor -> Outcome] /\ settled' \in [Anchor -> 0..2]
      /\ outcome'[a] = r /\ settled'[a] # 0 /\ (settled[a] = 0 => settled'[a] = 1)
      /\ \A b \in Anchor \ {a} : settled'[b] = settled[b] /\ outcome'[b] = outcome[b]
  BY <1>1, <1>2, SettleType
<1>5. TypeOK' /\ Active' = Active
  <2>1. TypeOK'
    BY <1>1, <1>3, <1>4 DEF TypeOK, ListingTells, clientVars
  <2>. QED  BY <2>1, <1>1 DEF Active
<1>6. OneActiveAnchor'
  BY <1>5 DEF IInv, OneActiveAnchor
<1>7. Listed'
  BY <1>1, <1>2, <1>3, <1>4 DEF Listed, Free, LandingOf
<1>8. InFlight'
  <2> SUFFICES ASSUME running # Idle PROVE InFlight'
    BY <1>1 DEF InFlight
  <2>1. a \in struck
    BY <1>2 DEF Free
  <2>2. running.match # NoAnchor => running.match \in Anchor
    BY FlightFields
  <2>. QED  BY <1>1, <1>4, <1>5, <2>1, <2>2 DEF IInv, InFlight, Remembered, LandingOf
<1>9. AtEnd'
  <2> SUFFICES ASSUME ending # Idle PROVE AtEnd'
    BY <1>1 DEF AtEnd
  <2>1. a \in struck
    BY <1>2 DEF Free
  <2>. QED  BY <1>1, <1>4, <1>5, <2>1, EndsTyped, EndFields DEF IInv, AtEnd, Telling, LandingOf
<1>10. RewindIsAccountedFor'
  <2> SUFFICES ASSUME NEW b \in Active \ struck
               PROVE  \/ b \notin landed /\ row[b].meta = Bare /\ settled'[b] = 0
                      \/ b \in landed /\ row[b].meta = LandingOf(b) /\ settled'[b] = 0
                      \/ b \in landed /\ row[b].meta = NoRevision /\ settled'[b] = 1
                      \/ /\ b \in landed
                         /\ \E f \in {ending, e} \ {Idle} :
                              f.anchor = b /\ settled'[b] = (IF f.stage = "clear" THEN 1 ELSE 0)
    BY <1>1, <1>5 DEF RewindIsAccountedFor, LandingOf
  <2>0. b \in Anchor
    BY DEF Active
  <2>1. CASE b = a
    BY <1>2, <1>3, <1>4, <2>1
  <2>2. CASE b # a
    <3>1. settled'[b] = settled[b]
      BY <1>4, <2>0, <2>2
    <3>2. \A f \in {ending, listing} \ {Idle} : f.anchor = b => f = ending
      BY <2>2 DEF a
    <3>. QED  BY <3>1, <3>2 DEF IInv, RewindIsAccountedFor, LandingOf
  <2>. QED  BY <2>1, <2>2
<1>11. Ledger'
  <2> SUFFICES ASSUME NEW b \in Anchor
               PROVE  /\ settled'[b] = 0 <=> outcome'[b] = NoRevision
                      /\ b \notin struck =>
                           settled'[b] # 2 /\ (outcome'[b] \in Revision => outcome'[b] = LandingOf(b))
                      /\ row[b].state = "absent" => settled'[b] = 0 /\ b \notin landed \cup struck
    BY <1>1 DEF Ledger, LandingOf
  <2>1. CASE b = a
    BY <1>2, <1>4, <2>1, NullsDiffer
  <2>2. CASE b # a
    BY <1>4, <2>2 DEF IInv, Ledger
  <2>. QED  BY <2>1, <2>2
<1>12. Maps
  BY <1>1, <1>2, SettleMaps DEF IInv, Ledger
<1>. QED  BY <1>5, <1>6, <1>7, <1>8, <1>9, <1>10, <1>11, <1>12 DEF IInv

LEMMA ListingClearsStep ==
  ASSUME IInv, ListingClears
  PROVE  IInv' /\ Maps
<1>. DEFINE a == listing.anchor
            S == {b \in Active \ {a} : row[b].meta # NoRevision}
<1>. TypeOK
  BY DEF IInv
<1>1. /\ listing # Idle /\ listing.stage = "clear" /\ row' = ActiveMeta(NoRevision) /\ listing' = Idle
      /\ struck' = struck \cup S
      /\ UNCHANGED <<outcome, settled, landed, ending, running>>
  BY DEF ListingClears, eventVars
<1>2. /\ a \in Anchor /\ S \in SUBSET Anchor /\ \A b \in S : row[b].state # "absent"
      /\ a \notin struck => Free /\ a \in landed /\ settled[a] = 1
  BY <1>1, EndsTyped, EndFields DEF IInv, Listed, Active
<1>3. /\ row' \in [Anchor -> Row]
      /\ \A b \in Anchor : /\ row'[b].state = row[b].state
                           /\ row'[b].meta = (IF b \in Active THEN NoRevision ELSE row[b].meta)
  BY <1>1, MetaRows DEF Meta
(* What the clearing does to a row that is not struck. *)
<1>4. \A b \in Anchor \ struck' : b \notin struck /\ (row'[b].meta = row[b].meta \/ (b = a /\ b \in Active))
  BY <1>1, <1>3
<1>. HIDE DEF a, S
<1>5. TypeOK' /\ Active' = Active
  <2>1. TypeOK'
    BY <1>1, <1>2, <1>3 DEF TypeOK, ListingClears, clientVars, eventVars
  <2>. QED  BY <2>1, <1>3 DEF Active
<1>6. OneActiveAnchor' /\ Listed'
  BY <1>1, <1>5 DEF IInv, OneActiveAnchor, Listed
<1>7. RewindIsAccountedFor'
  <2> SUFFICES ASSUME NEW b \in Active, b \notin struck'
               PROVE  \/ b \notin landed /\ row'[b].meta = Bare /\ settled[b] = 0
                      \/ b \in landed /\ row'[b].meta = LandingOf(b) /\ settled[b] = 0
                      \/ b \in landed /\ row'[b].meta = NoRevision /\ settled[b] = 1
                      \/ /\ b \in landed
                         /\ \E f \in {ending} \ {Idle} :
                              f.anchor = b /\ settled[b] = (IF f.stage = "clear" THEN 1 ELSE 0)
    BY <1>1, <1>5 DEF RewindIsAccountedFor, LandingOf
  <2>0. b \in Anchor /\ b \notin struck
    BY <1>4 DEF Active
  <2>1. CASE b = a
    BY <1>2, <1>3, <2>0, <2>1
  <2>2. CASE b # a
    <3>1. row'[b].meta = row[b].meta
      BY <1>4, <2>0, <2>2
    <3>2. \A f \in {ending, listing} \ {Idle} : f.anchor = b => f = ending
      BY <2>2 DEF a
    <3>. QED  BY <2>0, <3>1, <3>2 DEF IInv, RewindIsAccountedFor, LandingOf
  <2>. QED  BY <2>1, <2>2
<1>8. Ledger'
  BY <1>1, <1>2, <1>3, <1>4 DEF IInv, Ledger, LandingOf
<1>9. InFlight'
  <2> SUFFICES ASSUME running # Idle, running.match # NoAnchor
               PROVE  Remembered(running)'
    BY <1>1 DEF IInv, InFlight
  <2>1. running.match \in Anchor /\ Remembered(running) /\ a \in struck
    BY <1>2, FlightFields DEF IInv, InFlight, Free
  <2>2. running.match \notin struck' => row'[running.match].meta = row[running.match].meta /\ running.match \notin struck
    BY <1>1, <1>4, <2>1
  <2>. QED  BY <1>1, <1>3, <1>5, <2>1, <2>2 DEF Remembered, LandingOf
<1>10. AtEnd'
  <2> SUFFICES ASSUME ending # Idle
               PROVE  AtEnd'
    BY <1>1 DEF AtEnd
  <2>1. ending.anchor \in Anchor /\ a \in struck
    BY <1>2, EndsTyped, EndFields DEF Free
  <2>2. ending.anchor \notin struck' => row'[ending.anchor].meta = row[ending.anchor].meta /\ ending.anchor \notin struck
    BY <1>1, <1>4, <2>1
  <2>. QED  BY <1>1, <1>3, <1>5, <2>1, <2>2 DEF IInv, AtEnd, Telling, LandingOf
<1>11. Maps
  BY <1>1, <1>2, <1>3, SpoilMaps
<1>. QED  BY <1>5, <1>6, <1>7, <1>8, <1>9, <1>10, <1>11 DEF IInv

-----------------------------------------------------------------------------
(* A restart forgets the calls and the ends; what they left half done is struck. *)
LEMMA RestartStep ==
  ASSUME IInv, Restart
  PROVE  IInv' /\ Maps
<1>. TypeOK /\ TypeOK'
  BY RestartType DEF IInv
<1>1. /\ running' = Idle /\ ending' = Idle /\ listing' = Idle /\ struck' = struck \cup Cut
      /\ UNCHANGED <<row, outcome, settled, landed>>
  BY DEF Restart, eventVars
<1>2. Cut \in SUBSET Anchor /\ \A a \in Cut : row[a].state # "absent"
  BY DEF Cut, IInv, AtEnd, Listed
<1>3. OneActiveAnchor' /\ InFlight' /\ AtEnd' /\ Listed'
  BY <1>1 DEF IInv, OneActiveAnchor, InFlight, AtEnd, Listed, Active
<1>4. Ledger'
  BY <1>1, <1>2 DEF IInv, Ledger, LandingOf
<1>5. RewindIsAccountedFor'
  <2> SUFFICES ASSUME NEW a \in Active, a \notin struck, a \notin Cut
               PROVE  \/ a \notin landed /\ row[a].meta = Bare /\ settled[a] = 0
                      \/ a \in landed /\ row[a].meta = LandingOf(a) /\ settled[a] = 0
                      \/ a \in landed /\ row[a].meta = NoRevision /\ settled[a] = 1
    BY <1>1 DEF RewindIsAccountedFor, Active, LandingOf
  <2>0. a \in Anchor
    BY DEF Active
  <2>1. CASE \E e \in {ending, listing} \ {Idle} : e.anchor = a
    <3>1. PICK e \in {ending, listing} \ {Idle} : e.anchor = a
      BY <2>1
    <3>2. e.stage # "clear" /\ row[a].meta # Bare
      BY <2>0, <3>1 DEF Cut
    <3>3. CASE e = ending
      <4>1. Telling(a, e) /\ e.stage \in {"defer", "tell", "clear"}
        BY <3>1, <3>3, EndsTyped, EndFields DEF IInv, AtEnd
      <4>. QED  BY <3>2, <4>1 DEF Telling
    <3>4. CASE e = listing
      BY <3>1, <3>2, <3>4 DEF IInv, Listed
    <3>. QED  BY <3>1, <3>3, <3>4
  <2>2. CASE ~\E e \in {ending, listing} \ {Idle} : e.anchor = a
    BY <2>2 DEF IInv, RewindIsAccountedFor, LandingOf
  <2>. QED  BY <2>1, <2>2
<1>6. Maps
  BY <1>1, <1>2, SpoilMaps
<1>. QED  BY <1>3, <1>4, <1>5, <1>6 DEF IInv

LEMMA ClientStep ==
  ASSUME IInv, NEW g \in Agent, ClientNext(g)
  PROVE  IInv' /\ Maps
<1>. TypeOK
  BY DEF IInv
<1>1. CASE SendMessages(g) \/ CallTool(g)
  <2>1. PICK kind \in {"messages", "tool"} : Enqueue(g, kind)
    BY <1>1 DEF SendMessages, CallTool
  <2>2. TypeOK'
    BY <2>1, EnqueueType
  <2>. QED  BY <2>1, <2>2, QuietStep DEF Enqueue, endVars, eventVars
<1>2. CASE Interrupt(g)
  <2>1. TypeOK' /\ UNCHANGED <<row, outcome, settled, landed, ending, listing, struck>>
    BY <1>2, InterruptType DEF Interrupt, endVars, eventVars
  <2>2. running' = Idle \/ (running # Idle /\ running' = Gone(running, g))
    BY <1>2 DEF Interrupt
  <2>. QED  BY <2>1, <2>2, QuietStep
<1>3. CASE CutBack(g)
  <2>1. TypeOK'
    BY <1>3, CutBackType
  <2>. QED  BY <1>3, <2>1, QuietStep DEF CutBack, endVars, eventVars
<1>. QED  BY <1>1, <1>2, <1>3 DEF ClientNext

LEMMA OtherStep ==
  ASSUME IInv, SessionStartHook \/ ToolAnswered \/ CountTokens
  PROVE  IInv' /\ Maps
<1>. TypeOK
  BY DEF IInv
<1>1. CASE SessionStartHook
  <2>1. TypeOK'
    BY <1>1, HookType
  <2>. QED  BY <1>1, <2>1, ReleaseStep DEF SessionStartHook, endVars, eventVars
<1>2. CASE ToolAnswered
  <2>1. TypeOK'
    BY <1>2, ToolAnsweredType
  <2>. QED  BY <1>2, <2>1, QuietStep DEF ToolAnswered, endVars, eventVars
<1>3. CASE CountTokens
  <2>1. TypeOK'
    BY <1>3, CountTokensType
  <2>. QED  BY <1>3, <2>1, QuietStep DEF CountTokens, endVars, eventVars
<1>. QED  BY <1>1, <1>2, <1>3

LEMMA EveryStep ==
  ASSUME IInv, [Next]_vars
  PROVE  IInv' /\ Maps
<1>1. CASE \E g \in Agent : ClientNext(g)
  BY <1>1, ClientStep
<1>2. CASE ProxyNext
  BY <1>2, OtherStep, RewindScheduledStep, DispatchStep, AnswerFailedStep, SpliceClosedStep,
     SpliceOpenStep, SpliceDanglingStep, OtherEndedStep, TurnDefersStep, TurnTellsStep, TurnClearsStep
  DEF ProxyNext
<1>3. CASE ListingNext
  BY <1>3, ListingEndsStep, ListingTellsStep, ListingClearsStep DEF ListingNext
<1>4. CASE SessionStartHook \/ CountTokens \/ Restart
  BY <1>4, OtherStep, RestartStep
<1>5. CASE UNCHANGED vars
  <2>1. TypeOK'
    BY <1>5 DEF vars, IInv, TypeOK
  <2>. QED  BY <1>5, <2>1, QuietStep DEF vars
<1>. QED  BY <1>1, <1>2, <1>3, <1>4, <1>5 DEF Next

LEMMA InitIInv == Init => IInv
<1> SUFFICES ASSUME Init PROVE IInv
  OBVIOUS
<1>1. TypeOK
  <2>1. NoRow \in Row /\ NoRevision \in Outcome /\ <<>> \in Seq(Anchor) /\ <<>> \in Seq(Call)
    BY EmptySeq DEF NoRow, Row, Meta, Outcome
  <2>2. settled \in [Anchor -> 0..2] /\ outcome \in [Anchor -> Outcome] /\ row \in [Anchor -> Row]
    BY <2>1 DEF Init
  <2>3. convo \in [Agent -> Seq(Anchor)] /\ queue \in Seq(Call) /\ turn \in [Agent -> {"user", "waiting", "tools"}]
    BY <2>1 DEF Init
  <2>. QED  BY <2>2, <2>3 DEF Init, TypeOK
<1>2. OneActiveAnchor /\ RewindIsAccountedFor /\ InFlight /\ AtEnd /\ Listed
  BY DEF Init, NoRow, OneActiveAnchor, RewindIsAccountedFor, InFlight, AtEnd, Listed, Active
<1>3. Ledger
  <2> SUFFICES ASSUME NEW a \in Anchor
               PROVE  /\ settled[a] = 0 /\ settled[a] # 2 /\ outcome[a] = NoRevision /\ NoRevision \notin Revision
                      /\ a \notin landed /\ a \notin struck
    BY DEF Ledger
  <2>. QED  BY NullsDiffer DEF Init
<1>. QED  BY <1>1, <1>2, <1>3 DEF IInv

-----------------------------------------------------------------------------
THEOREM InductiveInvariant == Spec => []IInv
BY InitIInv, EveryStep, PTL DEF Spec

(* Every variable has its type: bodies carry anchor tokens, a row's metadata is  *)
(* NULL, bare or names a turn.                                                   *)
THEOREM TypeCorrect == Spec => []TypeOK
BY InductiveInvariant, PTL DEF IInv

(* getActiveAnchor's LIMIT 1 never hides a second active row of a session.       *)
THEOREM OneActive == Spec => []OneActiveAnchor
BY InductiveInvariant, PTL DEF IInv

(* A live rewind that was not struck is not landed and owes all, landed with its *)
(* landing on record, settled once and cleared, or has an end at it.             *)
THEOREM AccountedFor == Spec => []RewindIsAccountedFor
BY InductiveInvariant, PTL DEF IInv

(* At most one announcement per rewind that was not struck, a fork named by its  *)
(* own landing turn.                                                             *)
THEOREM NamesItsLanding == Spec => []ForkNamesItsLanding
<1>1. ASSUME IInv, NEW a \in Anchor \ struck PROVE settled[a] <= 1
  <2>1. settled[a] \in 0..2 /\ settled[a] # 2  BY <1>1 DEF IInv, Ledger, TypeOK
  <2>. QED  BY <2>1
<1>2. ASSUME IInv, NEW a \in Anchor \ struck, outcome[a] \in Revision
      PROVE outcome[a] = [anchor |-> a, landing |-> TRUE]
  <2>1. outcome[a] = LandingOf(a)  BY <1>2 DEF IInv, Ledger
  <2>. QED  BY <2>1 DEF LandingOf
<1>3. IInv => ForkNamesItsLanding  BY <1>1, <1>2 DEF ForkNamesItsLanding
<1>. QED  BY <1>3, InductiveInvariant, PTL

(* Rows, queue, splice, deferral, the steps of an end, calls outside the queue,  *)
(* hooks and restarts implement the abstract rewind.                             *)
THEOREM Refinement == Spec => ImplementsRewindOutcome
<1>1. IInv /\ [Next]_vars => [Rewinds!RNext]_(Rewinds!rVars)
  BY EveryStep DEF Maps
<1>. QED  BY <1>1, InitMaps, InductiveInvariant, PTL DEF Spec, ImplementsRewindOutcome, Rewinds!RSpec
=============================================================================

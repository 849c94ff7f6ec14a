----------------------------- MODULE ForkAnchors -----------------------------
(***************************************************************************)
(* The retcon proxy keeps a rewound conversation alive: rewind_to inserts  *)
(* an active row of fork_anchors and answers with its token; while the     *)
(* token is in the body the client sends, the proxy splices the rewound    *)
(* history over everything up to it (playtiss-proxy/src/fork-anchors.ts,   *)
(* proxy-handler.ts, mcp-tools.ts, hook-handler.ts).                       *)
(*                                                                         *)
(* One session.  Its agents, the client's main conversation and its        *)
(* subagents, share the session id.  Their /v1/messages and tool calls go  *)
(* through one SessionQueue; the SessionStart hook and the calls whose URL *)
(* has no /messages, such as GET /v1/models, do not.  A queued call        *)
(* carries the body its agent had when it sent it.                         *)
(*                                                                         *)
(* The end of an answer is several steps: the terminal event, with what    *)
(* the end found on record; the announcement; the clearing of the record.  *)
(* A queued call holds the queue until its end is through.                 *)
(***************************************************************************)
EXTENDS Integers, Sequences

CONSTANTS
  Anchor,    \* anchor tokens; each names one row of fork_anchors
  Agent,     \* conversations of the client
  Main,      \* the one the user sees and edits
  NoAgent,   \* the agent of a call whose client has gone
  NoAnchor,  \* no anchor was matched
  NoRevision,\* NULL metadata; no outcome yet
  Bare,      \* metadata as rewind_to wrote it
  Failed,    \* the outcome fork.synthesis_failed
  Idle,      \* no queued call is with upstream; no end is under way
  MaxCalls   \* bound: calls sent and not answered

ASSUME MainAssumption == Main \in Agent /\ NoAgent \notin Agent
ASSUME NoAnchorAssumption == NoAnchor \notin Anchor
ASSUME MaxCallsAssumption == MaxCalls \in Nat

(* A turn of the rewound branch, by the anchor that was spliced into it and *)
(* whether it was the first one answered on that anchor.                    *)
Revision == [anchor : Anchor, landing : BOOLEAN]

ASSUME RevisionAssumption ==
  /\ {NoRevision, Bare, Failed} \cap Revision = {}
  /\ NoRevision # Bare /\ NoRevision # Failed

(* synthetic_metadata_json: NULL, as rewind_to wrote it, or wrapped with    *)
(* the turn the fork landed on.                                             *)
Meta == {NoRevision, Bare} \cup Revision
Outcome == {NoRevision, Failed} \cup Revision   \* the latter is fork.forked's to_revision_id

Row == [state : {"absent", "active", "released"}, meta : Meta,
        parallel : BOOLEAN]
Call == [kind : {"messages", "tool", "count"}, by : Agent \cup {NoAgent},
         body : Seq(Anchor)]
Flight == [by : Agent \cup {NoAgent}, match : Anchor \cup {NoAnchor},
           meta : {"null", "bare", "deferred", "aborted", "probe"}]

(* What an end still has to do about a rewind: write the landing turn on its row, *)
(* announce its outcome, or, announced, clear the record.                         *)
End == [anchor : Anchor, stage : {"defer", "tell", "clear"}, result : Outcome \ {NoRevision}]

ASSUME IdleAssumption == Idle \notin Flight \cup End

VARIABLES
  convo,    \* per agent, the tokens in its local conversation, oldest first
  turn,     \* per agent: "user" may speak, "waiting" for an answer, may use "tools"
  row,      \* the rows of fork_anchors
  queue,    \* SessionQueue: calls that have not started
  running,  \* the queued call that is with upstream
  ending,   \* the end of the queued call that was
  listing,  \* the end of a call outside the queue; one at a time is modelled
  forkable, \* some turn of the session is closed_forkable
  outcome,  \* per anchor, the last fork.forked or fork.synthesis_failed about it
  settled,  \* per anchor, how many there were: none, one, or 2 for more
  landed,   \* history: anchors whose spliced body was answered with a 2xx
  struck    \* history: anchors whose end was crossed by another, or cut by a restart

vars == <<convo, turn, row, queue, running, ending, listing,
          forkable, outcome, settled, landed, struck>>

clientVars == <<convo, turn>>
endVars == <<ending, listing, struck>>
eventVars == <<forkable, outcome, settled, landed>>

TypeOK ==
  /\ convo \in [Agent -> Seq(Anchor)]
  /\ turn \in [Agent -> {"user", "waiting", "tools"}]
  /\ row \in [Anchor -> Row]
  /\ queue \in Seq(Call)
  /\ running \in Flight \cup {Idle}
  /\ ending \in End \cup {Idle}
  /\ listing \in End \cup {Idle}
  /\ forkable \in BOOLEAN
  /\ outcome \in [Anchor -> Outcome]
  /\ settled \in [Anchor -> 0..2]
  /\ landed \in SUBSET Anchor
  /\ struck \in SUBSET Anchor

NoRow == [state |-> "absent", meta |-> NoRevision, parallel |-> FALSE]

Init ==
  /\ convo = [g \in Agent |-> <<>>]
  /\ turn = [g \in Agent |-> "user"]
  /\ row = [a \in Anchor |-> NoRow]
  /\ queue = <<>>
  /\ running = Idle
  /\ ending = Idle
  /\ listing = Idle
  /\ forkable = FALSE
  /\ outcome = [a \in Anchor |-> NoRevision]
  /\ settled = [a \in Anchor |-> 0]
  /\ landed = {}
  /\ struck = {}

-----------------------------------------------------------------------------
(* The rows. *)

Active == {a \in Anchor : row[a].state = "active"}

(* Rows of a set become released; the others keep their state. *)
Released(S) == [a \in Anchor |-> IF a \in S THEN [row[a] EXCEPT !.state = "released", !.parallel = FALSE]
                                 ELSE row[a]]

(* setPendingSynthetic and clearPendingSynthetic write on the session's active rows. *)
ActiveMeta(m) == [a \in Anchor |-> IF a \in Active THEN [row[a] EXCEPT !.meta = m, !.parallel = FALSE]
                                   ELSE row[a]]

(* Active rows that wait for the end of their tool chain (getPendingSynthetic). *)
Deferred == {a \in Active : row[a].meta \in Revision}

-----------------------------------------------------------------------------
(* The client.  An agent has one call out at a time, or none. *)

(* Nothing of the queue is at work. *)
Free == running = Idle /\ ending = Idle

Pending == Len(queue) + (IF Free THEN 0 ELSE 1)

Enqueue(g, kind) ==
  /\ Pending < MaxCalls
  /\ queue' = Append(queue, [kind |-> kind, by |-> g, body |-> convo[g]])
  /\ turn' = [turn EXCEPT ![g] = "waiting"]
  /\ UNCHANGED <<convo, row, running, endVars, eventVars>>

SendMessages(g) == turn[g] # "waiting" /\ Enqueue(g, "messages")

(* Tools, rewind_to among them, are called by a turn that ended on tool_use. *)
CallTool(g) == turn[g] = "tools" /\ Enqueue(g, "tool")

(* POST /v1/messages/count_tokens: queued, at any time, and no turn waits for it. *)
CountTokens ==
  /\ Pending < MaxCalls
  /\ queue' = Append(queue, [kind |-> "count", by |-> NoAgent, body |-> <<>>])
  /\ UNCHANGED <<clientVars, row, running, endVars, eventVars>>

(* The user interrupts an agent, or its connection drops: the call stays. *)
Gone(c, g) == IF c.by = g THEN [c EXCEPT !.by = NoAgent] ELSE c

Interrupt(g) ==
  /\ turn[g] = "waiting"
  /\ turn' = [turn EXCEPT ![g] = "user"]
  /\ queue' = [i \in DOMAIN queue |-> Gone(queue[i], g)]
  /\ running' = IF running = Idle THEN Idle ELSE Gone(running, g)
  /\ UNCHANGED <<convo, row, endVars, eventVars>>

(* The client's own /rewind cuts the main conversation back; a subagent starts anew. *)
CutBack(g) ==
  /\ turn[g] = "user"
  /\ \E n \in 0..(Len(convo[g]) - 1) :
       /\ g # Main => n = 0
       /\ convo' = [convo EXCEPT ![g] = SubSeq(@, 1, n)]
  /\ UNCHANGED <<turn, row, queue, running, endVars, eventVars>>

(* /clear and /compact empty the main conversation; the hook is not queued. *)
SessionStartHook ==
  /\ turn[Main] # "waiting"
  /\ convo' = [convo EXCEPT ![Main] = <<>>]
  /\ row' = Released(Active)
  /\ UNCHANGED <<turn, queue, running, endVars, eventVars>>

-----------------------------------------------------------------------------
(* Tool calls: a handler runs when it is first in the queue and nothing else runs. *)

(* Mutant: tool calls do not go through the queue of /v1/messages. *)
Next1stUnqueued(kind) ==
  (Free \/ kind # "messages") /\ queue # <<>> /\ Head(queue).kind = kind

Next1st(kind) == Free /\ queue # <<>> /\ Head(queue).kind = kind

Answer(g, t) == IF g = NoAgent THEN turn ELSE [turn EXCEPT ![g] = t]

(* Any other tool, or rules returned, no such turn, message refused: no row changes. *)
ToolAnswered ==
  /\ Next1st("tool")
  /\ queue' = Tail(queue)
  /\ turn' = Answer(Head(queue).by, "tools")
  /\ UNCHANGED <<convo, row, running, endVars, eventVars>>

(* Mutant: the prior active row stays active. *)
InsertBesideActive(a, parallel) ==
  row' = [row EXCEPT ![a] = [state |-> "active", meta |-> Bare, parallel |-> parallel]]

(* rewind_to and submit_file: the prior active row is superseded, the tool   *)
(* result puts the new token at the end of the caller's conversation.        *)
InsertActiveAnchor(a, parallel) ==
  row' = [Released(Active) EXCEPT
       ![a] = [state |-> "active", meta |-> Bare, parallel |-> parallel]]

RewindScheduled ==
  /\ Next1st("tool")
  /\ forkable
  /\ queue' = Tail(queue)
  /\ \E a \in Anchor, parallel \in BOOLEAN :
       /\ row[a].state = "absent"
       /\ InsertActiveAnchor(a, parallel)
       /\ convo' = IF Head(queue).by = NoAgent THEN convo
                    ELSE [convo EXCEPT ![Head(queue).by] = Append(@, a)]
  /\ turn' = Answer(Head(queue).by, "user")
  /\ UNCHANGED <<running, endVars, eventVars>>

-----------------------------------------------------------------------------
(* A /v1/messages call: splice the body, forward it. *)

(* The body has no token: an active row is released as diverged. *)
SpliceDiverged(c) ==
  /\ c.body = <<>>
  /\ row' = Released(Active)
  /\ running' = [by |-> c.by, match |-> NoAnchor, meta |-> "null"]
  /\ UNCHANGED eventVars

(* The last token in the body is of a released row: forwarded as it is. *)
SplicePassed(c) ==
  /\ c.body # <<>>
  /\ row[c.body[Len(c.body)]].state # "active"
  /\ running' = [by |-> c.by, match |-> NoAnchor, meta |-> "null"]
  /\ UNCHANGED <<row, eventVars>>

(* Mutant: the shape is not parsed. *)
MetaUnparsed(a) == row[a].meta

(* The shape of synthetic_metadata_json when the body is spliced. *)
MetaOf(a) == IF row[a].meta = NoRevision THEN "null"
             ELSE IF row[a].meta = Bare THEN "bare" ELSE "deferred"

(* It is of an active row: spliced. *)
SpliceApplied(c) ==
  /\ c.body # <<>>
  /\ LET a == c.body[Len(c.body)] IN
       /\ row[a].state = "active"
       /\ ~(row[a].meta = Bare /\ row[a].parallel)
       /\ running' = [by |-> c.by, match |-> a, meta |-> MetaOf(a)]
  /\ UNCHANGED <<row, eventVars>>

(* An outcome is announced. *)
Settle(a, result) ==
  /\ outcome' = [outcome EXCEPT ![a] = result]
  /\ settled' = [settled EXCEPT ![a] = IF @ = 0 THEN 1 ELSE 2]

(* The turn that called rewind_to called other tools too: the rewind is given up. *)
SpliceAborted(c) ==
  /\ c.body # <<>>
  /\ LET a == c.body[Len(c.body)] IN
       /\ row[a].state = "active"
       /\ row[a].meta = Bare /\ row[a].parallel
       /\ row' = Released({a})
       /\ running' = [by |-> c.by, match |-> a, meta |-> "aborted"]
       /\ Settle(a, Failed)
  /\ UNCHANGED <<forkable, landed>>

(* count_tokens is queued like a turn and never spliced. *)
SpliceSkipped(c) ==
  /\ running' = [by |-> c.by, match |-> NoAnchor, meta |-> "probe"]
  /\ UNCHANGED <<row, eventVars>>

(* A call that starts while the end of a listing is under way crosses it. *)
Dispatch ==
  /\ queue # <<>> /\ queue' = Tail(queue)
  /\ LET c == Head(queue) IN
       \/ Next1st("count") /\ SpliceSkipped(c)
       \/ /\ Next1st("messages")
          /\ SpliceDiverged(c) \/ SplicePassed(c) \/ SpliceApplied(c) \/ SpliceAborted(c)
  /\ struck' = IF listing = Idle THEN struck ELSE struck \cup {listing.anchor}
  /\ UNCHANGED <<clientVars, ending, listing>>

-----------------------------------------------------------------------------
(* The answer of upstream, and what it does to the fork.  Ends: "closed" for *)
(* end_turn and stop_sequence, "open" for tool_use and pause_turn, "dangling" *)
(* for every other stop reason, "error" for a non-2xx status or no answer.    *)

(* The terminal event, and what the end reads after it; the writes are to come. *)
Ended(end) ==
  /\ running # Idle
  /\ running' = Idle
  /\ turn' = Answer(running.by, IF end = "open" THEN "tools" ELSE "user")
  /\ forkable' = (forkable \/ end = "closed")
  /\ landed' = IF end = "error" \/ running.match = NoAnchor \/ running.meta = "aborted"
               THEN landed ELSE landed \cup {running.match}
  /\ UNCHANGED <<convo, row, queue, listing, outcome, settled, struck>>

Tell(a, result) == [anchor |-> a, stage |-> "tell", result |-> result]

(* tryEmitForkForked: fork.forked, or fork.synthesis_failed when the asset cannot be built. *)
EmitForkForked(a, revision) ==
  \E built \in BOOLEAN : ending' = Tell(a, IF built THEN revision ELSE Failed)

ThisTurn == [anchor |-> running.match, landing |-> running.match \notin landed]

(* The call was spliced and the rewind has no outcome yet. *)
Owed == running.meta \in {"bare", "deferred"}

AnswerFailed == Ended("error") /\ ending' = Idle

(* Mutant: a deferred fork is announced with the turn that closed. *)
SpliceClosedNow ==
  /\ running # Idle /\ Owed
  /\ EmitForkForked(running.match, ThisTurn)
  /\ Ended("closed")

SpliceClosed ==
  /\ running # Idle /\ Owed
  /\ \/ running.meta = "bare" /\ EmitForkForked(running.match, ThisTurn)
     \/ running.meta = "deferred" /\ \E a \in Deferred : EmitForkForked(running.match, row[a].meta)
     \/ running.meta = "deferred" /\ Deferred = {} /\ ending' = Tell(running.match, Failed)
  /\ Ended("closed")

Defer == [anchor |-> running.match, stage |-> "defer", result |-> ThisTurn]

(* Mutant: every turn of the chain is wrapped again. *)
SpliceOpenAgain ==
  /\ running # Idle /\ Owed
  /\ ending' = Defer
  /\ Ended("open")

SpliceOpen ==
  /\ running # Idle /\ Owed
  /\ ending' = IF running.meta = "bare" THEN Defer ELSE Idle
  /\ Ended("open")

SpliceDangling ==
  /\ running # Idle /\ Owed
  /\ ending' = Tell(running.match, Failed)
  /\ Ended("dangling")

(* Not spliced: an active row may still wait for the end of its chain.  The *)
(* answer to count_tokens has no stop reason.                               *)
OtherEnded(end) ==
  /\ running # Idle /\ ~Owed
  /\ running.meta = "probe" => end = "dangling"
  /\ \/ /\ running.match = NoAnchor
        /\ end # "open"
        /\ \E a \in Deferred :
             IF end = "closed" THEN EmitForkForked(a, row[a].meta) ELSE ending' = Tell(a, Failed)
     \/ /\ running.match # NoAnchor \/ end = "open" \/ Deferred = {}
        /\ ending' = Idle
  /\ Ended(end)

(* setPendingSynthetic *)
TurnDefers ==
  /\ ending # Idle /\ ending.stage = "defer"
  /\ row' = ActiveMeta(ending.result)
  /\ ending' = Idle
  /\ UNCHANGED <<clientVars, queue, running, listing, struck, eventVars>>

TurnTells ==
  /\ ending # Idle /\ ending.stage = "tell"
  /\ Settle(ending.anchor, ending.result)
  /\ ending' = [ending EXCEPT !.stage = "clear"]
  /\ UNCHANGED <<clientVars, row, queue, running, listing, struck, forkable, landed>>

(* clearPendingSynthetic *)
TurnClears ==
  /\ ending # Idle /\ ending.stage = "clear"
  /\ row' = ActiveMeta(NoRevision)
  /\ ending' = Idle
  /\ UNCHANGED <<clientVars, queue, running, listing, struck, eventVars>>

-----------------------------------------------------------------------------
(* A call outside the queue ends on a 2xx without a stop reason: a chain that *)
(* waits is given up, whatever the queue is doing.                            *)

ListingEnds ==
  /\ listing = Idle
  /\ \E a \in Deferred :
       /\ listing' = Tell(a, Failed)
       /\ struck' = IF Free THEN struck ELSE struck \cup {a}
  /\ UNCHANGED <<clientVars, row, queue, running, ending, eventVars>>

ListingTells ==
  /\ listing # Idle /\ listing.stage = "tell"
  /\ Settle(listing.anchor, listing.result)
  /\ listing' = [listing EXCEPT !.stage = "clear"]
  /\ UNCHANGED <<clientVars, row, queue, running, ending, struck, forkable, landed>>

(* It clears every active row, one inserted meanwhile too. *)
ListingClears ==
  /\ listing # Idle /\ listing.stage = "clear"
  /\ row' = ActiveMeta(NoRevision)
  /\ struck' = struck \cup {a \in Active \ {listing.anchor} : row[a].meta # NoRevision}
  /\ listing' = Idle
  /\ UNCHANGED <<clientVars, queue, running, ending, eventVars>>

-----------------------------------------------------------------------------
(* Landed and not on the row, or announced and not cleared: a restart cuts it. *)
Cut == {a \in Anchor : \E e \in {ending, listing} \ {Idle} :
          e.anchor = a /\ (e.stage = "clear" \/ row[a].meta = Bare)}

(* The daemon is stopped and started: calls and ends are lost, rows are not. *)
Restart ==
  /\ Pending > 0 \/ listing # Idle
  /\ queue' = <<>>
  /\ running' = Idle
  /\ ending' = Idle
  /\ listing' = Idle
  /\ struck' = struck \cup Cut
  /\ turn' = [g \in Agent |-> IF turn[g] = "waiting" THEN "user" ELSE turn[g]]
  /\ UNCHANGED <<convo, row, eventVars>>

ClientNext(g) ==
  SendMessages(g) \/ CallTool(g) \/ Interrupt(g) \/ CutBack(g)

ProxyNext ==
  \/ ToolAnswered \/ RewindScheduled \/ Dispatch
  \/ AnswerFailed \/ SpliceClosed \/ SpliceOpen \/ SpliceDangling
  \/ \E end \in {"closed", "open", "dangling"} : OtherEnded(end)
  \/ TurnDefers \/ TurnTells \/ TurnClears

ListingNext == ListingEnds \/ ListingTells \/ ListingClears

Next ==
  \/ \E g \in Agent : ClientNext(g)
  \/ CountTokens \/ ProxyNext \/ ListingNext \/ SessionStartHook \/ Restart

Spec == Init /\ [][Next]_vars

-----------------------------------------------------------------------------
(* Properties. *)

(* getActiveAnchor reads LIMIT 1 and calls the row unique. *)
OneActiveAnchor == \A a, b \in Active : a = b

(* The rewind is accounted for exactly once, unless another end crossed its own or a  *)
(* restart cut it.  While its row is active it has not landed and owes everything, or *)
(* has landed and waits with the landing turn on record, or is settled and cleared,   *)
(* or an end is at it; never is an outcome owed that nobody will emit.                *)
RewindIsAccountedFor ==
  \A a \in Active \ struck :
    \/ a \notin landed /\ row[a].meta = Bare /\ settled[a] = 0
    \/ a \in landed /\ row[a].meta = [anchor |-> a, landing |-> TRUE] /\ settled[a] = 0
    \/ a \in landed /\ row[a].meta = NoRevision /\ settled[a] = 1
    \/ /\ a \in landed
       /\ \E e \in {ending, listing} \ {Idle} :
            e.anchor = a /\ settled[a] = (IF e.stage = "clear" THEN 1 ELSE 0)

(* fork.forked and fork.synthesis_failed: at most one of them per rewind, and the     *)
(* turn a fork is announced with is the first one answered on its own anchor,         *)
(* whatever was released, superseded, interrupted or restarted meanwhile; for every   *)
(* rewind whose end no other end crossed and no restart cut.                          *)
ForkNamesItsLanding ==
  \A a \in Anchor \ struck :
    /\ settled[a] <= 1
    /\ outcome[a] \in Revision => outcome[a] = [anchor |-> a, landing |-> TRUE]

(* At most one announcement, with no exception: false, by a call outside the queue.   *)
AnnouncedOnce == \A a \in Anchor : settled[a] <= 1

(* The state diagram of fork-anchors.ts: an active row whose token is missing from a  *)
(* main body becomes released; no main call is with upstream past an active row it is *)
(* not spliced by.                                                                    *)
MissingAnchorIsReleased ==
  running # Idle /\ running.by = Main =>
    \A a \in Active : running.match = a

(* The refinement: a row's state is the rewind's stage, an announcement counts as     *)
(* forked only if it names the landing, and a rewind that was struck is spoilt.       *)
StageOf(state) == IF state = "absent" THEN "unused"
                  ELSE IF state = "active" THEN "live" ELSE "over"
OutcomeOf(a, o) == IF a \in struck THEN "spoilt"
                   ELSE IF o \in {NoRevision, Failed} THEN o
                   ELSE IF o = [anchor |-> a, landing |-> TRUE] THEN "forked" ELSE "misnamed"

Rewinds == INSTANCE RewindOutcome WITH
  Rewind <- Anchor, NoOutcome <- NoRevision, Forked <- "forked", Failed <- Failed,
  Spoilt <- "spoilt",
  stage <- [a \in Anchor |-> StageOf(row[a].state)],
  landed <- landed,
  outcome <- [a \in Anchor |-> OutcomeOf(a, outcome[a])]

(* Rows, queue, splice, deferral, ends, hooks and restarts implement the abstract     *)
(* rewind: one live at a time, each announced at most once after it landed, a fork    *)
(* always from its landing, until it is spoilt.                                       *)
ImplementsRewindOutcome == Rewinds!RSpec
=============================================================================

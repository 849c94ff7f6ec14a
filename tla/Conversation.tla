---------------------------- MODULE Conversation ----------------------------
(***************************************************************************)
(* What retcon remembers of one conversation, and what its tools make of   *)
(* it: the revisions DAG (revisions-v1.ts), the branch views               *)
(* (branch-views-v1.ts), the departure markers (rewind-marker-v1.ts) and   *)
(* the navigation tools (mcp-tools.ts): recall, rewind_to, bookmark,       *)
(* delete_bookmark, dump_to_file and submit_file.                          *)
(*                                                                         *)
(* One task with one session.  A /v1/messages call and a tool call wait    *)
(* for each other in the SessionQueue, so a call that has been dispatched  *)
(* is answered and sealed before the next begins; /v1/models is not        *)
(* queued.  Module ForkAnchors has the queue, the hook and the anchor rows *)
(* in detail; here is the history the rows point into.                     *)
(*                                                                         *)
(* Time is the order of the events.  A body is the sequence of the turns   *)
(* in it: t stands for the user message of revision t and its answer, -t   *)
(* for the user message alone.  A call's own user message, the last entry  *)
(* of every body, is left out.                                             *)
(***************************************************************************)
EXTENDS Integers, Sequences, FiniteSets

CONSTANTS
  MaxRevisions,  \* bound: rows of the revisions table
  MaxBookmarks,  \* bound: calls of bookmark
  MaxBack,       \* bound: the turn_back_n a tool is called with
  MaxSide,       \* bound: calls the client makes beside its turns
  Habits         \* what may happen in a conversation: the client's side calls,
                 \* the tools the model uses, the user's edits

Side == {"inject", "count_tokens", "models"}
Kind == {"turn", "sr"} \cup Side
Navigation == {"back", "turn", "bookmark", "label", "delete", "dump", "submit"}

ASSUME BoundsAssumption == MaxRevisions \in Nat /\ MaxBookmarks \in Nat
                            /\ MaxBack \in Nat /\ MaxSide \in Nat
ASSUME HabitsAssumption ==
  Habits \subseteq [traffic : SUBSET Side, tools : SUBSET Navigation,
                   edits : SUBSET {"rewind", "clear"}]

VARIABLES
  rev,     \* revisions: row r is the r-th inserted
  now,     \* the clock: events stamped so far
  views,   \* branch_views: view v is the v-th inserted
  anchor,  \* the session's active fork_anchors row
  forks,   \* anchor tokens handed out
  pair,    \* the confirm tokens the session holds, per tool that wants one
  dump,    \* the file dump_to_file wrote last
  local,   \* the client's own conversation: turns, and the token in each
  pend,    \* the token in the tool_result the client is about to send
  phase,   \* the client: the user is "typing", a "tool" runs, it has a "result"
  used,    \* the tools the last answer used: this one's calls, done so far
  call,    \* the queued call in flight
  habit    \* what may happen in this conversation

conversationVars ==
  <<rev, now, views, anchor, forks, pair, dump, local, pend, phase, used, call, habit>>
client == <<local, pend, phase, used>>
toolVars == <<anchor, forks, pair, dump>>

Nil == 0
Row(kind, parent, class, sealed, body, spliced) ==
  [kind |-> kind, parent |-> parent, class |-> class, created |-> now + 1,
   sealed |-> sealed, body |-> body, spliced |-> spliced]
NoAnchorRow == [id |-> Nil, base |-> <<>>, fork |-> Nil, r1 |-> Nil, at |-> 0,
                sr |-> "gone", kind |-> "rewind"]
NoDump == [of |-> Nil, msgs |-> <<>>, fork |-> FALSE]

Rows == DOMAIN rev
Body == Seq(-MaxRevisions .. MaxRevisions)

ConversationTypeOK ==
  /\ \A r \in Rows :
       /\ rev[r].kind \in Kind /\ rev[r].parent \in {Nil} \cup Rows
       /\ rev[r].class \in {"in_flight", "closed_forkable", "open", "dangling_unforkable"}
       /\ rev[r].created \in 1 .. now /\ rev[r].sealed \in 0 .. now
       /\ rev[r].body \in Body /\ rev[r].spliced \in BOOLEAN
  /\ \A v \in DOMAIN views :
       views[v].head \in Rows /\ views[v].origin \in Rows /\ views[v].live \in BOOLEAN
  /\ anchor.fork \in {Nil} \cup Rows /\ anchor.base \in Body /\ anchor.id \in 0 .. forks
  /\ pair \subseteq {"rewind", "submit"}
  /\ dump.of \in {Nil} \cup Rows /\ dump.msgs \in Body
  /\ \A i \in DOMAIN local : local[i].turn \in Rows /\ local[i].tok \in 0 .. forks
  /\ pend \in 0 .. forks /\ phase \in {"typing", "tool", "result"}
  /\ used \subseteq {"rewind", "submit", "other"}
  /\ call \in {Nil} \cup Rows /\ habit \in Habits

ConversationInit ==
  /\ rev = <<>> /\ now = 0 /\ views = <<>>
  /\ anchor = NoAnchorRow /\ forks = 0 /\ pair = {} /\ dump = NoDump
  /\ local = <<>> /\ pend = Nil /\ phase = "typing" /\ used = {} /\ call = Nil
  /\ habit \in Habits

-----------------------------------------------------------------------------
(* Reading the DAG *)

Classify(stop) ==
  CASE stop \in {"end_turn", "stop_sequence"} -> "closed_forkable"
    [] stop \in {"tool_use", "pause_turn"} -> "open"
    [] OTHER -> "dangling_unforkable"

Sealed(r) == rev[r].sealed # 0
Forkable(r) == rev[r].class = "closed_forkable" /\ rev[r].kind # "inject"

(* The member of S with the largest (smallest) stamp; Nil of an empty set. *)
Latest(S, At(_)) ==
  IF S = {} THEN Nil ELSE CHOOSE r \in S : \A s \in S : At(s) <= At(r)
Earliest(S, At(_)) ==
  IF S = {} THEN Nil ELSE CHOOSE r \in S : \A s \in S : At(r) <= At(s)
SealedAt(r) == rev[r].sealed
CreatedAt(r) == rev[r].created

MostRecentRevision == Latest(Rows, CreatedAt)
MostRecentForkableRevision == Latest({r \in Rows : Forkable(r) /\ Sealed(r)}, SealedAt)

(* r, its parent, its parent's parent, ... and Nil once the chain has ended. *)
Chain(r) ==
  LET c[k \in 0 .. Len(rev)] ==
        IF k = 0 THEN r ELSE IF c[k - 1] = Nil THEN Nil ELSE rev[c[k - 1]].parent
  IN  c

(* The first settled revision, injections apart, from the newest on back. *)
EffectiveHead ==
  LET c == Chain(MostRecentRevision)
      settled == {k \in 0 .. Len(rev) :
                    /\ c[k] # Nil
                    /\ rev[c[k]].class \notin {"open", "in_flight"}
                    /\ rev[c[k]].class = "closed_forkable" => rev[c[k]].kind # "inject"}
  IN  IF settled = {} THEN Nil
      ELSE c[CHOOSE k \in settled : \A j \in settled : k <= j]

NthForkableBack(start, n) ==
  LET c == Chain(start)
      back == {k \in 1 .. Len(rev) : c[k] # Nil /\ Forkable(c[k])}
      nth == {k \in back : Cardinality({j \in back : j <= k}) = n}
  IN  IF nth = {} THEN Nil ELSE c[CHOOSE k \in nth : TRUE]

(* The earliest child that is no injection; failing that, what lies behind  *)
(* the earliest injection; failing that, the injection.                     *)
FirstChild(target) ==
  LET Children(r) == {c \in Rows : rev[c].parent = r}
      Plain(r) == {c \in Children(r) : rev[c].kind # "inject"}
      Probe(r) == Earliest(Children(r) \ Plain(r), CreatedAt)
      walk[d \in 0 .. Len(rev)] == [r \in Rows |->
        IF Plain(r) # {} THEN Earliest(Plain(r), CreatedAt)
        ELSE IF Probe(r) = Nil \/ d = 0 THEN Probe(r)
        ELSE IF walk[d - 1][Probe(r)] = Nil THEN Probe(r)
        ELSE walk[d - 1][Probe(r)]]
  IN  walk[Len(rev)][target]

(* Markers have no request; a /v1/models request has no messages. *)
HasMessages(r) == r # Nil /\ rev[r].kind \notin {"sr", "models"}

(* The messages up to the target's answer: the first child's body without   *)
(* the child's own user message, or the target's body, without its answer.  *)
NoMessages == <<Nil>>
ReconstructWithTheLast(target) ==
  IF HasMessages(FirstChild(target))
  THEN Append(rev[FirstChild(target)].body, -FirstChild(target))
  ELSE IF HasMessages(target) THEN Append(rev[target].body, -target) ELSE NoMessages
ReconstructForkMessages(target) ==
  IF HasMessages(FirstChild(target)) THEN rev[FirstChild(target)].body
  ELSE IF HasMessages(target) THEN Append(rev[target].body, -target) ELSE NoMessages

(* recall's list: the closed turns of the task but the head, newest first.  *)
RecallList ==
  {r \in Rows : rev[r].class = "closed_forkable" /\ r # MostRecentForkableRevision}

-----------------------------------------------------------------------------
(* Projectors *)

(* A branch view follows the recorded child of its head. *)
ViewsFollowTheTask(v, r, parent) ==
  [i \in DOMAIN v |-> IF parent # Nil THEN [v[i] EXCEPT !.head = r] ELSE v[i]]
OnResponseCompleted(v, r, parent) ==
  [i \in DOMAIN v |-> IF parent # Nil /\ v[i].head = parent
                      THEN [v[i] EXCEPT !.head = r] ELSE v[i]]

ResolveParentNewest(r) == Latest({p \in Rows : Sealed(p)}, SealedAt)
ResolveParentAtSealTime(r) ==
  Latest({p \in Rows : Sealed(p) /\ rev[p].sealed <= rev[r].created}, SealedAt)
ParentOf(r) ==
  IF rev[r].parent # Nil THEN rev[r].parent ELSE ResolveParentAtSealTime(r)

Seal(r, class) ==
  [rev EXCEPT ![r] = [@ EXCEPT !.parent = ParentOf(r), !.class = class, !.sealed = now + 1]]

OnForkForked(v) ==
  Append(v, [head |-> anchor.fork, origin |-> anchor.fork, label |-> "null",
             bookmark |-> FALSE, live |-> TRUE])
Marker == [Row("sr", anchor.r1, "closed_forkable", anchor.at, <<>>, FALSE)
             EXCEPT !.created = now + 2]

-----------------------------------------------------------------------------
(* The proxy *)

(* The token the client's body carries last: the one it splices at. *)
LastToken ==
  LET at == {i \in DOMAIN local : local[i].tok # Nil}
  IN  IF pend # Nil THEN pend
      ELSE IF at = {} THEN Nil
      ELSE local[CHOOSE i \in at : \A j \in at : j <= i].tok

Turns(s) == [i \in DOMAIN s |-> s[i].turn]
AfterAnchor ==
  LET at == {i \in DOMAIN local : local[i].tok = anchor.id}
  IN  IF at = {} THEN <<>>
      ELSE Turns(SubSeq(local, CHOOSE i \in at : \A j \in at : j <= i, Len(local)))

Matches == anchor.id # Nil /\ LastToken = anchor.id
Diverged == anchor.id # Nil /\ LastToken = Nil
Aborted == Matches /\ anchor.sr = "bare" /\ used \ {anchor.kind} # {}

(* proxy.request_received: the row is in flight; a spliced one has its parent. *)
RequestReceived(kind) ==
  LET splice == kind # "count_tokens" /\ Matches /\ ~Aborted
  IN  /\ rev' = Append(rev,
           IF splice THEN Row(kind, anchor.fork, "in_flight", 0,
                              anchor.base \o AfterAnchor, TRUE)
           ELSE Row(kind, Nil, "in_flight", 0,
                    IF kind = "count_tokens" THEN <<>> ELSE Turns(local), FALSE))
      /\ now' = now + 1
      /\ anchor' = IF kind # "count_tokens" /\ (Diverged \/ Aborted)
                   THEN NoAnchorRow ELSE anchor

(* Room for a call and, after a rewind, for its marker. *)
Room == Len(rev) + (IF anchor.sr = "gone" THEN 0 ELSE 1) < MaxRevisions

SideRoom == Cardinality({r \in Rows : rev[r].kind \in Side}) < MaxSide

(* The client sends its next turn, a probe that is not part of the          *)
(* conversation, or a pseudo-prompt with the conversation in front.         *)
SendMessages(kind) ==
  /\ call = Nil /\ Room
  /\ phase = "tool" => kind = "turn" /\ used # {}
  /\ kind = "turn" \/ (kind \in habit.traffic \ {"models"} /\ SideRoom)
  /\ kind = "inject" => phase = "typing" /\ local # <<>>
  /\ RequestReceived(kind)
  /\ call' = Len(rev) + 1
  /\ phase' = IF phase = "tool" THEN "result" ELSE phase
  /\ UNCHANGED <<views, forks, pair, dump, local, pend, used, habit>>

(* fork.forked, once the branch's first chain has closed; else deferred. *)
Departs(r, class) ==
  class = "closed_forkable" /\ anchor.sr # "gone"
    /\ (rev[r].spliced \/ anchor.sr = "deferred")
MarkerAfter(r, class) ==
  IF anchor.sr = "gone" \/ (anchor.sr = "bare" /\ ~rev[r].spliced) THEN anchor.sr
  ELSE IF class = "open" THEN "deferred" ELSE "gone"

(* A 2xx answer: proxy.response_completed, then the departure's fate. *)
Complete(r, class) ==
  /\ IF Departs(r, class)
     THEN /\ rev' = Append(Seal(r, class), Marker)
          /\ views' = OnForkForked(OnResponseCompleted(views, r, ParentOf(r)))
          /\ now' = now + 2
     ELSE /\ rev' = Seal(r, class)
          /\ views' = OnResponseCompleted(views, r, ParentOf(r))
          /\ now' = now + 1
  /\ anchor' = [anchor EXCEPT !.sr = MarkerAfter(r, class)]

Answered(stop) ==
  /\ call # Nil
  /\ rev[call].kind = "turn" \/ stop = "end_turn"
  /\ Complete(call, IF rev[call].kind = "count_tokens" THEN Classify("null")
                    ELSE Classify(stop))
  /\ call' = Nil
  /\ IF rev[call].kind = "turn"
     THEN /\ local' = Append(local, [turn |-> call, tok |-> pend])
          /\ pend' = Nil
          /\ phase' = IF stop = "tool_use" THEN "tool" ELSE "typing"
          /\ used' = {}
     ELSE UNCHANGED client
  /\ UNCHANGED <<forks, pair, dump, habit>>

(* An answer that is no 2xx is completed as well, without a stop reason; a  *)
(* broken connection is not.  The client will send the turn again.          *)
Refused ==
  /\ call # Nil
  /\ rev' = Seal(call, "dangling_unforkable")
  /\ views' = OnResponseCompleted(views, call, ParentOf(call))
  /\ now' = now + 1 /\ call' = Nil
  /\ UNCHANGED <<toolVars, client, habit>>

MarkDangling ==
  /\ call # Nil
  /\ rev' = Seal(call, "dangling_unforkable")
  /\ now' = now + 1 /\ call' = Nil
  /\ UNCHANGED <<views, toolVars, client, habit>>

(* /v1/models is not queued: it may begin and end while another call is out. *)
AskModels ==
  /\ "models" \in habit.traffic /\ Room /\ SideRoom
  /\ rev' = Append(rev, Row("models", Nil, "in_flight", 0, <<>>, FALSE))
  /\ now' = now + 1
  /\ UNCHANGED <<views, toolVars, client, call, habit>>

ModelsAnswered ==
  \E r \in Rows :
    /\ rev[r].kind = "models" /\ ~Sealed(r)
    /\ Complete(r, Classify("null"))
    /\ UNCHANGED <<forks, pair, dump, client, call, habit>>

-----------------------------------------------------------------------------
(* The tools *)

(* An answer may use several tools, here at most one of each name; its      *)
(* calls were written before any of them was answered, so a token is good   *)
(* from the next turn on.                                                   *)
ToolUse(name) ==
  /\ phase = "tool" /\ call = Nil /\ name \notin used
  /\ used' = used \cup {name}
  /\ UNCHANGED <<rev, local, phase, call, habit>>

OtherTool ==
  /\ ToolUse("other")
  /\ UNCHANGED <<now, views, toolVars, pend>>

(* No token, an expired one, a self-flagged message or one the pattern       *)
(* stopped: the answer is the rules and a fresh pair.                        *)
ReturnRules(tool) ==
  /\ ToolUse(tool)
  /\ pair' = pair \cup {tool}
  /\ UNCHANGED <<now, views, anchor, forks, dump, pend>>

Confirmed(tool) ==
  /\ ToolUse(tool)
  /\ tool \in pair /\ pair' = pair \ {tool}

InsertActiveAnchor(kind, base, fork) ==
  /\ forks' = forks + 1 /\ pend' = forks + 1
  /\ anchor' = [id |-> forks + 1, base |-> base, fork |-> fork,
                r1 |-> MostRecentRevision, at |-> now + 1, sr |-> "bare", kind |-> kind]
  /\ now' = now + 1

(* What a tool's turn_back_n or turn_id names; Nil if it is refused. *)
Target(n) == IF EffectiveHead = Nil THEN Nil ELSE NthForkableBack(EffectiveHead, n)
Named(t) == IF rev[t].class = "closed_forkable" THEN t ELSE Nil

(* The pair is spent, also when no target is found or the history is too    *)
(* large to splice.                                                         *)
RewindTo(target) ==
  LET base == IF target = Nil THEN NoMessages ELSE ReconstructForkMessages(target)
  IN  /\ Confirmed("rewind")
      /\ \/ base # NoMessages /\ InsertActiveAnchor("rewind", base, target)
         \/ UNCHANGED <<anchor, forks, pend, now>>
      /\ UNCHANGED <<views, dump>>

RewindBack == "back" \in habit.tools /\ \E n \in 1 .. MaxBack : RewindTo(Target(n))
RewindToTurn ==
  /\ "turn" \in habit.tools
  /\ \E t \in RecallList \cup {views[v].head : v \in DOMAIN views} : RewindTo(Named(t))

Bookmark(label) ==
  /\ ToolUse("other") /\ MostRecentForkableRevision # Nil
  /\ Cardinality({v \in DOMAIN views : views[v].bookmark}) < MaxBookmarks
  /\ views' = Append(views, [head |-> MostRecentForkableRevision,
                             origin |-> MostRecentForkableRevision,
                             label |-> label, bookmark |-> TRUE, live |-> TRUE])
  /\ UNCHANGED <<now, toolVars, pend>>

(* Only a label that names one view deletes it. *)
DeleteBookmark(label) ==
  LET named == {v \in DOMAIN views : views[v].live /\ views[v].label = label}
  IN  /\ ToolUse("other")
      /\ Cardinality(named) = 1
      /\ views' = [v \in DOMAIN views |-> IF v \in named
                     THEN [views[v] EXCEPT !.live = FALSE] ELSE views[v]]
      /\ UNCHANGED <<now, toolVars, pend>>

(* Without arguments: the fork's own messages if the head is on a fork,      *)
(* else one turn back.  A dump ends with an answer or is refused.            *)
DumpTarget ==
  IF anchor.id # Nil THEN MostRecentForkableRevision ELSE Target(1)
UpToAnswer(s) ==
  LET ends == {i \in DOMAIN s : s[i] > 0}
  IN  IF ends = {} THEN <<>>
      ELSE SubSeq(s, 1, CHOOSE i \in ends : \A j \in ends : j <= i)
FromFork(target) ==
  anchor.id # Nil /\ target = MostRecentForkableRevision /\ UpToAnswer(anchor.base) # <<>>
DumpOf(target) ==
  IF FromFork(target) THEN UpToAnswer(anchor.base) ELSE ReconstructForkMessages(target)

DumpToFile(target) ==
  /\ ToolUse("other") /\ target # Nil
  /\ LET msgs == DumpOf(target)
     IN  /\ msgs # <<>> /\ msgs[Len(msgs)] > 0
         /\ dump' = [of |-> target, msgs |-> msgs, fork |-> FromFork(target)]
  /\ UNCHANGED <<now, views, anchor, forks, pair, pend>>

(* The dumped file as it is, or an edited one that is refused after the     *)
(* pair has been spent, as every file is while there is no turn to fork at. *)
SubmitFile ==
  /\ Confirmed("submit") /\ dump # NoDump
  /\ \/ /\ MostRecentForkableRevision # Nil
        /\ InsertActiveAnchor("submit", dump.msgs, MostRecentForkableRevision)
     \/ UNCHANGED <<anchor, forks, pend, now>>
  /\ UNCHANGED <<views, dump>>

ToolCall ==
  \/ OtherTool
  \/ {"back", "turn"} \cap habit.tools # {} /\ ReturnRules("rewind")
  \/ "submit" \in habit.tools /\ ReturnRules("submit")
  \/ RewindBack
  \/ RewindToTurn
  \/ "bookmark" \in habit.tools /\ Bookmark("null")
  \/ "label" \in habit.tools /\ Bookmark("L")
  \/ "delete" \in habit.tools /\ DeleteBookmark("L")
  \/ "dump" \in habit.tools /\ \E t \in {DumpTarget} \cup {Named(r) : r \in RecallList} : DumpToFile(t)
  \/ SubmitFile

-----------------------------------------------------------------------------
(* The user cuts the local conversation back, or clears it. *)
CutBack ==
  /\ "rewind" \in habit.edits /\ phase = "typing" /\ call = Nil
  /\ \E n \in 0 .. Len(local) - 1 : local' = SubSeq(local, 1, n)
  /\ UNCHANGED <<rev, now, views, toolVars, pend, phase, used, call, habit>>

(* The SessionStart hook of /clear releases the active anchor. *)
Clear ==
  /\ "clear" \in habit.edits /\ phase = "typing" /\ call = Nil /\ local # <<>>
  /\ local' = <<>> /\ anchor' = NoAnchorRow
  /\ UNCHANGED <<rev, now, views, forks, pair, dump, pend, phase, used, call, habit>>

ConversationNext ==
  \/ \E kind \in Kind : SendMessages(kind)
  \/ \E stop \in {"end_turn", "tool_use", "max_tokens"} : Answered(stop)
  \/ Refused
  \/ MarkDangling
  \/ AskModels
  \/ ModelsAnswered
  \/ ToolCall
  \/ CutBack
  \/ Clear

ConversationSpec == ConversationInit /\ [][ConversationNext]_conversationVars

-----------------------------------------------------------------------------
(* Safety *)

(* Every chain of parents leads back in time: a call's parent was sealed    *)
(* before the call began, a marker's before the rewind was asked for, even  *)
(* when that was a /v1/models call still out.  So chains end, and the       *)
(* "cycle-safe" walks of mcp-tools.ts never meet their guards.              *)
ChainsGoBack ==
  /\ ConversationTypeOK
  /\ \A r \in Rows : rev[r].parent # Nil =>
       LET p == rev[r].parent
       IN  IF rev[r].kind = "sr" THEN CreatedAt(p) < SealedAt(r)
           ELSE Sealed(p) /\ SealedAt(p) <= CreatedAt(r)

(* The history that a rewind, or a dump of other than the head of a fork,   *)
(* is built from holds no turn that was sealed after the turn it is for:    *)
(* "the rolled-back user input" never comes back (mcp-tools.ts,             *)
(* reconstructForkMessages), whatever children, probes, edits and earlier   *)
(* forks it was pieced together from, and injections as far as a call after *)
(* them repeats them (RetconProofs, InjectionsInSight).                     *)
Abs(e) == IF e < 0 THEN -e ELSE e
UpTo(msgs, target) ==
  \A i \in DOMAIN msgs : Sealed(Abs(msgs[i])) /\ SealedAt(Abs(msgs[i])) <= SealedAt(target)
NothingRolledBackReturns ==
  /\ anchor.id # Nil /\ anchor.kind = "rewind" => UpTo(anchor.base, anchor.fork)
  /\ dump # NoDump /\ ~dump.fork => UpTo(dump.msgs, dump.of)

(* A branch view only grows from the turn it was put on: whoever goes back  *)
(* from its head, from parent to parent, comes to that turn (every set of    *)
(* rows with the head in it and the parents of its rows has that turn in     *)
(* it).  Rewinds, markers and probes never carry a view to another line.     *)
ParentClosed(S) == \A r \in S : rev[r].parent \in {Nil} \cup S
BookmarksGrowFromTheirSpot ==
  \A v \in DOMAIN views : \A S \in SUBSET Rows :
    views[v].head \in S /\ ParentClosed(S) => views[v].origin \in S

(* "Reconstruct the messages[] array AT (i.e. up to and including) a fork   *)
(* point's assistant response", or, as the fallback, the target's own body. *)
RewindKeepsHistory ==
  anchor.id # Nil /\ anchor.kind = "rewind" =>
    anchor.base \in {Append(rev[anchor.fork].body, anchor.fork),
                     Append(rev[anchor.fork].body, -anchor.fork)}

(* "Behaves like a git branch (not a tag): the head auto-advances as new    *)
(* turns close, until you fork" (the description of bookmark).              *)
BookmarkTracksTheHead ==
  forks = 0 /\ phase = "typing" /\ call = Nil /\ local # <<>>
    /\ rev[local[Len(local)].turn].class = "closed_forkable" =>
      \A v \in DOMAIN views : views[v].head = local[Len(local)].turn

=============================================================================

--------------------------- MODULE SessionBinding ---------------------------
(***************************************************************************)
(* Whose session a call belongs to (cli/run.ts, actor-register.ts,         *)
(* mcp-handler.ts, sessions-v1.ts, hook-handler.ts, binding-table.ts).     *)
(*                                                                         *)
(* A launch of the agent marks its traffic with a transport id.  The agent *)
(* has a conversation id, which retcon learns from a SessionStart hook: it *)
(* is the transport id for a new conversation, another one after --resume  *)
(* and after each /clear.  The hook binds the transport id in memory and   *)
(* re-keys the rows that were recorded under it.  Calls resolve their id   *)
(* on arrival, and record it once their body has been read and the queue   *)
(* has let them in.                                                        *)
(***************************************************************************)
EXTENDS Integers, Sequences

CONSTANTS
  Transports,     \* one per launch
  Conversations,  \* conversation ids that are no transport id
  Earlier,        \* those that retcon never saw, from runs without it
  Actors,         \* actors somebody names
  None,           \* no id, no revision
  MaxRevisions,   \* bound: calls recorded
  Faults          \* what else may happen: "restart", "hook_lost", "overtaken", "return"

Id == Transports \cup Conversations
Actor == {"default"} \cup Actors

ASSUME IdsAssumption ==
  /\ None \notin Transports \cup Conversations \cup Nat
  /\ Transports \cap Conversations = {} /\ Earlier \subseteq Conversations
ASSUME ActorsAssumption == {"default", "none"} \cap Actors = {}
ASSUME BoundsAssumption == MaxRevisions \in Nat /\ Faults \subseteq {"restart", "hook_lost", "overtaken", "return"}

VARIABLES
  launch,     \* each launch: its claude's conversation, and the hook that is due
  known,      \* conversations the agent can resume
  bind,       \* bindingTable: transport id -> session id
  pending,    \* pending_actors, by id
  sess,       \* sessions, by id
  tasks,      \* tasks; a task is named by the id it was minted for
  rev,        \* revisions
  anchors,    \* active fork_anchors rows, by session id
  call,       \* each launch's call: the id it resolved to, its revision
  now,        \* the clock: events stamped so far
  disturbed   \* a fault has happened

vars == <<launch, known, bind, pending, sess, tasks, rev, anchors, call, now, disturbed>>
store == <<pending, sess, tasks, rev, anchors>>

NoSession == [task |-> None, harness |-> "none", actor |-> "default"]
NoCall == [id |-> None, rev |-> None]
Off == [on |-> FALSE, conv |-> None, hook |-> "none"]
Revs == DOMAIN rev
HasSession(id) == sess[id] # NoSession
Strikes(fault) == fault \in Faults /\ ~disturbed   \* bound: one fault

TypeOK ==
  /\ launch \in [Transports -> [on : BOOLEAN, conv : {None} \cup Id,
                                 hook : {"none", "resume", "clear", "compact"}]]
  /\ known \subseteq Id
  /\ bind \in [Transports -> Id]
  /\ pending \in [Id -> {"none"} \cup Actor]
  /\ sess \in [Id -> [task : {None} \cup Id, harness : {"none", "orphan", "mcp"}, actor : Actor]]
  /\ tasks \subseteq Id
  /\ \A r \in Revs :
       /\ rev[r].task \in Id /\ rev[r].parent \in {None} \cup Revs /\ rev[r].actor \in Actor
       /\ rev[r].created \in 1 .. now /\ rev[r].sealed \in 0 .. now
       /\ rev[r].forkable \in BOOLEAN
  /\ anchors \in [Id -> Nat]
  /\ call \in [Transports -> [id : {None} \cup Id, rev : {None} \cup Revs]]
  /\ disturbed \in BOOLEAN

Init ==
  /\ launch = [t \in Transports |-> Off]
  /\ known = Earlier /\ bind = [t \in Transports |-> t]
  /\ pending = [i \in Id |-> "none"] /\ sess = [i \in Id |-> NoSession]
  /\ tasks = {} /\ rev = <<>> /\ anchors = [i \in Id |-> 0]
  /\ call = [t \in Transports |-> NoCall] /\ now = 0 /\ disturbed = FALSE

-----------------------------------------------------------------------------
(* Launches *)

(* pickTransportId: an id that no launch had before.                        *)
Fresh(t) == ~launch[t].on /\ launch[t].conv = None

(* /actor/register: kept in a table until the session's first row is made.  *)
RegisterActor(id, actor) == pending' = [pending EXCEPT ![id] = actor]

(* A new conversation registers its actor; a resumed one only if the user   *)
(* names one.  The picker offers any conversation that nobody is in.  The   *)
(* startup hook of a new one echoes the transport id and changes nothing.   *)
LaunchNew(t) ==
  /\ Fresh(t)
  /\ \E a \in Actor : RegisterActor(t, a)
  /\ launch' = [launch EXCEPT ![t] = [on |-> TRUE, conv |-> t, hook |-> "none"]]
  /\ known' = known \cup {t}
  /\ UNCHANGED <<bind, sess, tasks, rev, anchors, call, now, disturbed>>

(* "return": the conversation an earlier launch began with and then cleared. *)
Resumable(c) ==
  /\ c \in known
  /\ \A t \in Transports : launch[t].on => launch[t].conv # c
  /\ (c \in Transports => launch[c].conv = c) \/ "return" \in Faults
LaunchResume(t) ==
  /\ Fresh(t)
  /\ \E c \in Id \ {t} :
       /\ Resumable(c)
       /\ launch' = [launch EXCEPT ![t] = [on |-> TRUE, conv |-> c, hook |-> "resume"]]
  /\ UNCHANGED pending \/ \E a \in Actor : RegisterActor(t, a)
  /\ UNCHANGED <<known, bind, sess, tasks, rev, anchors, call, now, disturbed>>

Quit(t) ==
  /\ launch[t].on /\ call[t] = NoCall
  /\ launch' = [launch EXCEPT ![t].on = FALSE, ![t].hook = "none"]
  /\ UNCHANGED <<known, bind, store, call, now, disturbed>>

(* /clear begins a conversation of its own; /compact keeps the old one,     *)
(* and matters to retcon when a fork is active.                             *)
NewConversation(t) ==
  /\ launch[t].on /\ launch[t].hook = "none" /\ call[t] = NoCall
  /\ \/ \E c \in Conversations \ known :
          /\ launch' = [launch EXCEPT ![t].conv = c, ![t].hook = "clear"]
          /\ known' = known \cup {c}
     \/ /\ anchors[launch[t].conv] > 0
        /\ launch' = [launch EXCEPT ![t].hook = "compact"]
        /\ UNCHANGED known
  /\ UNCHANGED <<bind, store, call, now, disturbed>>

-----------------------------------------------------------------------------
(* sessions-v1.ts *)

TaskOf(id) == IF HasSession(id) THEN sess[id].task ELSE id
PendingActor(id) == IF pending[id] = "none" THEN "default" ELSE pending[id]
TakePendingActor(id) == pending' = [pending EXCEPT ![id] = "none"]

(* Upgrades an orphan and an actor that is only the default.                *)
OverwriteActor(old, new) == new
UpgradeActor(old, new) == IF old = "default" THEN new ELSE old
OnMcpInitialized(id) ==
  /\ sess' = [sess EXCEPT ![id] =
       IF HasSession(id)
       THEN [task |-> sess[id].task, harness |-> "mcp",
             actor |-> UpgradeActor(sess[id].actor, PendingActor(id))]
       ELSE [task |-> TaskOf(id), harness |-> "mcp", actor |-> PendingActor(id)]]
  /\ TakePendingActor(id)
  /\ tasks' = tasks \cup {TaskOf(id)}

OnOrphanFallback(id) ==
  IF HasSession(id) THEN UNCHANGED <<sess, pending, tasks>>
  ELSE /\ sess' = [sess EXCEPT ![id] =
            [task |-> TaskOf(id), harness |-> "orphan", actor |-> PendingActor(id)]]
       /\ TakePendingActor(id)
       /\ tasks' = tasks \cup {TaskOf(id)}

(* initialize, on start and whenever the client reconnects                  *)
Initialize(t) ==
  /\ launch[t].on
  /\ OnMcpInitialized(bind[t])
  /\ UNCHANGED <<known, launch, bind, rev, anchors, call, now, disturbed>>

(* The id is resolved before the body is read and the queue waited for.     *)
(* "overtaken": a hook comes later than the first call after a /clear, or   *)
(* between the two halves of a call.                                        *)
Take(t) ==
  /\ launch[t].on /\ call[t] = NoCall /\ Len(rev) < MaxRevisions
  /\ launch[t].hook = "clear" => Strikes("overtaken")
  /\ disturbed' = (disturbed \/ launch[t].hook = "clear")
  /\ call' = [call EXCEPT ![t].id = bind[t]]
  /\ UNCHANGED <<known, launch, bind, store, now>>

Record(t) ==
  LET id == call[t].id
  IN  /\ id # None /\ call[t].rev = None /\ Len(rev) < MaxRevisions
      /\ id # bind[t] => "overtaken" \in Faults
      /\ disturbed' = (disturbed \/ id # bind[t])
      /\ OnOrphanFallback(id)
      /\ rev' = Append(rev, [task |-> TaskOf(id), parent |-> None, actor |-> sess'[id].actor,
                             created |-> now + 1, sealed |-> 0, forkable |-> FALSE])
      /\ call' = [call EXCEPT ![t].rev = Len(rev) + 1]
      /\ now' = now + 1
      /\ UNCHANGED <<known, launch, bind, anchors>>

Last(S) == CHOOSE r \in S : \A s \in S : rev[s].sealed <= rev[r].sealed
ResolveParent(r) ==
  LET before == {p \in Revs : /\ rev[p].task = rev[r].task
                              /\ rev[p].sealed # 0 /\ rev[p].sealed <= rev[r].created}
  IN  IF rev[r].parent # None THEN rev[r].parent
      ELSE IF before = {} THEN None ELSE Last(before)
SealCall(t) ==
  LET r == call[t].rev
  IN  /\ r # None
      /\ \E forkable \in BOOLEAN :
           rev' = [rev EXCEPT ![r].sealed = now + 1, ![r].forkable = forkable,
                              ![r].parent = ResolveParent(r)]
      /\ now' = now + 1
      /\ call' = [call EXCEPT ![t] = NoCall]
      /\ UNCHANGED <<known, launch, bind, pending, sess, tasks, anchors, disturbed>>

(* rewind_to: no orphans, a closed turn, one active row per session.        *)
Rewind(t) ==
  /\ launch[t].on /\ call[t] = NoCall
  /\ HasSession(bind[t]) /\ sess[bind[t]].harness # "orphan"
  /\ \E r \in Revs : rev[r].task = sess[bind[t]].task /\ rev[r].forkable
  /\ anchors[bind[t]] = 0
  /\ anchors' = [anchors EXCEPT ![bind[t]] = 1]
  /\ UNCHANGED <<known, launch, bind, pending, sess, tasks, rev, call, now, disturbed>>

-----------------------------------------------------------------------------
(* binding-table.ts: rebindSession, one transaction *)

Requested(t) == IF pending[t] = "none" THEN sess[t].actor ELSE pending[t]
NoConflict(t, s) == FALSE
ActorConflict(t, s) ==
  /\ HasSession(s) /\ sess[s].actor # "default"
  /\ \/ HasSession(t) /\ Requested(t) \notin {"default", sess[s].actor}
     \/ ~HasSession(t) /\ pending[t] \notin {"none", sess[s].actor}

(* No rows under the transport id yet: only the registered actor moves.     *)
MovePending(t, s) ==
  /\ ~HasSession(t)
  /\ IF pending[t] = "none" \/ ~HasSession(s) THEN UNCHANGED sess
     ELSE sess' = [sess EXCEPT ![s].actor = UpgradeActor(@, pending[t])]
  /\ pending' = [pending EXCEPT ![t] = "none",
                   ![s] = IF pending[t] # "none" /\ ~HasSession(s) THEN pending[t] ELSE @]
  /\ UNCHANGED <<tasks, rev>>

Promote(t, s) ==
  /\ HasSession(t) /\ ~HasSession(s)
  /\ sess' = [sess EXCEPT ![s] = sess[t], ![t] = NoSession]
  /\ pending' = [pending EXCEPT ![t] = "none"]
  /\ UNCHANGED <<tasks, rev>>

(* The resumed session's last closed turn becomes the parent of the first   *)
(* root recorded under the transport id; then everything moves over.        *)
Moved(old, new) == [r \in Revs |-> IF rev[r].task = old THEN [rev[r] EXCEPT !.task = new] ELSE rev[r]]
UnlinkedJoin(old, new) == Moved(old, new)
Joined(old, new) ==
  LET tails == {r \in Revs : rev[r].task = new /\ rev[r].forkable}
      roots == {r \in Revs : rev[r].task = old /\ rev[r].parent = None}
      first == CHOOSE r \in roots : \A s \in roots : rev[r].created <= rev[s].created
  IN  IF tails = {} \/ roots = {} THEN Moved(old, new)
      ELSE [Moved(old, new) EXCEPT ![first].parent = Last(tails)]

MergeKeepsRow(t, s) ==
  /\ HasSession(t) /\ HasSession(s)
  /\ sess' = [sess EXCEPT ![s].actor = UpgradeActor(@, Requested(t))]
  /\ rev' = Joined(sess[t].task, sess[s].task) /\ tasks' = tasks \ {sess[t].task}
  /\ pending' = [pending EXCEPT ![t] = "none"]
Merge(t, s) ==
  /\ HasSession(t) /\ HasSession(s)
  /\ sess' = [sess EXCEPT ![s].actor = UpgradeActor(@, Requested(t)), ![t] = NoSession]
  /\ IF sess[t].task = sess[s].task THEN UNCHANGED <<rev, tasks>>
     ELSE /\ rev' = Joined(sess[t].task, sess[s].task)
          /\ tasks' = tasks \ {sess[t].task}
  /\ pending' = [pending EXCEPT ![t] = "none"]

RebindSession(t, s) == MovePending(t, s) \/ Promote(t, s) \/ Merge(t, s)
Rekeyed(t, s) ==
  IF HasSession(t) THEN [anchors EXCEPT ![s] = @ + anchors[t], ![t] = 0] ELSE anchors

-----------------------------------------------------------------------------
(* handleSessionStartHook: bind, then re-key or roll back, then release.    *)
Released(rows, s, source) ==
  IF source \in {"clear", "compact"} THEN [rows EXCEPT ![s] = 0] ELSE rows
HookDone(t) == launch' = [launch EXCEPT ![t].hook = "none"]

(* BindingTable.set ignores an id bound to itself.                          *)
HookSame(t) ==
  /\ launch[t].hook # "none" /\ launch[t].conv = t
  /\ anchors' = Released(anchors, t, launch[t].hook)
  /\ HookDone(t)
  /\ UNCHANGED <<known, bind, pending, sess, tasks, rev, call, now, disturbed>>

HookConflict(t) ==
  LET s == launch[t].conv
  IN  /\ launch[t].hook # "none" /\ s # t /\ ActorConflict(t, s)
      /\ bind' = [bind EXCEPT ![t] = t]
      /\ HookDone(t)
      /\ UNCHANGED <<known, store, call, now, disturbed>>

HookRebinds(t) ==
  LET s == launch[t].conv
  IN  /\ launch[t].hook # "none" /\ s # t /\ ~ActorConflict(t, s)
      /\ bind' = [bind EXCEPT ![t] = s]
      /\ RebindSession(t, s)
      /\ anchors' = Released(Rekeyed(t, s), s, launch[t].hook)
      /\ HookDone(t)
      /\ UNCHANGED <<known, call, now, disturbed>>

(* The command hook ignores a failed post; the daemon keeps its bindings in *)
(* memory only.                                                             *)
HookLost(t) ==
  /\ Strikes("hook_lost") /\ launch[t].hook # "none"
  /\ HookDone(t) /\ disturbed' = TRUE
  /\ UNCHANGED <<known, bind, store, call, now>>

Restart ==
  /\ Strikes("restart")
  /\ \E t \in Transports : bind[t] # t
  /\ bind' = [t \in Transports |-> t]
  /\ call' = [t \in Transports |-> NoCall]
  /\ disturbed' = TRUE
  /\ UNCHANGED <<known, launch, store, now>>

Launched(t) == LaunchNew(t) \/ LaunchResume(t) \/ Quit(t) \/ NewConversation(t)
Called(t) == Initialize(t) \/ Take(t) \/ Record(t) \/ SealCall(t) \/ Rewind(t)
Hooked(t) == HookSame(t) \/ HookConflict(t) \/ HookRebinds(t) \/ HookLost(t)
Next == Restart \/ \E t \in Transports : Launched(t) \/ Called(t) \/ Hooked(t)
Spec == Init /\ [][Next]_vars

-----------------------------------------------------------------------------
(* An actor somebody chose stays on its session row, through every upgrade, *)
(* promotion and merge: upgrades of 'default' only (sessions-v1.ts,         *)
(* binding-table.ts).                                                       *)
ActorSticks ==
  [][\A i \in Id : HasSession(i) /\ sess[i].actor # "default" /\ HasSession(i)'
                     => sess'[i].actor = sess[i].actor]_vars

(* A clean of one actor's sessions never takes another's calls: no call     *)
(* recorded for an actor somebody named lies in the task of a session with  *)
(* another named one, across resumes, /clear and refused bindings.          *)
CleanTakesOnlyItsOwn ==
  ~disturbed => \A i \in Id : HasSession(i) =>
    \A r \in Revs : rev[r].task = sess[i].task =>
      "default" \in {rev[r].actor, sess[i].actor} \/ rev[r].actor = sess[i].actor

(* Each session owns exactly one task (sessions-v1.ts): no two session rows *)
(* share one, and the row exists.                                           *)
SessionsKeepApart ==
  \A i \in Id : HasSession(i) =>
    /\ sess[i].task \in tasks
    /\ \A j \in Id : HasSession(j) /\ j # i => sess[j].task # sess[i].task
SessionsStayApart == ~disturbed => SessionsKeepApart

(* rewind_to can walk back across a resume: a call made after a closed turn *)
(* of the same session has a parent once it is sealed, on whichever id the  *)
(* turn and the call were recorded.                                         *)
ResumeIsWalkable ==
  /\ TypeOK
  /\ ~disturbed => \A r, p \in Revs :
       (/\ rev[r].task = rev[p].task /\ rev[p].forkable
        /\ rev[p].sealed < rev[r].created /\ rev[r].sealed # 0) => rev[r].parent # None
=============================================================================

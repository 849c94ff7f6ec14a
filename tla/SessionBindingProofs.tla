------------------------- MODULE SessionBindingProofs -------------------------
(***************************************************************************)
(* SessionBinding for every set of launches, conversations and actors: an   *)
(* actor sticks, sessions keep a task each, calls stay with the actor they  *)
(* were recorded for, and the calls of a task make one chain, resumes and   *)
(* all.                                                                     *)
(***************************************************************************)
EXTENDS SessionBinding, SequenceTheorems, WellFoundedInduction, TLAPS

Hook == {"none", "resume", "clear", "compact"}
LaunchRec == [on : BOOLEAN, conv : {None} \cup Id, hook : Hook]
SessRec == [task : Id, harness : {"orphan", "mcp"}, actor : Actor]
CallRec == [id : {None} \cup Id, rev : {None} \cup Nat]
RevRec(P) == [task : Id, parent : P, actor : Actor, created : Nat, sealed : Nat, forkable : BOOLEAN]

(* What the argument needs of the types.                                     *)
CoreOK ==
  /\ launch \in [Transports -> LaunchRec]
  /\ known \subseteq Id
  /\ bind \in [Transports -> Id]
  /\ pending \in [Id -> {"none"} \cup Actor]
  /\ sess \in [Id -> SessRec \cup {NoSession}]
  /\ call \in [Transports -> CallRec]
  /\ now \in Nat /\ disturbed \in BOOLEAN
RevOK == \E P : rev \in Seq(RevRec(P))

(* A hook speaks of a conversation of a launch that is on.                   *)
HookInv == \A t \in Transports : launch[t].hook # "none" => launch[t].on
OnInv == \A t \in Transports : launch[t].on => launch[t].conv # None

(* Nobody resumes a conversation that its own launch has cleared.            *)
NoReturn == "return" \notin Faults

(* Whoever is in another launch's own conversation, or is bound to it, came   *)
(* after that launch was over.                                               *)
Lent(k) == ~launch[k].on /\ launch[k].conv = k
LentInv ==
  NoReturn => \A u, k \in Transports : u # k /\ (bind[u] = k \/ launch[u].conv = k) => Lent(k)

(* A launch to come makes no call.                                           *)
FreshInv == \A t \in Transports : launch[t].conv = None => call[t] = NoCall

(* A task whose conversation has been given up: its id is never in use again. *)
Spent(k) ==
  /\ k \in Transports /\ ~HasSession(k) /\ pending[k] = "none"
  /\ bind[k] # k /\ launch[k].conv \notin {None, k}
TaskInv ==
  \A i \in Id : HasSession(i) =>
    /\ sess[i].task \in tasks
    /\ sess[i].task = i \/ Spent(sess[i].task)
    /\ \A j \in Id : HasSession(j) /\ j # i => sess[j].task # sess[i].task

(* Who registered an actor and has a session has had it taken.               *)
PendingInv ==
  \A t \in Transports : HasSession(t) =>
    launch[t].conv # None /\ (launch[t].on => pending[t] = "none")

(* The calls of a task are its session's.                                    *)
CallsInv ==
  /\ \A r \in Revs : \E i \in Id : HasSession(i) /\ sess[i].task = rev[r].task
  /\ \A i \in Id : HasSession(i) => \A r \in Revs :
       rev[r].task = sess[i].task => rev[r].actor \in {"default", sess[i].actor}

Steady == HookInv /\ OnInv /\ LentInv /\ FreshInv
Quiet == NoReturn /\ ~disturbed => TaskInv /\ PendingInv /\ CallsInv
IInv == CoreOK /\ RevOK /\ Steady /\ Quiet

-----------------------------------------------------------------------------
(* Types. *)

LEMMA IdFacts ==
  /\ None \notin Id /\ Transports \subseteq Id /\ Conversations \subseteq Id
  /\ Transports \cap Conversations = {} /\ "default" \in Actor /\ "none" \notin Actor
BY IdsAssumption, ActorsAssumption DEF Id, Actor

LEMMA SessFacts ==
  ASSUME CoreOK, NEW i \in Id
  PROVE  /\ NoSession \notin SessRec
         /\ HasSession(i) <=> sess[i] \in SessRec
         /\ sess[i].actor \in Actor
         /\ PendingActor(i) \in Actor
         /\ TaskOf(i) \in Id
<1>1. NoSession \notin SessRec
  BY DEF NoSession, SessRec
<1>2. HasSession(i) <=> sess[i] \in SessRec
  BY <1>1 DEF HasSession, CoreOK
<1>3. sess[i].actor \in Actor
  BY IdFacts DEF CoreOK, SessRec, NoSession
<1> QED
  BY <1>1, <1>2, <1>3, IdFacts DEF PendingActor, TaskOf, SessRec, CoreOK

LEMMA Upgraded ==
  ASSUME NEW old \in Actor, NEW new \in Actor
  PROVE  UpgradeActor(old, new) \in Actor
BY DEF UpgradeActor

LEMMA InitializeTypes ==
  ASSUME CoreOK, NEW i \in Id, OnMcpInitialized(i)
  PROVE  /\ sess' \in [Id -> SessRec \cup {NoSession}] /\ pending' \in [Id -> {"none"} \cup Actor]
         /\ sess'[i] \in SessRec /\ sess'[i].task = TaskOf(i)
         /\ sess'[i].actor = IF HasSession(i) THEN UpgradeActor(sess[i].actor, PendingActor(i))
                                              ELSE PendingActor(i)
         /\ pending'[i] = "none" /\ tasks' = tasks \cup {TaskOf(i)}
         /\ \A j \in Id : j # i => sess'[j] = sess[j] /\ pending'[j] = pending[j]
<1> DEFINE e == IF HasSession(i)
                THEN [task |-> sess[i].task, harness |-> "mcp",
                      actor |-> UpgradeActor(sess[i].actor, PendingActor(i))]
                ELSE [task |-> TaskOf(i), harness |-> "mcp", actor |-> PendingActor(i)]
<1>1. sess' = [sess EXCEPT ![i] = e]
  BY DEF OnMcpInitialized
<1>2. e \in SessRec /\ e.task = TaskOf(i)
  BY SessFacts, Upgraded DEF SessRec, TaskOf
<1>3. e.actor = IF HasSession(i) THEN UpgradeActor(sess[i].actor, PendingActor(i)) ELSE PendingActor(i)
  OBVIOUS
<1> HIDE DEF e
<1>4. sess \in [Id -> SessRec \cup {NoSession}] /\ pending \in [Id -> {"none"} \cup Actor]
  BY DEF CoreOK
<1>5. /\ pending' \in [Id -> {"none"} \cup Actor] /\ pending'[i] = "none"
      /\ \A j \in Id : j # i => pending'[j] = pending[j]
      /\ tasks' = tasks \cup {TaskOf(i)}
  BY <1>4 DEF OnMcpInitialized, TakePendingActor
<1> QED
  BY <1>1, <1>2, <1>3, <1>4, <1>5

LEMMA FallbackTypes ==
  ASSUME CoreOK, NEW i \in Id, OnOrphanFallback(i)
  PROVE  /\ sess' \in [Id -> SessRec \cup {NoSession}] /\ pending' \in [Id -> {"none"} \cup Actor]
         /\ sess'[i] \in SessRec /\ sess'[i].task = TaskOf(i)
         /\ sess'[i].actor = IF HasSession(i) THEN sess[i].actor ELSE PendingActor(i)
         /\ pending'[i] = (IF HasSession(i) THEN pending[i] ELSE "none")
         /\ tasks' = (IF HasSession(i) THEN tasks ELSE tasks \cup {TaskOf(i)})
         /\ \A j \in Id : j # i => sess'[j] = sess[j] /\ pending'[j] = pending[j]
<1> DEFINE e == [task |-> TaskOf(i), harness |-> "orphan", actor |-> PendingActor(i)]
<1>1. e \in SessRec /\ e.task = TaskOf(i) /\ e.actor = PendingActor(i)
  BY SessFacts DEF SessRec
<1>2. ~HasSession(i) => sess' = [sess EXCEPT ![i] = e]
  BY DEF OnOrphanFallback
<1> HIDE DEF e
<1>3. sess \in [Id -> SessRec \cup {NoSession}] /\ pending \in [Id -> {"none"} \cup Actor]
  BY DEF CoreOK
<1>4. /\ pending' \in [Id -> {"none"} \cup Actor]
      /\ pending'[i] = (IF HasSession(i) THEN pending[i] ELSE "none")
      /\ tasks' = (IF HasSession(i) THEN tasks ELSE tasks \cup {TaskOf(i)})
      /\ \A j \in Id : j # i => pending'[j] = pending[j]
  BY <1>3 DEF OnOrphanFallback, TakePendingActor
<1>5. CASE HasSession(i)
  BY <1>3, <1>4, <1>5, SessFacts DEF OnOrphanFallback, TaskOf
<1>6. CASE ~HasSession(i)
  BY <1>1, <1>2, <1>3, <1>4, <1>6
<1> QED
  BY <1>5, <1>6

(* What a hook's transaction makes of the two sessions.                      *)
LEMMA RebindTypes ==
  ASSUME CoreOK, NEW t \in Transports, NEW s \in Id, s # t, RebindSession(t, s)
  PROVE  /\ sess' \in [Id -> SessRec \cup {NoSession}] /\ pending' \in [Id -> {"none"} \cup Actor]
         /\ \A j \in Id \ {s, t} : sess'[j] = sess[j] /\ pending'[j] = pending[j]
         /\ pending'[t] = "none" /\ sess'[t] = NoSession
         /\ ~HasSession(t) /\ ~HasSession(s) => sess'[s] = NoSession
         /\ HasSession(t) /\ ~HasSession(s) => sess'[s] = sess[t] /\ Promote(t, s)
         /\ HasSession(s) => /\ sess'[s] \in SessRec
                             /\ sess'[s].task = sess[s].task
                             /\ pending'[s] = pending[s]
                             /\ sess'[s].actor \in {sess[s].actor, UpgradeActor(sess[s].actor, Requested(t))}
                             /\ HasSession(t) => sess'[s].actor = UpgradeActor(sess[s].actor, Requested(t))
<1>0. /\ sess \in [Id -> SessRec \cup {NoSession}] /\ pending \in [Id -> {"none"} \cup Actor]
      /\ t \in Id /\ \A i \in Id : HasSession(i) <=> sess[i] \in SessRec
      /\ NoSession \notin SessRec
  BY SessFacts, IdFacts DEF CoreOK
<1>1. CASE MovePending(t, s)
  <2>1. pending' = [pending EXCEPT ![t] = "none",
                   ![s] = IF pending[t] # "none" /\ ~HasSession(s) THEN pending[t] ELSE @]
    BY <1>1 DEF MovePending
  <2>2. /\ pending' \in [Id -> {"none"} \cup Actor] /\ pending'[t] = "none"
        /\ \A j \in Id \ {s, t} : pending'[j] = pending[j]
        /\ HasSession(s) => pending'[s] = pending[s]
    BY <1>0, <2>1
  <2>3. CASE pending[t] = "none" \/ ~HasSession(s)
    BY <1>0, <1>1, <2>2, <2>3 DEF MovePending, HasSession
  <2>4. CASE pending[t] # "none" /\ HasSession(s)
    <3> DEFINE e == [sess[s] EXCEPT !.actor = UpgradeActor(@, pending[t])]
    <3>1. sess' = [sess EXCEPT ![s] = e]
      BY <1>1, <2>4 DEF MovePending
    <3>2. e \in SessRec /\ e.task = sess[s].task /\ e.actor = UpgradeActor(sess[s].actor, pending[t])
      BY <1>0, <2>4, Upgraded, SessFacts DEF SessRec
    <3>3. Requested(t) = pending[t]
      BY <2>4 DEF Requested
    <3> HIDE DEF e
    <3> QED
      BY <1>0, <1>1, <2>2, <2>4, <3>1, <3>2, <3>3 DEF MovePending, HasSession
  <2> QED
    BY <2>3, <2>4
<1>2. CASE Promote(t, s)
  <2>1. sess' = [sess EXCEPT ![s] = sess[t], ![t] = NoSession] /\ pending' = [pending EXCEPT ![t] = "none"]
    BY <1>2 DEF Promote
  <2>2. HasSession(t) /\ ~HasSession(s)
    BY <1>2 DEF Promote
  <2> QED
    BY <1>0, <1>2, <2>1, <2>2 DEF HasSession
<1>3. CASE Merge(t, s)
  <2> DEFINE e == [sess[s] EXCEPT !.actor = UpgradeActor(@, Requested(t))]
  <2>1. sess' = [sess EXCEPT ![s] = e, ![t] = NoSession] /\ pending' = [pending EXCEPT ![t] = "none"]
    BY <1>3 DEF Merge
  <2>2. HasSession(t) /\ HasSession(s)
    BY <1>3 DEF Merge
  <2>3. Requested(t) \in Actor
    BY <1>0, SessFacts DEF Requested
  <2>4. e \in SessRec /\ e.task = sess[s].task /\ e.actor = UpgradeActor(sess[s].actor, Requested(t))
    BY <1>0, <2>2, <2>3, Upgraded, SessFacts DEF SessRec
  <2> HIDE DEF e
  <2> QED
    BY <1>0, <2>1, <2>2, <2>4 DEF HasSession
<1> QED
  BY <1>1, <1>2, <1>3 DEF RebindSession

-----------------------------------------------------------------------------
(* Revisions. *)

(* The rows of rev keep their task and actor.                                *)
Kept(r) == rev'[r].task = rev[r].task /\ rev'[r].actor = rev[r].actor

LEMMA RevFacts ==
  ASSUME RevOK
  PROVE  /\ Len(rev) \in Nat /\ Revs = 1 .. Len(rev)
         /\ \A r \in Revs : rev[r].task \in Id /\ rev[r].actor \in Actor
<1>1. PICK P : rev \in Seq(RevRec(P))
  BY DEF RevOK
<1>2. Len(rev) \in Nat /\ rev \in [1 .. Len(rev) -> RevRec(P)] /\ Revs = 1 .. Len(rev)
  BY <1>1, LenProperties DEF Revs
<1> QED
  BY <1>2 DEF RevRec

LEMMA RecordAdds ==
  ASSUME CoreOK, RevOK, NEW t \in Transports, Record(t)
  PROVE  /\ RevOK' /\ Revs' = 1 .. Len(rev) + 1
         /\ \A r \in Revs : Kept(r)
         /\ rev'[Len(rev) + 1].task = TaskOf(call[t].id)
         /\ rev'[Len(rev) + 1].actor = sess'[call[t].id].actor
<1>1. PICK P : rev \in Seq(RevRec(P))
  BY DEF RevOK
<1> DEFINE Q == P \cup {None}
           e == [task |-> TaskOf(call[t].id), parent |-> None, actor |-> sess'[call[t].id].actor,
                 created |-> now + 1, sealed |-> 0, forkable |-> FALSE]
<1>2. rev' = Append(rev, e)
  BY DEF Record
<1>3. call[t].id \in Id /\ OnOrphanFallback(call[t].id)
  BY IdFacts DEF Record, CoreOK, CallRec
<1>4. TaskOf(call[t].id) \in Id /\ sess'[call[t].id].actor \in Actor
  BY <1>3, FallbackTypes, SessFacts DEF SessRec
<1>5. e \in RevRec(Q) /\ e.task = TaskOf(call[t].id) /\ e.actor = sess'[call[t].id].actor
  BY <1>4 DEF RevRec, CoreOK
<1>6. rev \in Seq(RevRec(Q))
  <2>1. RevRec(P) \subseteq RevRec(Q)
    BY DEF RevRec
  <2> QED
    BY <1>1, <2>1, SeqMonotonic
<1> HIDE DEF e, Q
<1>7. /\ Append(rev, e) \in Seq(RevRec(Q)) /\ Len(Append(rev, e)) = Len(rev) + 1
      /\ \A r \in 1 .. Len(rev) : Append(rev, e)[r] = rev[r]
      /\ Append(rev, e)[Len(rev) + 1] = e
  BY <1>5, <1>6, AppendProperties
<1> QED
  BY <1>2, <1>5, <1>7, RevFacts, LenProperties DEF RevOK, Revs, Kept

LEMMA SealKeeps ==
  ASSUME CoreOK, RevOK, NEW t \in Transports, SealCall(t)
  PROVE  RevOK' /\ Revs' = Revs /\ \A r \in Revs : Kept(r)
<1>1. PICK P : rev \in Seq(RevRec(P))
  BY DEF RevOK
<1> DEFINE c == call[t].rev
           parent == ResolveParent(c)
           Q == P \cup {parent}
<1>2. PICK forkable \in BOOLEAN :
        rev' = [rev EXCEPT ![c] = [rev[c] EXCEPT !.sealed = now + 1, !.forkable = forkable,
                                                 !.parent = parent]]
  BY DEF SealCall
<1> DEFINE e == [rev[c] EXCEPT !.sealed = now + 1, !.forkable = forkable, !.parent = parent]
<1>3. /\ Len(rev) \in Nat /\ rev \in [1 .. Len(rev) -> RevRec(P)] /\ Revs = 1 .. Len(rev)
      /\ rev = [r \in 1 .. Len(rev) |-> rev[r]]
  BY <1>1, LenProperties DEF Revs
<1>4. RevRec(P) \subseteq RevRec(Q)
  BY DEF RevRec
<1> HIDE DEF parent, c
<1>5. c \in Revs => e \in RevRec(Q) /\ e.task = rev[c].task /\ e.actor = rev[c].actor
  <2>1. now + 1 \in Nat
    BY DEF CoreOK
  <2>2. c \in Revs => rev[c] \in RevRec(P)
    BY <1>3
  <2> QED
    BY <2>1, <2>2 DEF RevRec
<1> HIDE DEF e, Q, c
<1>6. rev' = [rev EXCEPT ![c] = e]
  BY <1>2 DEF e
<1>7. rev' \in [1 .. Len(rev) -> RevRec(Q)]
  BY <1>3, <1>4, <1>5, <1>6
<1>8. rev' \in Seq(RevRec(Q)) /\ DOMAIN rev' = 1 .. Len(rev)
  BY <1>3, <1>7
<1> QED
  BY <1>3, <1>5, <1>6, <1>8 DEF RevOK, Revs, Kept

LEMMA JoinMoves ==
  ASSUME RevOK, NEW old \in Id, NEW new \in Id, rev' = Joined(old, new)
  PROVE  /\ RevOK' /\ Revs' = Revs
         /\ \A r \in Revs : /\ rev'[r].task = IF rev[r].task = old THEN new ELSE rev[r].task
                            /\ rev'[r].actor = rev[r].actor
<1>1. PICK P : rev \in Seq(RevRec(P))
  BY DEF RevOK
<1>2. Len(rev) \in Nat /\ rev \in [1 .. Len(rev) -> RevRec(P)] /\ Revs = 1 .. Len(rev)
  BY <1>1, LenProperties DEF Revs
<1> DEFINE m == Moved(old, new)
<1>3. /\ m \in [1 .. Len(rev) -> RevRec(P)]
      /\ \A r \in Revs : /\ m[r].task = IF rev[r].task = old THEN new ELSE rev[r].task
                         /\ m[r].actor = rev[r].actor
  BY <1>2 DEF Moved, RevRec
<1>4. \E q, x : rev' \in {m, [m EXCEPT ![q] = [m[q] EXCEPT !.parent = x]]}
  <2> HIDE DEF m
  <2> DEFINE tails == {r \in Revs : rev[r].task = new /\ rev[r].forkable}
             roots == {r \in Revs : rev[r].task = old /\ rev[r].parent = None}
             first == CHOOSE r \in roots : \A s \in roots : rev[r].created <= rev[s].created
  <2>1. rev' = IF tails = {} \/ roots = {} THEN m ELSE [m EXCEPT ![first].parent = Last(tails)]
    BY DEF Joined, m
  <2> HIDE DEF tails, roots, first
  <2> QED
    BY <2>1
<1> HIDE DEF m
<1>5. PICK q, x : rev' \in {m, [m EXCEPT ![q] = [m[q] EXCEPT !.parent = x]]}
  BY <1>4
<1> DEFINE Q == P \cup {x}
           e == [m[q] EXCEPT !.parent = x]
<1>6. RevRec(P) \subseteq RevRec(Q)
  BY DEF RevRec
<1>7. q \in Revs => e \in RevRec(Q) /\ e.task = m[q].task /\ e.actor = m[q].actor
  BY <1>2, <1>3 DEF RevRec
<1>8. rev' = m \/ rev' = [m EXCEPT ![q] = e]
  BY <1>5
<1> HIDE DEF e, Q
<1>9. rev' \in [1 .. Len(rev) -> RevRec(Q)]
  BY <1>2, <1>3, <1>6, <1>7, <1>8
<1>10. rev' \in Seq(RevRec(Q)) /\ DOMAIN rev' = 1 .. Len(rev)
  BY <1>2, <1>9
<1> QED
  BY <1>2, <1>3, <1>7, <1>8, <1>10 DEF RevOK, Revs

-----------------------------------------------------------------------------
(* What holds of the launches, and who is in whose conversation.             *)

LEMMA LaunchTyped ==
  ASSUME launch \in [Transports -> LaunchRec], NEW t \in Transports, NEW x \in LaunchRec,
         launch' = [launch EXCEPT ![t] = x]
  PROVE  launch' \in [Transports -> LaunchRec]
OBVIOUS

LEMMA QuitKeepsCore ==
  ASSUME CoreOK, RevOK, NEW t \in Transports, Quit(t)
  PROVE  CoreOK' /\ RevOK'
<1> DEFINE over == [launch[t] EXCEPT !.on = FALSE, !.hook = "none"]
<1>1. launch \in [Transports -> LaunchRec] /\ launch[t] \in LaunchRec
  BY DEF CoreOK
<1>2. over \in LaunchRec
  BY <1>1 DEF LaunchRec, Hook
<1>3. launch' \in [Transports -> LaunchRec]
  <2>1. launch' = [u \in Transports |-> IF u = t THEN over ELSE launch[u]]
    BY <1>1 DEF Quit
  <2> HIDE DEF over
  <2> QED
    BY <2>1, <1>1, <1>2
<1>4. UNCHANGED <<known, bind, pending, sess, rev, call, now, disturbed>>
  BY DEF Quit, store
<1> QED
  BY <1>3, <1>4 DEF CoreOK, RevOK

LEMMA CoreStep ==
  ASSUME CoreOK, RevOK, HookInv, OnInv, [Next]_vars
  PROVE  CoreOK' /\ RevOK'
<1> USE IdFacts
<1>0. /\ launch \in [Transports -> LaunchRec] /\ known \subseteq Id /\ bind \in [Transports -> Id]
      /\ pending \in [Id -> {"none"} \cup Actor] /\ sess \in [Id -> SessRec \cup {NoSession}]
      /\ call \in [Transports -> CallRec] /\ now \in Nat /\ disturbed \in BOOLEAN
  BY DEF CoreOK
<1>1. ASSUME NEW t \in Transports, LaunchNew(t) PROVE CoreOK' /\ RevOK'
  <2>1. [on |-> TRUE, conv |-> t, hook |-> "none"] \in LaunchRec
    BY DEF LaunchRec, Hook
  <2> QED
    BY <1>0, <1>1, <2>1 DEF LaunchNew, RegisterActor, CoreOK, RevOK
<1>2. ASSUME NEW t \in Transports, LaunchResume(t) PROVE CoreOK' /\ RevOK'
  <2>1. \A c \in Id : [on |-> TRUE, conv |-> c, hook |-> "resume"] \in LaunchRec
    BY DEF LaunchRec, Hook
  <2> QED
    BY <1>0, <1>2, <2>1 DEF LaunchResume, RegisterActor, CoreOK, RevOK
<1>3. ASSUME NEW t \in Transports, Quit(t) PROVE CoreOK' /\ RevOK'
  BY <1>3, QuitKeepsCore
<1>4. ASSUME NEW t \in Transports, NewConversation(t) PROVE CoreOK' /\ RevOK'
  <2>1. /\ \A c \in Conversations : [launch[t] EXCEPT !.conv = c, !.hook = "clear"] \in LaunchRec
        /\ [launch[t] EXCEPT !.hook = "compact"] \in LaunchRec
    BY <1>0 DEF LaunchRec, Hook
  <2>2. \/ \E c \in Conversations :
             /\ launch' = [launch EXCEPT ![t] = [launch[t] EXCEPT !.conv = c, !.hook = "clear"]]
             /\ known' = known \cup {c}
        \/ launch' = [launch EXCEPT ![t] = [launch[t] EXCEPT !.hook = "compact"]] /\ known' = known
    BY <1>4 DEF NewConversation
  <2>3. launch' \in [Transports -> LaunchRec] /\ known' \subseteq Id
    <3>1. CASE launch' = [launch EXCEPT ![t] = [launch[t] EXCEPT !.hook = "compact"]] /\ known' = known
      <4> DEFINE x == [launch[t] EXCEPT !.hook = "compact"]
      <4>1. x \in LaunchRec /\ launch' = [launch EXCEPT ![t] = x]
        BY <2>1, <3>1
      <4> HIDE DEF x
      <4> QED
        BY <1>0, <3>1, <4>1, LaunchTyped
    <3>2. ASSUME NEW c \in Conversations,
                 launch' = [launch EXCEPT ![t] = [launch[t] EXCEPT !.conv = c, !.hook = "clear"]],
                 known' = known \cup {c}
          PROVE  launch' \in [Transports -> LaunchRec] /\ known' \subseteq Id
      <4> DEFINE x == [launch[t] EXCEPT !.conv = c, !.hook = "clear"]
      <4>1. x \in LaunchRec /\ launch' = [launch EXCEPT ![t] = x]
        BY <2>1, <3>2
      <4> HIDE DEF x
      <4>2. launch' \in [Transports -> LaunchRec]
        BY <1>0, <4>1, LaunchTyped
      <4> QED
        BY <1>0, <3>2, <4>2
    <3> QED
      BY <2>2, <3>1, <3>2
  <2> QED
    BY <1>0, <1>4, <2>3 DEF NewConversation, store, CoreOK, RevOK
<1>5. ASSUME NEW t \in Transports, Initialize(t) PROVE CoreOK' /\ RevOK'
  BY <1>0, <1>5, InitializeTypes DEF Initialize, CoreOK, RevOK
<1>6. ASSUME NEW t \in Transports, Take(t) PROVE CoreOK' /\ RevOK'
  <2>1. [call[t] EXCEPT !.id = bind[t]] \in CallRec
    BY <1>0 DEF CallRec
  <2>2. disturbed' \in BOOLEAN
    BY <1>0, <1>6 DEF Take
  <2> QED
    BY <1>0, <1>6, <2>1, <2>2 DEF Take, store, CoreOK, RevOK
<1>7. ASSUME NEW t \in Transports, Record(t) PROVE CoreOK' /\ RevOK'
  <2>1. [call[t] EXCEPT !.rev = Len(rev) + 1] \in CallRec
    BY <1>0, RevFacts DEF CallRec
  <2>2. call[t].id \in Id /\ OnOrphanFallback(call[t].id)
    BY <1>0, <1>7 DEF Record, CallRec
  <2>3. /\ launch' = launch /\ known' = known /\ bind' = bind /\ now' = now + 1
        /\ call' = [call EXCEPT ![t] = [call[t] EXCEPT !.rev = Len(rev) + 1]]
        /\ disturbed' \in BOOLEAN
    BY <1>0, <1>7 DEF Record
  <2> QED
    BY <1>0, <1>7, <2>1, <2>2, <2>3, FallbackTypes, RecordAdds DEF CoreOK
<1>8. ASSUME NEW t \in Transports, SealCall(t) PROVE CoreOK' /\ RevOK'
  <2>1. NoCall \in CallRec
    BY DEF NoCall, CallRec
  <2>2. /\ UNCHANGED <<known, launch, bind, pending, sess, disturbed>>
        /\ call' = [call EXCEPT ![t] = NoCall] /\ now' = now + 1
    BY <1>8 DEF SealCall
  <2>3. call' \in [Transports -> CallRec] /\ now' \in Nat
    BY <1>0, <2>1, <2>2
  <2> QED
    BY <1>0, <1>8, <2>2, <2>3, SealKeeps DEF CoreOK
<1>9. ASSUME NEW t \in Transports, Rewind(t) PROVE CoreOK' /\ RevOK'
  BY <1>0, <1>9 DEF Rewind, CoreOK, RevOK
<1>10. ASSUME NEW t \in Transports, HookDone(t) PROVE launch' \in [Transports -> LaunchRec]
  <2>1. [launch[t] EXCEPT !.hook = "none"] \in LaunchRec
    BY <1>0 DEF LaunchRec, Hook
  <2> QED
    BY <1>0, <1>10, <2>1 DEF HookDone
<1>11. ASSUME NEW t \in Transports, HookSame(t) PROVE CoreOK' /\ RevOK'
  BY <1>0, <1>10, <1>11 DEF HookSame, CoreOK, RevOK
<1>12. ASSUME NEW t \in Transports, HookConflict(t) PROVE CoreOK' /\ RevOK'
  BY <1>0, <1>10, <1>12 DEF HookConflict, store, CoreOK, RevOK
<1>13. ASSUME NEW t \in Transports, HookRebinds(t) PROVE CoreOK' /\ RevOK'
  <2>0. launch[t].conv \in Id
    BY <1>0, <1>13 DEF HookRebinds, HookInv, OnInv, LaunchRec
  <2>1. /\ HookDone(t) /\ bind' = [bind EXCEPT ![t] = launch[t].conv] /\ launch[t].conv # t
        /\ RebindSession(t, launch[t].conv)
        /\ UNCHANGED <<known, call, now, disturbed>>
    BY <1>13 DEF HookRebinds
  <2>2. RevOK'
    <3>1. CASE rev' = rev
      BY <3>1 DEF RevOK
    <3>2. CASE /\ HasSession(t) /\ HasSession(launch[t].conv)
               /\ rev' = Joined(sess[t].task, sess[launch[t].conv].task)
      BY <1>0, <2>0, <3>2, SessFacts, JoinMoves DEF SessRec
    <3> QED
      BY <2>1, <3>1, <3>2 DEF RebindSession, MovePending, Promote, Merge
  <2> QED
    BY <1>0, <1>10, <2>0, <2>1, <2>2, RebindTypes DEF CoreOK
<1>14. ASSUME NEW t \in Transports, HookLost(t) PROVE CoreOK' /\ RevOK'
  BY <1>0, <1>10, <1>14 DEF HookLost, store, CoreOK, RevOK
<1>15. ASSUME Restart PROVE CoreOK' /\ RevOK'
  <2>1. NoCall \in CallRec
    BY DEF NoCall, CallRec
  <2> QED
    BY <1>0, <1>15, <2>1 DEF Restart, store, CoreOK, RevOK
<1>16. ASSUME UNCHANGED vars PROVE CoreOK' /\ RevOK'
  BY <1>0, <1>16 DEF vars, CoreOK, RevOK
<1> QED
  BY <1>1, <1>2, <1>3, <1>4, <1>5, <1>6, <1>7, <1>8, <1>9, <1>11, <1>12, <1>13, <1>14, <1>15, <1>16
     DEF Next, Launched, Called, Hooked

(* One launch moves, and the others stay where they are.                     *)
Moves(t, l, b) ==
  /\ launch' = [launch EXCEPT ![t] = l] /\ bind' = [bind EXCEPT ![t] = b]
  /\ l.hook # "none" => l.on
  /\ l.on => l.conv # None
  /\ l.conv = None => launch[t].conv = None /\ call'[t] = NoCall
  /\ \A u \in Transports : u # t => call'[u] = call[u]

LEMMA SteadyMoves ==
  ASSUME CoreOK, Steady, NEW t \in Transports, NEW l \in LaunchRec, NEW b \in Id, Moves(t, l, b),
         b \in {bind[t], t, launch[t].conv},
         \/ l.conv = launch[t].conv /\ (l.on => launch[t].on)
         \/ l.conv \in Conversations /\ launch[t].on
         \/ Fresh(t) /\ (l.conv = t \/ (NoReturn => \A k \in Transports : l.conv = k => k # t /\ Lent(k)))
  PROVE  Steady'
<1> USE IdFacts
<1>1. /\ launch \in [Transports -> LaunchRec] /\ bind \in [Transports -> Id]
  BY DEF CoreOK
<1>2. /\ launch'[t] = l /\ bind'[t] = b
      /\ \A u \in Transports : u # t => launch'[u] = launch[u] /\ bind'[u] = bind[u]
  BY <1>1 DEF Moves
<1>3. HookInv' /\ OnInv' /\ FreshInv'
  BY <1>2 DEF Moves, Steady, HookInv, OnInv, FreshInv
<1>4. ASSUME NoReturn, NEW u \in Transports, NEW k \in Transports, u # k, bind'[u] = k \/ launch'[u].conv = k
      PROVE  Lent(k)
  <2>1. CASE bind[u] = k \/ launch[u].conv = k
    BY <1>4, <2>1 DEF Steady, LentInv
  <2>2. CASE u = t
    BY <1>2, <1>4, <2>2 DEF Steady, LentInv
  <2> QED
    BY <1>2, <1>4, <2>1, <2>2
<1>5. \A k \in Transports : Lent(k) => Lent(k)'
  BY <1>2 DEF Lent, Fresh
<1> QED
  BY <1>3, <1>4, <1>5 DEF Steady, LentInv

LEMMA SteadyStep ==
  ASSUME CoreOK, Steady, [Next]_vars
  PROVE  Steady'
<1> USE IdFacts
<1>0. /\ launch \in [Transports -> LaunchRec] /\ bind \in [Transports -> Id] /\ call \in [Transports -> CallRec]
      /\ HookInv /\ OnInv /\ FreshInv
  BY DEF CoreOK, Steady
<1>1. ASSUME NEW t \in Transports, LaunchNew(t) PROVE Steady'
  <2> DEFINE l == [on |-> TRUE, conv |-> t, hook |-> "none"]
  <2>1. l \in LaunchRec
    BY DEF LaunchRec, Hook
  <2>2. Moves(t, l, bind[t])
    BY <1>0, <1>1 DEF LaunchNew, Moves, Fresh
  <2> QED
    BY <1>0, <1>1, <2>1, <2>2, SteadyMoves DEF LaunchNew
<1>2. ASSUME NEW t \in Transports, LaunchResume(t) PROVE Steady'
  <2>1. PICK c \in Id \ {t} :
          Resumable(c) /\ launch' = [launch EXCEPT ![t] = [on |-> TRUE, conv |-> c, hook |-> "resume"]]
    BY <1>2 DEF LaunchResume
  <2> DEFINE l == [on |-> TRUE, conv |-> c, hook |-> "resume"]
  <2>2. l \in LaunchRec
    BY DEF LaunchRec, Hook
  <2>3. Moves(t, l, bind[t])
    BY <1>0, <1>2, <2>1 DEF LaunchResume, Moves
  <2>4. NoReturn => \A k \in Transports : c = k => k # t /\ Lent(k)
    BY <2>1 DEF Resumable, NoReturn, Lent
  <2> QED
    BY <1>0, <1>2, <2>2, <2>3, <2>4, SteadyMoves DEF LaunchResume
<1>3. ASSUME NEW t \in Transports, Quit(t) PROVE Steady'
  <2> DEFINE l == [launch[t] EXCEPT !.on = FALSE, !.hook = "none"]
  <2>1. l \in LaunchRec /\ ~l.on /\ l.hook = "none" /\ l.conv = launch[t].conv
    BY <1>0 DEF LaunchRec, Hook
  <2>2. launch' = [launch EXCEPT ![t] = l]
    BY <1>3 DEF Quit
  <2> HIDE DEF l
  <2>3. Moves(t, l, bind[t])
    BY <1>0, <1>3, <2>1, <2>2 DEF Quit, Moves, OnInv
  <2> QED
    BY <1>0, <2>1, <2>3, SteadyMoves
<1>4. ASSUME NEW t \in Transports, NewConversation(t) PROVE Steady'
  <2>1. \E c \in Conversations \cup {launch[t].conv}, hook \in {"clear", "compact"} :
          launch' = [launch EXCEPT ![t] = [launch[t] EXCEPT !.conv = c, !.hook = hook]]
    <3>1. \/ \E c \in Conversations :
               launch' = [launch EXCEPT ![t] = [launch[t] EXCEPT !.conv = c, !.hook = "clear"]]
          \/ launch' = [launch EXCEPT ![t] = [launch[t] EXCEPT !.hook = "compact"]]
      BY <1>4 DEF NewConversation
    <3>2. [launch[t] EXCEPT !.hook = "compact"]
            = [launch[t] EXCEPT !.conv = launch[t].conv, !.hook = "compact"]
      BY <1>0 DEF LaunchRec
    <3> QED
      BY <3>1, <3>2
  <2>2. PICK c \in Conversations \cup {launch[t].conv}, hook \in {"clear", "compact"} :
          launch' = [launch EXCEPT ![t] = [launch[t] EXCEPT !.conv = c, !.hook = hook]]
    BY <2>1
  <2> DEFINE l == [launch[t] EXCEPT !.conv = c, !.hook = hook]
  <2>3. l \in LaunchRec /\ l.on = launch[t].on /\ l.hook = hook /\ l.conv = c
    BY <1>0 DEF LaunchRec, Hook
  <2> HIDE DEF l
  <2>4. launch' = [launch EXCEPT ![t] = l] /\ launch[t].on /\ launch[t].conv # None
    BY <1>0, <1>4, <2>2 DEF l, NewConversation, OnInv
  <2>5. Moves(t, l, bind[t])
    BY <1>0, <1>4, <2>3, <2>4 DEF NewConversation, Moves
  <2> QED
    BY <1>0, <2>3, <2>4, <2>5, SteadyMoves
<1>5. ASSUME NEW t \in Transports, Hooked(t) PROVE Steady'
  <2> DEFINE l == [launch[t] EXCEPT !.hook = "none"]
  <2>1. l \in LaunchRec /\ l.on = launch[t].on /\ l.hook = "none" /\ l.conv = launch[t].conv
    BY <1>0 DEF LaunchRec, Hook
  <2>2. launch' = [launch EXCEPT ![t] = l] /\ call' = call /\ launch[t].on /\ launch[t].conv \in Id
    BY <1>0, <1>5 DEF Hooked, HookSame, HookConflict, HookRebinds, HookLost, HookDone, HookInv, OnInv,
                      LaunchRec
  <2> HIDE DEF l
  <2>3. PICK b \in {bind[t], t, launch[t].conv} : bind' = [bind EXCEPT ![t] = b]
    <3>1. bind = [bind EXCEPT ![t] = bind[t]]
      BY <1>0
    <3> QED
      BY <1>5, <3>1 DEF Hooked, HookSame, HookConflict, HookRebinds, HookLost
  <2>4. Moves(t, l, b)
    BY <1>0, <2>1, <2>2, <2>3 DEF Moves
  <2> QED
    BY <1>0, <2>1, <2>2, <2>3, <2>4, SteadyMoves
<1>6. ASSUME UNCHANGED <<launch, bind>>, \A t \in Transports : launch[t].conv = None => call'[t] = call[t]
      PROVE  Steady'
  BY <1>6 DEF Steady, HookInv, OnInv, LentInv, Lent, FreshInv
<1>7. ASSUME NEW t \in Transports, Called(t) PROVE Steady'
  <2>1. UNCHANGED <<launch, bind>>
    BY <1>7 DEF Called, Initialize, Take, Record, SealCall, Rewind, store
  <2>2. call'[t] # call[t] => launch[t].conv # None
    <3>1. call' = call \/ launch[t].on \/ call[t].id # None \/ call[t].rev # None
      BY <1>7 DEF Called, Initialize, Take, Record, SealCall, Rewind
    <3>2. call[t] = NoCall => call[t].id = None /\ call[t].rev = None
      BY DEF NoCall
    <3> QED
      BY <1>0, <3>1, <3>2 DEF OnInv, FreshInv
  <2>3. \A u \in Transports : u # t => call'[u] = call[u]
    BY <1>0, <1>7 DEF Called, Initialize, Take, Record, SealCall, Rewind
  <2> QED
    BY <1>6, <2>1, <2>2, <2>3
<1>8. ASSUME Restart PROVE Steady'
  <2>1. /\ launch' = launch /\ bind' = [t \in Transports |-> t] /\ call' = [t \in Transports |-> NoCall]
    BY <1>8 DEF Restart
  <2> QED
    BY <2>1 DEF Steady, HookInv, OnInv, LentInv, Lent, FreshInv
<1>9. CASE UNCHANGED vars
  BY <1>6, <1>9 DEF vars
<1> QED
  BY <1>1, <1>2, <1>3, <1>4, <1>5, <1>7, <1>8, <1>9 DEF Next, Launched

-----------------------------------------------------------------------------
(* Tasks, while nothing has gone wrong.                                      *)

QInv == TaskInv /\ PendingInv /\ CallsInv

LEMMA Untaken ==
  ASSUME NoReturn, Steady, NEW k, Spent(k), NEW t \in Transports
  PROVE  bind[t] # k /\ launch[t].conv # k
BY DEF Steady, LentInv, Lent, Spent

(* What a call of a launch may be: under its id, and of a launch that began.  *)
LEMMA CallerHasBegun ==
  ASSUME CoreOK, Steady, NEW t \in Transports, launch[t].on \/ call[t].id # None \/ call[t].rev # None
  PROVE  launch[t].conv # None
BY DEF CoreOK, Steady, OnInv, FreshInv, NoCall

LEMMA RecordsUnderBinding ==
  ASSUME CoreOK, NEW t \in Transports, Record(t), ~disturbed'
  PROVE  call[t].id = bind[t] /\ bind[t] \in Id /\ ~disturbed /\ OnOrphanFallback(bind[t])
BY DEF Record, CoreOK

LEMMA SpentStays ==
  ASSUME NoReturn, CoreOK, Steady, [Next]_vars, ~disturbed', NEW k, Spent(k)
  PROVE  Spent(k)'
<1> USE IdFacts
<1>0. /\ launch \in [Transports -> LaunchRec] /\ bind \in [Transports -> Id]
      /\ pending \in [Id -> {"none"} \cup Actor]
      /\ k \in Transports /\ k \in Id /\ ~HasSession(k) /\ pending[k] = "none"
      /\ bind[k] # k /\ launch[k].conv \notin {None, k}
      /\ HookInv /\ OnInv
  BY DEF CoreOK, Steady, Spent
<1>1. ASSUME NEW t \in Transports, Launched(t) PROVE Spent(k)'
  <2>1. sess' = sess /\ bind' = bind
    BY <1>1 DEF Launched, LaunchNew, LaunchResume, Quit, NewConversation, store
  <2>2. CASE LaunchNew(t) \/ LaunchResume(t)
    <3>1. t # k
      BY <1>0, <2>2 DEF LaunchNew, LaunchResume, Fresh
    <3>2. launch'[k] = launch[k] /\ pending'[k] = pending[k]
      BY <1>0, <2>2, <3>1 DEF LaunchNew, LaunchResume, RegisterActor
    <3> QED
      BY <1>0, <2>1, <3>2 DEF Spent, HasSession
  <2>3. CASE Quit(t)
    <3>1. launch'[k].conv = launch[k].conv /\ pending' = pending
      BY <1>0, <2>3 DEF Quit, store, LaunchRec
    <3> QED
      BY <1>0, <2>1, <3>1 DEF Spent, HasSession
  <2>4. CASE NewConversation(t)
    <3>1. launch'[k].conv \in Conversations \cup {launch[k].conv} /\ pending' = pending
      <4>1. \/ \E c \in Conversations :
                 launch' = [launch EXCEPT ![t] = [launch[t] EXCEPT !.conv = c, !.hook = "clear"]]
            \/ launch' = [launch EXCEPT ![t] = [launch[t] EXCEPT !.hook = "compact"]]
        BY <2>4 DEF NewConversation
      <4>2. /\ \A c \in Conversations : [launch[t] EXCEPT !.conv = c, !.hook = "clear"].conv = c
            /\ [launch[t] EXCEPT !.hook = "compact"].conv = launch[t].conv
        BY <1>0 DEF LaunchRec
      <4>3. pending' = pending
        BY <2>4 DEF NewConversation, store
      <4> QED
        BY <1>0, <4>1, <4>2, <4>3
    <3> QED
      BY <1>0, <2>1, <3>1 DEF Spent, HasSession
  <2> QED
    BY <1>1, <2>2, <2>3, <2>4 DEF Launched
<1>2. ASSUME NEW t \in Transports, Initialize(t) PROVE Spent(k)'
  <2>1. bind[t] # k /\ bind[t] \in Id /\ OnMcpInitialized(bind[t]) /\ UNCHANGED <<launch, bind>>
    BY <1>0, <1>2, Untaken DEF Initialize
  <2> QED
    BY <1>0, <2>1, InitializeTypes DEF Spent, HasSession
<1>3. ASSUME NEW t \in Transports, Record(t) PROVE Spent(k)'
  <2>1. bind[t] # k /\ bind[t] \in Id /\ OnOrphanFallback(bind[t]) /\ UNCHANGED <<launch, bind>>
    BY <1>0, <1>3, Untaken, RecordsUnderBinding DEF Record
  <2> QED
    BY <1>0, <2>1, FallbackTypes DEF Spent, HasSession
<1>4. ASSUME UNCHANGED <<launch, bind, sess, pending>> PROVE Spent(k)'
  BY <1>0, <1>4 DEF Spent, HasSession
<1>5. ASSUME NEW t \in Transports, Hooked(t) PROVE /\ launch'[k].conv = launch[k].conv
                                                  /\ launch[t].conv \in Id /\ launch[t].conv # k
  <2>1. launch' = [launch EXCEPT ![t].hook = "none"] /\ launch[t].hook # "none"
    BY <1>5 DEF Hooked, HookSame, HookConflict, HookRebinds, HookLost, HookDone
  <2>2. launch[t].conv \in Id
    BY <1>0, <2>1 DEF HookInv, OnInv, LaunchRec
  <2> QED
    BY <1>0, <2>1, <2>2, Untaken DEF LaunchRec
<1>6. ASSUME NEW t \in Transports, HookSame(t) \/ HookLost(t) PROVE Spent(k)'
  BY <1>0, <1>5, <1>6 DEF Hooked, HookSame, HookLost, Spent, HasSession, store
<1>7. ASSUME NEW t \in Transports, HookConflict(t) PROVE Spent(k)'
  <2>1. t # k
    BY <1>0, <1>7 DEF HookConflict, ActorConflict
  <2>2. bind' = [bind EXCEPT ![t] = t] /\ UNCHANGED <<sess, pending>>
    BY <1>7 DEF HookConflict, store
  <2> QED
    BY <1>0, <1>5, <1>7, <2>1, <2>2 DEF Hooked, Spent, HasSession
<1>8. ASSUME NEW t \in Transports, HookRebinds(t) PROVE Spent(k)'
  <2> DEFINE s == launch[t].conv
  <2>1. /\ s \in Id /\ s # k /\ s # t /\ RebindSession(t, s) /\ launch'[k].conv = launch[k].conv
        /\ bind' = [bind EXCEPT ![t] = s]
    BY <1>5, <1>8 DEF Hooked, HookRebinds
  <2> HIDE DEF s
  <2>2. /\ k # t => sess'[k] = sess[k] /\ pending'[k] = pending[k]
        /\ k = t => sess'[k] = NoSession /\ pending'[k] = "none"
    BY <1>0, <2>1, RebindTypes
  <2> QED
    BY <1>0, <2>1, <2>2 DEF Spent, HasSession
<1>9. ASSUME NEW t \in Transports, Take(t) \/ SealCall(t) \/ Rewind(t) PROVE Spent(k)'
  BY <1>4, <1>9 DEF Take, SealCall, Rewind, store
<1>10. ~Restart
  BY DEF Restart
<1>11. CASE UNCHANGED vars
  BY <1>4, <1>11 DEF vars
<1> QED
  BY <1>1, <1>2, <1>3, <1>6, <1>7, <1>8, <1>9, <1>10, <1>11 DEF Next, Called, Hooked

(* A step that leaves the sessions alone.                                    *)
LEMMA SessionsStay ==
  ASSUME NoReturn, CoreOK, RevOK, Steady, QInv, [Next]_vars, ~disturbed', UNCHANGED <<sess, tasks>>,
         Revs' = Revs, \A r \in Revs : Kept(r)
  PROVE  TaskInv' /\ CallsInv'
<1>1. \A i \in Id : HasSession(i)' <=> HasSession(i)
  BY DEF HasSession
<1>2. TaskInv'
  BY <1>1, SpentStays DEF QInv, TaskInv
<1> QED
  BY <1>1, <1>2 DEF QInv, CallsInv, Kept, Revs

(* A call or an initialize opens a session under the id its launch is bound to, *)
(* unless there is one; the task is its own.                                    *)
LEMMA OpensItsOwn ==
  ASSUME NoReturn, CoreOK, Steady, QInv, NEW t \in Transports, ~HasSession(bind[t])
  PROVE  /\ \A j \in Id : HasSession(j) => sess[j].task # bind[t]
         /\ \A r \in Revs : rev[r].task # bind[t]
<1>1. \A j \in Id : HasSession(j) => sess[j].task # bind[t]
  BY Untaken DEF QInv, TaskInv
<1> QED
  BY <1>1 DEF QInv, CallsInv

LEMMA SessionOpens ==
  ASSUME NoReturn, CoreOK, RevOK, Steady, QInv, [Next]_vars, ~disturbed', NEW t \in Transports, NEW i \in Id,
         i = bind[t],
         sess'[i] \in SessRec, sess'[i].task = TaskOf(i),
         \A j \in Id : j # i => sess'[j] = sess[j],
         tasks' = tasks \cup {TaskOf(i)} \/ (HasSession(i) /\ tasks' = tasks),
         CoreOK'
  PROVE  /\ \A j \in Id : HasSession(j)' <=> HasSession(j) \/ j = i
         /\ \A j \in Id : HasSession(j) => sess'[j].task = sess[j].task
         /\ TaskInv'
<1>1. \A j \in Id : HasSession(j)' <=> HasSession(j) \/ j = i
  BY SessFacts DEF HasSession
<1>2. \A j \in Id : HasSession(j) => sess'[j].task = sess[j].task
  BY DEF TaskOf
<1>3. ~HasSession(i) => sess'[i].task = i /\ \A j \in Id : HasSession(j) => sess[j].task # i
  BY OpensItsOwn DEF TaskOf
<1>4. \A j \in Id : \A k : HasSession(j) /\ k = sess[j].task => k \in tasks' /\ (k = j \/ Spent(k)')
  BY SpentStays DEF QInv, TaskInv
<1>5. sess'[i].task \in tasks'
  BY DEF QInv, TaskInv, TaskOf
<1>6. ASSUME NEW j \in Id, NEW k \in Id, HasSession(j)', HasSession(k)', k # j
      PROVE  sess'[k].task # sess'[j].task
  BY <1>1, <1>2, <1>3, <1>6 DEF QInv, TaskInv
<1>7. \A j \in Id : \A k : HasSession(j)' /\ k = sess'[j].task => k \in tasks' /\ (k = j \/ Spent(k)')
  BY <1>1, <1>2, <1>3, <1>4, <1>5
<1> QED
  BY <1>1, <1>2, <1>6, <1>7 DEF TaskInv, Spent, HasSession

LEMMA PendingOpens ==
  ASSUME NoReturn, CoreOK, Steady, QInv, NEW t \in Transports, NEW i \in Id, i = bind[t], launch[t].conv # None,
         \A j \in Id : HasSession(j)' <=> HasSession(j) \/ j = i,
         launch' = launch, pending'[i] = "none" \/ (HasSession(i) /\ pending'[i] = pending[i]),
         \A j \in Id : j # i => pending'[j] = pending[j]
  PROVE  PendingInv'
<1>1. i \in Transports => launch[i].conv # None /\ (i = t \/ ~launch[i].on)
  BY IdFacts DEF Steady, LentInv, Lent
<1>2. \A j \in Transports : j # i => (HasSession(j) => launch[j].conv # None /\ (launch[j].on => pending[j] = "none"))
  BY DEF QInv, PendingInv
<1>3. i \in Transports /\ HasSession(i) => (launch[i].on => pending[i] = "none")
  BY DEF QInv, PendingInv
<1> QED
  BY <1>1, <1>2, <1>3, IdFacts DEF PendingInv

LEMMA InitializeKeeps ==
  ASSUME NoReturn, CoreOK, RevOK, Steady, QInv, [Next]_vars, ~disturbed', CoreOK', NEW t \in Transports, Initialize(t)
  PROVE  QInv'
<1>0. PICK i \in Id : i = bind[t]
  BY DEF CoreOK
<1>1. i = bind[t] /\ OnMcpInitialized(i) /\ launch' = launch /\ rev' = rev /\ launch[t].on
  BY <1>0 DEF Initialize
<1>2. launch[t].conv # None
  BY <1>1, CallerHasBegun
<1>3. /\ \A j \in Id : HasSession(j)' <=> HasSession(j) \/ j = i
      /\ \A j \in Id : HasSession(j) => sess'[j].task = sess[j].task
      /\ TaskInv'
  BY <1>1, InitializeTypes, SessionOpens
<1>4. PendingInv'
  BY <1>1, <1>2, <1>3, InitializeTypes, PendingOpens
<1>5. CallsInv'
  <2>1. \A j \in Id : HasSession(j) /\ j # i => sess'[j].actor = sess[j].actor
    BY <1>1, InitializeTypes
  <2>2. HasSession(i) /\ sess[i].actor # "default" => sess'[i].actor = sess[i].actor
    BY <1>1, InitializeTypes DEF UpgradeActor
  <2>3. ~HasSession(i) => sess'[i].task = i /\ \A r \in Revs : rev[r].task # i
    BY <1>1, InitializeTypes, OpensItsOwn DEF TaskOf
  <2>4. \A r \in Revs : \E j \in Id : HasSession(j)' /\ sess'[j].task = rev[r].task
    BY <1>3 DEF QInv, CallsInv
  <2>5. ASSUME NEW j \in Id, HasSession(j)', NEW r \in Revs, rev[r].task = sess'[j].task
        PROVE  rev[r].actor \in {"default", sess'[j].actor}
    <3>1. CASE HasSession(j)
      BY <1>3, <2>1, <2>2, <2>5, <3>1 DEF QInv, CallsInv
    <3>2. CASE ~HasSession(j)
      BY <1>3, <2>3, <2>5, <3>2
    <3> QED
      BY <3>1, <3>2
  <2> QED
    BY <1>1, <2>4, <2>5 DEF CallsInv, Revs
<1> QED
  BY <1>3, <1>4, <1>5 DEF QInv

LEMMA RecordKeeps ==
  ASSUME NoReturn, CoreOK, RevOK, Steady, QInv, [Next]_vars, ~disturbed', CoreOK', NEW t \in Transports, Record(t)
  PROVE  QInv'
<1>0. PICK i \in Id : i = bind[t]
  BY DEF CoreOK
<1> DEFINE n == Len(rev) + 1
<1>1. i = bind[t] /\ OnOrphanFallback(i) /\ launch' = launch /\ call[t].id = i
  BY <1>0, RecordsUnderBinding DEF Record
<1>2. launch[t].conv # None
  BY <1>1, CallerHasBegun, IdFacts
<1> HIDE DEF n
<1>3. /\ \A j \in Id : HasSession(j)' <=> HasSession(j) \/ j = i
      /\ \A j \in Id : HasSession(j) => sess'[j].task = sess[j].task
      /\ TaskInv'
  BY <1>1, FallbackTypes, SessionOpens
<1>4. PendingInv'
  BY <1>1, <1>2, <1>3, FallbackTypes, PendingOpens
<1>5. CallsInv'
  <2>1. \A j \in Id : HasSession(j) => sess'[j].actor = sess[j].actor
    BY <1>1, FallbackTypes
  <2>2. sess'[i].task = TaskOf(i) /\ HasSession(i)'
    BY <1>1, <1>3, FallbackTypes
  <2>3. /\ Revs' = Revs \cup {n} /\ n \notin Revs /\ \A r \in Revs : Kept(r)
        /\ rev'[n].task = sess'[i].task /\ rev'[n].actor = sess'[i].actor
    BY <1>1, <2>2, RecordAdds, RevFacts DEF n
  <2>4. ~HasSession(i) => sess'[i].task = i /\ \A r \in Revs : rev[r].task # i
    BY <1>1, <2>2, OpensItsOwn DEF TaskOf
  <2>5. \A r \in Revs' : \E j \in Id : HasSession(j)' /\ sess'[j].task = rev'[r].task
    BY <1>1, <1>3, <2>2, <2>3 DEF QInv, CallsInv, Kept
  <2>6. ASSUME NEW j \in Id, HasSession(j)', NEW r \in Revs', rev'[r].task = sess'[j].task
        PROVE  rev'[r].actor \in {"default", sess'[j].actor}
    <3>1. CASE r = n
      <4>1. j = i
        BY <1>1, <1>3, <2>2, <2>3, <2>6, <3>1 DEF TaskInv
      <4> QED
        BY <2>3, <3>1, <4>1
    <3>2. CASE r \in Revs /\ HasSession(j)
      BY <1>3, <2>1, <2>3, <2>6, <3>2 DEF QInv, CallsInv, Kept
    <3>3. CASE r \in Revs /\ ~HasSession(j)
      BY <1>3, <2>3, <2>4, <2>6, <3>3 DEF Kept
    <3> QED
      BY <2>3, <3>1, <3>2, <3>3
  <2> QED
    BY <2>5, <2>6 DEF CallsInv
<1> QED
  BY <1>3, <1>4, <1>5 DEF QInv

(* A hook that binds: the two sessions become one.                           *)
LEMMA RebindKeeps ==
  ASSUME NoReturn, CoreOK, RevOK, Steady, QInv, [Next]_vars, ~disturbed', NEW t \in Transports, HookRebinds(t)
  PROVE  QInv'
<1> USE IdFacts
<1>0. PICK s \in Id : s = launch[t].conv
  BY DEF CoreOK, Steady, HookInv, OnInv, HookRebinds, LaunchRec
<1>1. /\ s # t /\ RebindSession(t, s) /\ ~ActorConflict(t, s) /\ t \in Id /\ launch[t].on
      /\ bind'[t] = s /\ launch'[t].conv = s
      /\ \A u \in Transports : u # t => launch'[u] = launch[u]
  <2>1. /\ s # t /\ RebindSession(t, s) /\ ~ActorConflict(t, s)
        /\ bind' = [bind EXCEPT ![t] = s] /\ launch' = [launch EXCEPT ![t].hook = "none"]
    BY <1>0 DEF HookRebinds, HookDone
  <2> QED
    BY <1>0, <2>1 DEF CoreOK, LaunchRec, HookRebinds, Steady, HookInv
<1>2. /\ sess \in [Id -> SessRec \cup {NoSession}] /\ \A j \in Id : HasSession(j) <=> sess[j] \in SessRec
      /\ NoSession \notin SessRec /\ \A j \in Id : HasSession(j)' <=> sess'[j] # NoSession
  BY SessFacts DEF CoreOK, HasSession
<1>3. /\ \A j \in Id \ {s, t} : sess'[j] = sess[j] /\ pending'[j] = pending[j]
      /\ pending'[t] = "none" /\ ~HasSession(t)'
  BY <1>1, <1>2, RebindTypes
<1>4. PendingInv'
  <2>1. s \in Transports => launch[s].conv # None /\ ~launch[s].on
    BY <1>0, <1>1 DEF Steady, LentInv, Lent
  <2>2. \A j \in Id \ {s, t} : HasSession(j)' <=> HasSession(j)
    BY <1>3 DEF HasSession
  <2> QED
    BY <1>1, <1>3, <2>1, <2>2 DEF QInv, PendingInv
<1>5. TaskInv' /\ CallsInv'
  <2>1. CASE MovePending(t, s)
    <3>1. UNCHANGED <<tasks, rev>> /\ ~HasSession(t)
      BY <2>1 DEF MovePending
    <3>2. \A j \in Id : HasSession(j)' <=> HasSession(j)
      BY <1>1, <1>2, <1>3, <3>1, RebindTypes DEF HasSession
    <3>3. \A j \in Id : HasSession(j) =>
            /\ sess'[j].task = sess[j].task
            /\ sess'[j].actor = sess[j].actor \/ sess[j].actor = "default"
      BY <1>1, <1>3, <3>1, RebindTypes DEF UpgradeActor
    <3>4. \A j \in Id : \A k : HasSession(j) /\ k = sess[j].task => k \in tasks' /\ (k = j \/ Spent(k)')
      BY <3>1, SpentStays DEF QInv, TaskInv
    <3>5. TaskInv'
      BY <3>2, <3>3, <3>4 DEF QInv, TaskInv, Spent
    <3>6. CallsInv'
      BY <3>1, <3>2, <3>3 DEF QInv, CallsInv, Revs
    <3> QED
      BY <3>5, <3>6
  <2>2. CASE Promote(t, s)
    <3>1. UNCHANGED <<tasks, rev>> /\ HasSession(t) /\ ~HasSession(s) /\ sess'[s] = sess[t]
      BY <1>1, <2>2, RebindTypes DEF Promote
    <3>2. \A j \in Id : HasSession(j)' <=> (HasSession(j) /\ j # t) \/ j = s
      BY <1>1, <1>2, <1>3, <3>1 DEF HasSession
    <3>3. \A j \in Id \ {s, t} : sess'[j] = sess[j]
      BY <1>3
    <3>4. Spent(t)'
      BY <1>0, <1>1, <1>3 DEF Spent
    <3>5. \A j \in Id : \A k : HasSession(j) /\ k = sess[j].task => k \in tasks' /\ (k = j \/ Spent(k)')
      BY <3>1, SpentStays DEF QInv, TaskInv
    <3>6. \A k : k = sess[t].task => k \in tasks' /\ Spent(k)'
      BY <3>1, <3>4, <3>5
    <3>7. \A j, k \in Id : HasSession(j)' /\ HasSession(k)' /\ k # j => sess'[k].task # sess'[j].task
      BY <1>1, <3>1, <3>2, <3>3 DEF QInv, TaskInv
    <3>8. \A j \in Id : \A k : HasSession(j)' /\ k = sess'[j].task => k \in tasks' /\ (k = j \/ Spent(k)')
      BY <1>1, <3>1, <3>2, <3>3, <3>5, <3>6
    <3>9. TaskInv'
      BY <3>2, <3>7, <3>8 DEF TaskInv, Spent
    <3>10. CallsInv'
      BY <1>1, <3>1, <3>2, <3>3 DEF QInv, CallsInv, Revs
    <3> QED
      BY <3>9, <3>10
  <2>3. CASE Merge(t, s)
    <3>1. HasSession(t) /\ HasSession(s) /\ sess[t].task # sess[s].task
      BY <1>1, <2>3 DEF Merge, QInv, TaskInv
    <3>2. rev' = Joined(sess[t].task, sess[s].task) /\ tasks' = tasks \ {sess[t].task}
      BY <2>3, <3>1 DEF Merge
    <3>3. /\ sess'[s] \in SessRec /\ sess'[s].task = sess[s].task
          /\ sess'[s].actor = UpgradeActor(sess[s].actor, Requested(t))
      BY <1>1, <3>1, RebindTypes
    <3>4. \A j \in Id : HasSession(j)' <=> HasSession(j) /\ j # t
      BY <1>1, <1>2, <1>3, <3>1, <3>3 DEF HasSession
    <3>5. \A j \in Id : HasSession(j) /\ j # t => sess'[j].task = sess[j].task
      BY <1>3, <3>3
    <3>6. \A j \in Id : \A k : HasSession(j) /\ j # t /\ k = sess[j].task
                             => k \in tasks' /\ (k = j \/ Spent(k)')
      BY <1>1, <3>1, <3>2, SpentStays DEF QInv, TaskInv
    <3>7. TaskInv'
      BY <3>4, <3>5, <3>6 DEF QInv, TaskInv, Spent
    <3>8. /\ Revs' = Revs
          /\ \A r \in Revs : /\ rev'[r].task = IF rev[r].task = sess[t].task THEN sess[s].task ELSE rev[r].task
                             /\ rev'[r].actor = rev[r].actor
      BY <1>1, <1>2, <3>1, <3>2, JoinMoves DEF SessRec
    <3>9. Requested(t) = sess[t].actor
      BY <1>1, <3>1 DEF Requested, QInv, PendingInv
    <3>10. \/ sess[t].actor = "default" /\ sess'[s].actor = sess[s].actor
           \/ sess[s].actor = "default" /\ sess'[s].actor = sess[t].actor
           \/ sess[t].actor = sess[s].actor /\ sess'[s].actor = sess[s].actor
      BY <1>1, <3>1, <3>3, <3>9 DEF ActorConflict, UpgradeActor
    <3>11. \A r \in Revs' : \E j \in Id : HasSession(j)' /\ sess'[j].task = rev'[r].task
      <4> SUFFICES ASSUME NEW r \in Revs PROVE \E j \in Id : HasSession(j)' /\ sess'[j].task = rev'[r].task
        BY <3>8
      <4>1. PICK j \in Id : HasSession(j) /\ sess[j].task = rev[r].task
        BY DEF QInv, CallsInv
      <4>2. CASE j = t
        BY <1>1, <3>1, <3>3, <3>4, <3>8, <4>1, <4>2
      <4>3. CASE j # t
        BY <3>1, <3>4, <3>5, <3>8, <4>1, <4>3 DEF QInv, TaskInv
      <4> QED
        BY <4>2, <4>3
    <3>12. ASSUME NEW j \in Id, HasSession(j)', NEW r \in Revs', rev'[r].task = sess'[j].task
           PROVE  rev'[r].actor \in {"default", sess'[j].actor}
      <4>1. HasSession(j) /\ j # t /\ sess'[j].task = sess[j].task /\ r \in Revs
        BY <3>4, <3>5, <3>8, <3>12
      <4>2. CASE rev[r].task = sess[t].task
        <5>1. j = s
          BY <3>1, <3>8, <3>12, <4>1, <4>2 DEF QInv, TaskInv
        <5>2. rev[r].actor \in {"default", sess[t].actor}
          BY <1>1, <3>1, <4>1, <4>2 DEF QInv, CallsInv
        <5> QED
          BY <3>8, <3>10, <4>1, <5>1, <5>2
      <4>3. CASE rev[r].task # sess[t].task
        <5>1. rev[r].actor \in {"default", sess[j].actor}
          BY <3>8, <3>12, <4>1, <4>3 DEF QInv, CallsInv
        <5>2. sess'[j].actor = sess[j].actor \/ (j = s /\ sess[j].actor = "default")
          BY <1>3, <3>10, <4>1
        <5> QED
          BY <3>8, <4>1, <5>1, <5>2
      <4> QED
        BY <4>2, <4>3
    <3>13. CallsInv'
      BY <3>11, <3>12 DEF CallsInv
    <3> QED
      BY <3>7, <3>13
  <2> QED
    BY <1>1, <2>1, <2>2, <2>3 DEF RebindSession
<1> QED
  BY <1>4, <1>5 DEF QInv

LEMMA QuietStep ==
  ASSUME CoreOK, RevOK, Steady, Quiet, CoreOK', [Next]_vars
  PROVE  Quiet'
<1> SUFFICES ASSUME NoReturn, ~disturbed' PROVE QInv'
  BY DEF Quiet, QInv
<1>0. ~disturbed
  BY DEF CoreOK, Next, Launched, LaunchNew, LaunchResume, Quit, NewConversation, Called, Initialize, Take,
         Record, SealCall, Rewind, Hooked, HookSame, HookConflict, HookRebinds, HookLost, Restart, vars
<1>1. QInv
  BY <1>0 DEF Quiet, QInv
<1> USE IdFacts
<1>2. ASSUME UNCHANGED <<sess, tasks, rev>>
      PROVE  TaskInv' /\ CallsInv'
  BY <1>1, <1>2, SessionsStay DEF Revs, Kept
<1>3. ASSUME UNCHANGED <<sess, tasks, rev, pending>>,
             \A t \in Transports : /\ launch[t].conv # None => launch'[t].conv # None
                                   /\ launch'[t].on => launch[t].on
      PROVE  QInv'
  BY <1>1, <1>2, <1>3 DEF QInv, PendingInv, HasSession
<1>4. ASSUME NEW t \in Transports, LaunchNew(t) \/ LaunchResume(t) PROVE QInv'
  <2>1. ~HasSession(t) /\ launch[t].conv = None
    BY <1>1, <1>4 DEF QInv, PendingInv, LaunchNew, LaunchResume, Fresh
  <2>2. /\ UNCHANGED <<sess, tasks, rev>>
        /\ \A u \in Transports : u # t => launch'[u] = launch[u] /\ pending'[u] = pending[u]
    BY <1>4 DEF CoreOK, LaunchNew, LaunchResume, RegisterActor
  <2> QED
    BY <1>1, <1>2, <2>1, <2>2 DEF QInv, PendingInv, HasSession
<1>5. ASSUME NEW t \in Transports, Quit(t) PROVE QInv'
  <2>1. \A u \in Transports : launch'[u].conv = launch[u].conv /\ (launch'[u].on => launch[u].on)
    BY <1>5 DEF Quit, CoreOK, LaunchRec
  <2> QED
    BY <1>3, <1>5, <2>1 DEF Quit, store
<1>6. ASSUME NEW t \in Transports, NewConversation(t) PROVE QInv'
  <2>1. \/ \E c \in Conversations :
             launch' = [launch EXCEPT ![t] = [launch[t] EXCEPT !.conv = c, !.hook = "clear"]]
        \/ launch' = [launch EXCEPT ![t] = [launch[t] EXCEPT !.hook = "compact"]]
    BY <1>6 DEF NewConversation
  <2>2. /\ \A c \in Conversations : /\ [launch[t] EXCEPT !.conv = c, !.hook = "clear"].conv = c
                                    /\ [launch[t] EXCEPT !.conv = c, !.hook = "clear"].on = launch[t].on
        /\ [launch[t] EXCEPT !.hook = "compact"].conv = launch[t].conv
        /\ [launch[t] EXCEPT !.hook = "compact"].on = launch[t].on
    BY DEF CoreOK, LaunchRec
  <2>3. \A u \in Transports : /\ launch'[u].conv = launch[u].conv \/ launch'[u].conv \in Conversations
                              /\ launch'[u].on => launch[u].on
    BY <2>1, <2>2 DEF CoreOK
  <2> QED
    BY <1>3, <1>6, <2>3 DEF NewConversation, store
<1>7. ASSUME NEW t \in Transports, Take(t) \/ Rewind(t) PROVE QInv'
  BY <1>3, <1>7 DEF Take, Rewind, store
<1>8. ASSUME NEW t \in Transports, SealCall(t) PROVE QInv'
  BY <1>1, <1>8, SealKeeps, SessionsStay DEF SealCall, QInv, PendingInv, HasSession
<1>9. ASSUME NEW t \in Transports, HookSame(t) \/ HookConflict(t) PROVE QInv'
  <2>1. launch' = [launch EXCEPT ![t].hook = "none"]
    BY <1>9 DEF HookSame, HookConflict, HookDone
  <2>2. \A u \in Transports : launch'[u].conv = launch[u].conv /\ launch'[u].on = launch[u].on
    BY <2>1 DEF CoreOK, LaunchRec
  <2> QED
    BY <1>3, <1>9, <2>2 DEF HookSame, HookConflict, store
<1>10. ASSUME NEW t \in Transports, HookLost(t) PROVE FALSE
  BY <1>10 DEF HookLost
<1>11. CASE UNCHANGED vars
  BY <1>3, <1>11 DEF vars
<1> QED
  BY <1>1, <1>4, <1>5, <1>6, <1>7, <1>8, <1>9, <1>10, <1>11, InitializeKeeps, RecordKeeps, RebindKeeps
     DEF Next, Launched, Called, Hooked, Restart

-----------------------------------------------------------------------------
(* The rows of rev, their stamps and the ids the launches know.              *)

Created(r) == rev[r].created
Sealed(r) == rev[r].sealed
RowsInv ==
  \A r \in Revs :
    /\ rev[r].parent \in {None} \cup Revs
    /\ Created(r) \in 1 .. now /\ Sealed(r) \in 0 .. now
    /\ Sealed(r) # 0 => Created(r) < Sealed(r)
    /\ rev[r].forkable \in BOOLEAN /\ (rev[r].forkable => Sealed(r) # 0)
StoreInv ==
  /\ \A t \in Transports : call[t].rev \in {None} \cup Revs
  /\ tasks \subseteq Id /\ anchors \in [Id -> Nat]
NamesInv ==
  /\ \A t \in Transports : launch[t].conv \in known \cup {None} /\ bind[t] \in known \cup Transports
  /\ \A t \in Transports : call[t].id \in known \cup Transports \cup {None}
  /\ \A t \in Transports : launch[t].conv = None => bind[t] = t
  /\ \A i \in Id : HasSession(i) => i \in known \cup Transports
  /\ \A t, u \in Transports : t # u /\ launch[t].on /\ launch[u].on => launch[t].conv # launch[u].conv

LEMMA Least ==
  ASSUME NEW T \in SUBSET Nat, T # {}
  PROVE  \E x \in T : \A y \in T : x <= y
<1>1. PICK x \in T : \A y \in T : ~(<<y, x>> \in OpToRel(<, Nat))
  BY NatLessThanWellFounded, WFMin
<1>2. \A y \in T : ~(y < x)
  BY <1>1 DEF OpToRel
<1> QED
  BY <1>2

LEMMA NoRevision == RevOK => None \notin Revs
BY RevFacts, IdsAssumption

(* The two choices of a row.                                                 *)
LEMMA LastOf ==
  ASSUME CoreOK, RowsInv, NEW S \in SUBSET Revs, S # {}
  PROVE  Last(S) \in S
<1> DEFINE T == {now - Sealed(r) : r \in S}
<1>1. \A r \in S : Sealed(r) \in 0 .. now /\ now \in Nat
  BY DEF CoreOK, RowsInv
<1>2. T \in SUBSET Nat /\ T # {}
  BY <1>1
<1>3. PICK x \in T : \A y \in T : x <= y
  <2> HIDE DEF T
  <2> QED
    BY <1>2, Least
<1>4. PICK r \in S : x = now - Sealed(r)
  OBVIOUS
<1>5. \A s \in S : now - Sealed(r) <= now - Sealed(s)
  BY <1>3, <1>4
<1>6. \A s \in S : rev[s].sealed <= rev[r].sealed
  BY <1>1, <1>5 DEF Sealed
<1> QED
  BY <1>6 DEF Last

LEMMA FirstOf ==
  ASSUME CoreOK, RowsInv, NEW S \in SUBSET Revs, S # {}
  PROVE  \E r \in S : \A s \in S : rev[r].created <= rev[s].created
<1> DEFINE T == {Created(r) : r \in S}
<1>1. T \in SUBSET Nat /\ T # {}
  BY DEF CoreOK, RowsInv
<1>2. PICK x \in T : \A y \in T : x <= y
  <2> HIDE DEF T
  <2> QED
    BY <1>1, Least
<1> QED
  BY <1>2 DEF Created

LEMMA ResolveFacts ==
  ASSUME CoreOK, RevOK, RowsInv, NEW r \in Revs
  PROVE  /\ ResolveParent(r) \in {None} \cup Revs
         /\ (\E p \in Revs : rev[p].task = rev[r].task /\ Sealed(p) # 0 /\ Sealed(p) < Created(r))
              => ResolveParent(r) # None
<1> DEFINE before == {p \in Revs : /\ rev[p].task = rev[r].task
                                   /\ rev[p].sealed # 0 /\ rev[p].sealed <= rev[r].created}
<1>1. ResolveParent(r) = IF rev[r].parent # None THEN rev[r].parent
                         ELSE IF before = {} THEN None ELSE Last(before)
  BY DEF ResolveParent
<1>2. (\E p \in Revs : rev[p].task = rev[r].task /\ Sealed(p) # 0 /\ Sealed(p) < Created(r)) => before # {}
  BY DEF RowsInv, Sealed, Created, CoreOK
<1>3. before \subseteq Revs
  OBVIOUS
<1> HIDE DEF before
<1>4. before # {} => Last(before) \in Revs
  BY <1>3, LastOf
<1> QED
  BY <1>1, <1>2, <1>4, NoRevision DEF RowsInv

(* What the three steps that touch rev make of its rows.                     *)
SameStamps(r) == Created(r)' = Created(r) /\ Sealed(r)' = Sealed(r) /\ rev'[r].forkable = rev[r].forkable

LEMMA RecordRows ==
  ASSUME CoreOK, RevOK, NEW t \in Transports, Record(t), NEW n, n = Len(rev) + 1
  PROVE  /\ n \notin Revs /\ Revs' = Revs \cup {n}
         /\ \A r \in Revs : rev'[r] = rev[r]
         /\ Created(n)' = now + 1 /\ Sealed(n)' = 0 /\ rev'[n].parent = None /\ rev'[n].forkable = FALSE
         /\ rev'[n].task = TaskOf(call[t].id)
         /\ call'[t].rev = n /\ \A u \in Transports : u # t => call'[u] = call[u]
         /\ now' = now + 1
<1> DEFINE e == [task |-> TaskOf(call[t].id), parent |-> None, actor |-> sess'[call[t].id].actor,
                 created |-> now + 1, sealed |-> 0, forkable |-> FALSE]
<1>1. rev' = Append(rev, e)
  BY DEF Record
<1>2. e.task = TaskOf(call[t].id) /\ e.parent = None /\ e.created = now + 1 /\ e.sealed = 0 /\ e.forkable = FALSE
  OBVIOUS
<1>3. PICK P : rev \in Seq(RevRec(P))
  BY DEF RevOK
<1> HIDE DEF e
<1>4. /\ Len(rev) \in Nat /\ Revs = 1 .. Len(rev)
      /\ \A r \in 1 .. Len(rev) : rev'[r] = rev[r]
      /\ rev'[n] = e
  BY <1>1, <1>3, RevFacts
<1>5. Revs' = 1 .. n
  BY RecordAdds
<1>6. call' = [call EXCEPT ![t].rev = n] /\ now' = now + 1
  BY DEF Record
<1>7. call'[t].rev = n /\ \A u \in Transports : u # t => call'[u] = call[u]
  BY <1>6 DEF CoreOK, CallRec
<1> QED
  BY <1>2, <1>4, <1>5, <1>6, <1>7 DEF Created, Sealed

LEMMA SealRows ==
  ASSUME CoreOK, RevOK, RowsInv, StoreInv, NEW t \in Transports, SealCall(t), NEW c, c = call[t].rev
  PROVE  /\ c \in Revs /\ Revs' = Revs
         /\ \A r \in Revs \ {c} : rev'[r] = rev[r]
         /\ rev'[c].task = rev[c].task /\ Created(c)' = Created(c) /\ Sealed(c)' = now + 1
         /\ rev'[c].forkable \in BOOLEAN /\ rev'[c].parent = ResolveParent(c)
         /\ call'[t] = NoCall /\ \A u \in Transports : u # t => call'[u] = call[u]
         /\ now' = now + 1
<1>1. c \in Revs
  BY DEF SealCall, StoreInv
<1>2. PICK P : rev \in Seq(RevRec(P))
  BY DEF RevOK
<1>3. rev \in [Revs -> RevRec(P)]
  BY <1>2, RevFacts
<1> DEFINE parent == ResolveParent(c)
<1>4. PICK forkable \in BOOLEAN :
        rev' = [rev EXCEPT ![c] = [rev[c] EXCEPT !.sealed = now + 1, !.forkable = forkable,
                                                 !.parent = parent]]
  BY DEF SealCall
<1> DEFINE e == [rev[c] EXCEPT !.sealed = now + 1, !.forkable = forkable, !.parent = parent]
<1> HIDE DEF parent
<1>5. /\ e.task = rev[c].task /\ e.created = rev[c].created
      /\ e.sealed = now + 1 /\ e.forkable = forkable /\ e.parent = parent
  BY <1>1, <1>3 DEF RevRec
<1>6. rev' = [rev EXCEPT ![c] = e]
  BY <1>4
<1> HIDE DEF e
<1>7. rev'[c] = e /\ \A r \in Revs \ {c} : rev'[r] = rev[r]
  BY <1>1, <1>3, <1>6
<1>8. call'[t] = NoCall /\ (\A u \in Transports : u # t => call'[u] = call[u]) /\ now' = now + 1
  BY DEF SealCall, CoreOK
<1> QED
  BY <1>1, <1>5, <1>7, <1>8, SealKeeps DEF parent, Created, Sealed

(* The rows of the old task that have no parent, when the chains are joined:  *)
(* the first of them gets one.                                               *)
LEMMA JoinRows ==
  ASSUME CoreOK, RevOK, RowsInv, NEW old \in Id, NEW new \in Id, rev' = Joined(old, new)
  PROVE  /\ Revs' = Revs
         /\ \A r \in Revs : SameStamps(r) /\ rev'[r].parent \in {None} \cup Revs
         /\ \A r \in Revs : rev[r].parent # None => rev'[r].parent # None
         /\ \A r, p \in Revs :
              rev[r].task = old /\ rev[r].parent = None /\ rev[p].task = new /\ rev[p].forkable =>
                \/ rev'[r].parent # None
                \/ \E f \in Revs : /\ f # r /\ rev[f].task = old /\ rev[f].parent = None
                                   /\ Created(f) <= Created(r)
<1>1. PICK P : rev \in Seq(RevRec(P))
  BY DEF RevOK
<1>2. rev \in [Revs -> RevRec(P)] /\ Revs' = Revs
  BY <1>1, RevFacts, JoinMoves
<1> DEFINE m == Moved(old, new)
           tails == {r \in Revs : rev[r].task = new /\ rev[r].forkable}
           roots == {r \in Revs : rev[r].task = old /\ rev[r].parent = None}
           first == CHOOSE r \in roots : \A s \in roots : rev[r].created <= rev[s].created
           tail == Last(tails)
           e == [m[first] EXCEPT !.parent = tail]
<1>3. /\ m \in [Revs -> RevRec(P)]
      /\ \A r \in Revs : /\ m[r].created = rev[r].created /\ m[r].sealed = rev[r].sealed
                         /\ m[r].forkable = rev[r].forkable /\ m[r].parent = rev[r].parent
  BY <1>2 DEF Moved, RevRec
<1>4. rev' = IF tails = {} \/ roots = {} THEN m ELSE [m EXCEPT ![first] = e]
  <2>1. rev' = IF tails = {} \/ roots = {} THEN Moved(old, new)
               ELSE [Moved(old, new) EXCEPT ![first].parent = Last(tails)]
    BY DEF Joined
  <2> HIDE DEF tails, roots, first
  <2> QED
    BY <2>1
<1>5. tails # {} => tail \in Revs
  <2>1. tails \subseteq Revs
    OBVIOUS
  <2> HIDE DEF tails
  <2> QED
    BY <2>1, LastOf
<1>6. roots # {} => first \in roots /\ \A s \in roots : rev[first].created <= rev[s].created
  <2>1. roots \subseteq Revs
    OBVIOUS
  <2> HIDE DEF roots
  <2>2. roots # {} => \E r \in roots : \A s \in roots : rev[r].created <= rev[s].created
    BY <2>1, FirstOf
  <2> QED
    BY <2>2
<1>7. roots # {} => first \in Revs /\ rev[first].task = old /\ rev[first].parent = None
  BY <1>6
<1> HIDE DEF m, tail, first
<1>8. roots # {} => /\ e.created = rev[first].created /\ e.sealed = rev[first].sealed
                    /\ e.forkable = rev[first].forkable /\ e.parent = tail
  BY <1>3, <1>7 DEF RevRec
<1> HIDE DEF e
<1>9. CASE tails = {} \/ roots = {}
  <2>1. rev' = m
    BY <1>4, <1>9
  <2>2. \A r, p \in Revs : ~(rev[r].task = old /\ rev[r].parent = None /\ rev[p].task = new /\ rev[p].forkable)
    BY <1>9
  <2> HIDE DEF tails, roots
  <2> QED
    BY <1>2, <1>3, <2>1, <2>2 DEF SameStamps, Created, Sealed, RowsInv
<1>10. CASE tails # {} /\ roots # {}
  <2>1. \A r \in Revs : rev[r].task = old /\ rev[r].parent = None => Created(first) <= Created(r)
    BY <1>6, <1>10 DEF Created
  <2> HIDE DEF tails, roots
  <2>2. rev'[first] = e /\ \A r \in Revs : r # first => rev'[r] = m[r]
    BY <1>3, <1>4, <1>7, <1>10
  <2>3. tail # None /\ tail \in Revs
    BY <1>5, <1>10, NoRevision
  <2>4. \A r \in Revs : SameStamps(r) /\ rev'[r].parent \in {None} \cup Revs
    BY <1>2, <1>3, <1>7, <1>8, <1>10, <2>2, <2>3 DEF SameStamps, Created, Sealed, RowsInv
  <2>5. \A r \in Revs : rev[r].parent # None => rev'[r].parent # None
    BY <1>3, <1>7, <1>10, <2>2
  <2>6. rev'[first].parent # None
    BY <1>8, <1>10, <2>2, <2>3
  <2> QED
    BY <1>2, <1>7, <1>10, <2>1, <2>4, <2>5, <2>6
<1> QED
  BY <1>9, <1>10

LEMMA RowsStep ==
  ASSUME CoreOK, RevOK, HookInv, OnInv, RowsInv, StoreInv, [Next]_vars
  PROVE  RowsInv' /\ StoreInv'
<1> USE IdFacts
<1>0. /\ call \in [Transports -> CallRec] /\ now \in Nat /\ bind \in [Transports -> Id]
      /\ \A i \in Id : TaskOf(i) \in Id
  BY SessFacts DEF CoreOK
<1>1. ASSUME UNCHANGED <<rev, now>> PROVE RowsInv'
  BY <1>1 DEF RowsInv, Created, Sealed, Revs
<1>2. ASSUME UNCHANGED <<rev, now, tasks, anchors>>,
             \A t \in Transports : call'[t].rev \in {None, call[t].rev}
      PROVE  RowsInv' /\ StoreInv'
  BY <1>1, <1>2 DEF StoreInv, Revs
<1>3. ASSUME NEW t \in Transports, Launched(t) PROVE RowsInv' /\ StoreInv'
  BY <1>2, <1>3 DEF Launched, LaunchNew, LaunchResume, Quit, NewConversation, store
<1>4. ASSUME NEW t \in Transports, Initialize(t) PROVE RowsInv' /\ StoreInv'
  <2>1. PICK i \in Id : OnMcpInitialized(i)
    BY <1>0, <1>4 DEF Initialize
  <2>2. UNCHANGED <<rev, now, anchors, call>>
    BY <1>4 DEF Initialize
  <2>3. tasks' = tasks \cup {TaskOf(i)}
    BY <2>1, InitializeTypes
  <2> QED
    BY <1>0, <1>1, <2>2, <2>3 DEF StoreInv, Revs
<1>5. ASSUME NEW t \in Transports, Take(t) PROVE RowsInv' /\ StoreInv'
  <2>1. UNCHANGED <<rev, now, tasks, anchors>> /\ call' = [call EXCEPT ![t].id = bind[t]]
    BY <1>5 DEF Take, store
  <2>2. \A u \in Transports : call'[u].rev = call[u].rev
    BY <1>0, <2>1 DEF CallRec
  <2> QED
    BY <1>2, <2>1, <2>2
<1>6. ASSUME NEW t \in Transports, Record(t) PROVE RowsInv' /\ StoreInv'
  <2>0. PICK n : n = Len(rev) + 1
    OBVIOUS
  <2>1. /\ n \notin Revs /\ Revs' = Revs \cup {n}
        /\ \A r \in Revs : rev'[r] = rev[r]
        /\ Created(n)' = now + 1 /\ Sealed(n)' = 0 /\ rev'[n].parent = None /\ rev'[n].forkable = FALSE
        /\ call'[t].rev = n /\ \A u \in Transports : u # t => call'[u] = call[u]
        /\ now' = now + 1
    BY <1>6, <2>0, RecordRows
  <2>2. PICK i \in Id : OnOrphanFallback(i)
    BY <1>0, <1>6 DEF Record, CallRec
  <2>3. tasks' \subseteq Id /\ anchors' = anchors
    BY <1>0, <1>6, <2>2, FallbackTypes DEF StoreInv, Record
  <2>4. StoreInv'
    BY <2>1, <2>3 DEF StoreInv
  <2>5. \A r \in Revs : Created(r)' = Created(r) /\ Sealed(r)' = Sealed(r)
    BY <2>1 DEF Created, Sealed
  <2>6. ASSUME NEW r \in Revs'
        PROVE  /\ rev'[r].parent \in {None} \cup Revs'
               /\ Created(r)' \in 1 .. now' /\ Sealed(r)' \in 0 .. now'
               /\ Sealed(r)' # 0 => Created(r)' < Sealed(r)'
               /\ rev'[r].forkable \in BOOLEAN /\ (rev'[r].forkable => Sealed(r)' # 0)
    <3>1. CASE r = n
      <4>1. now + 1 \in 1 .. now + 1 /\ 0 \in 0 .. now + 1
        BY <1>0
      <4>2. rev'[r].parent = None /\ rev'[r].forkable = FALSE
        BY <2>1, <3>1
      <4>3. Created(r)' = now + 1 /\ Sealed(r)' = 0
        BY <2>1, <3>1 DEF Created, Sealed
      <4> QED
        BY <2>1, <4>1, <4>2, <4>3
    <3>2. CASE r \in Revs
      BY <1>0, <2>1, <2>5, <3>2 DEF RowsInv
    <3> QED
      BY <2>1, <3>1, <3>2
  <2> QED
    BY <2>4, <2>6 DEF RowsInv, Created, Sealed
<1>7. ASSUME NEW t \in Transports, SealCall(t) PROVE RowsInv' /\ StoreInv'
  <2>0. PICK c : c = call[t].rev
    OBVIOUS
  <2>1. /\ c \in Revs /\ Revs' = Revs
        /\ \A r \in Revs \ {c} : rev'[r] = rev[r]
        /\ Created(c)' = Created(c) /\ Sealed(c)' = now + 1
        /\ rev'[c].forkable \in BOOLEAN /\ rev'[c].parent = ResolveParent(c)
        /\ call'[t] = NoCall /\ \A u \in Transports : u # t => call'[u] = call[u]
        /\ now' = now + 1
    BY <1>7, <2>0, SealRows
  <2>2. UNCHANGED <<tasks, anchors>>
    BY <1>7 DEF SealCall
  <2>3. StoreInv'
    BY <2>1, <2>2 DEF StoreInv, NoCall
  <2>4. \A r \in Revs \ {c} : Created(r)' = Created(r) /\ Sealed(r)' = Sealed(r)
    BY <2>1 DEF Created, Sealed
  <2>5. rev'[c].parent \in {None} \cup Revs
    BY <2>1, ResolveFacts
  <2>6. ASSUME NEW r \in Revs
        PROVE  /\ rev'[r].parent \in {None} \cup Revs'
               /\ Created(r)' \in 1 .. now' /\ Sealed(r)' \in 0 .. now'
               /\ Sealed(r)' # 0 => Created(r)' < Sealed(r)'
               /\ rev'[r].forkable \in BOOLEAN /\ (rev'[r].forkable => Sealed(r)' # 0)
    <3>1. CASE r = c
      BY <1>0, <2>1, <2>5, <3>1 DEF RowsInv, Created, Sealed
    <3>2. CASE r # c
      BY <1>0, <2>1, <2>4, <3>2 DEF RowsInv
    <3> QED
      BY <3>1, <3>2
  <2> QED
    BY <2>1, <2>3, <2>6 DEF RowsInv, Created, Sealed
<1>8. ASSUME NEW t \in Transports, Rewind(t) PROVE RowsInv' /\ StoreInv'
  BY <1>0, <1>1, <1>8 DEF Rewind, StoreInv, Revs
<1>9. ASSUME NEW t \in Transports, HookSame(t) PROVE RowsInv' /\ StoreInv'
  <2>1. UNCHANGED <<rev, now, tasks, call>> /\ anchors' \in {anchors, [anchors EXCEPT ![t] = 0]}
    BY <1>9 DEF HookSame, Released
  <2> QED
    BY <1>1, <2>1 DEF StoreInv, Revs
<1>10. ASSUME NEW t \in Transports, HookConflict(t) \/ HookLost(t) PROVE RowsInv' /\ StoreInv'
  BY <1>2, <1>10 DEF HookConflict, HookLost, store
<1>11. ASSUME NEW t \in Transports, HookRebinds(t) PROVE RowsInv' /\ StoreInv'
  <2>1. PICK s \in Id : s = launch[t].conv
    BY <1>11 DEF CoreOK, HookRebinds, HookInv, OnInv, LaunchRec
  <2>2. RebindSession(t, s) /\ UNCHANGED <<call, now>> /\ anchors' = Released(Rekeyed(t, s), s, launch[t].hook)
    BY <1>11, <2>1 DEF HookRebinds
  <2>3. anchors' \in [Id -> Nat]
    <3> DEFINE moved == [anchors EXCEPT ![s] = @ + anchors[t], ![t] = 0]
    <3>1. Rekeyed(t, s) \in [Id -> Nat]
      BY <1>0 DEF Rekeyed, StoreInv
    <3> QED
      BY <2>2, <3>1 DEF Released
  <2>4. tasks' \subseteq tasks
    BY <2>2 DEF RebindSession, MovePending, Promote, Merge
  <2>5. CASE rev' = rev
    BY <1>1, <2>2, <2>3, <2>4, <2>5 DEF StoreInv, Revs
  <2>6. CASE HasSession(t) /\ HasSession(s) /\ rev' = Joined(sess[t].task, sess[s].task)
    <3>1. /\ Revs' = Revs
          /\ \A r \in Revs : SameStamps(r) /\ rev'[r].parent \in {None} \cup Revs
      BY <1>0, <2>6, SessFacts, JoinRows DEF SessRec
    <3>2. StoreInv'
      BY <2>2, <2>3, <2>4, <3>1 DEF StoreInv
    <3> QED
      BY <2>2, <3>1, <3>2 DEF RowsInv, SameStamps, Created, Sealed
  <2> QED
    BY <2>2, <2>5, <2>6 DEF RebindSession, MovePending, Promote, Merge
<1>12. ASSUME Restart PROVE RowsInv' /\ StoreInv'
  <2>1. UNCHANGED <<rev, now, tasks, anchors>> /\ \A t \in Transports : call'[t].rev = None
    BY <1>12 DEF Restart, store, NoCall
  <2> QED
    BY <1>2, <2>1
<1>13. CASE UNCHANGED vars
  BY <1>2, <1>13 DEF vars
<1> QED
  BY <1>3, <1>4, <1>5, <1>6, <1>7, <1>8, <1>9, <1>10, <1>11, <1>12, <1>13 DEF Next, Called, Hooked

(* What each step makes of its launch.                                       *)
LEMMA LaunchFacts ==
  ASSUME CoreOK, HookInv, OnInv, NEW t \in Transports
  PROVE  /\ Launched(t) \/ Hooked(t) => \A u \in Transports : u # t => launch'[u] = launch[u]
         /\ LaunchNew(t) => launch'[t].on /\ launch'[t].conv = t /\ launch'[t].hook = "none"
         /\ LaunchResume(t) => /\ launch'[t].on /\ launch'[t].hook = "resume"
                               /\ launch'[t].conv \in Id \ {t} /\ Resumable(launch'[t].conv)
         /\ Quit(t) => ~launch'[t].on /\ launch'[t].conv = launch[t].conv
         /\ NewConversation(t) =>
              /\ launch[t].on /\ launch'[t].on /\ launch[t].hook = "none" /\ call[t] = NoCall
              /\ \/ /\ launch'[t].conv \in Conversations \ known /\ launch'[t].hook = "clear"
                    /\ known' = known \cup {launch'[t].conv}
                 \/ launch'[t].conv = launch[t].conv /\ launch'[t].hook = "compact" /\ known' = known
         /\ Hooked(t) => /\ launch[t].on /\ launch'[t].on /\ launch[t].conv \in Id
                         /\ launch'[t].conv = launch[t].conv /\ launch'[t].hook = "none"
<1>0. launch \in [Transports -> LaunchRec] /\ launch[t] \in LaunchRec
  BY DEF CoreOK
<1>1. ASSUME LaunchNew(t)
      PROVE  /\ launch'[t].on /\ launch'[t].conv = t /\ launch'[t].hook = "none"
             /\ \A u \in Transports : u # t => launch'[u] = launch[u]
  BY <1>0, <1>1 DEF LaunchNew
<1>2. ASSUME LaunchResume(t)
      PROVE  /\ launch'[t].on /\ launch'[t].hook = "resume"
             /\ launch'[t].conv \in Id \ {t} /\ Resumable(launch'[t].conv)
             /\ \A u \in Transports : u # t => launch'[u] = launch[u]
  <2>1. PICK c \in Id \ {t} :
          Resumable(c) /\ launch' = [launch EXCEPT ![t] = [on |-> TRUE, conv |-> c, hook |-> "resume"]]
    BY <1>2 DEF LaunchResume
  <2>2. launch'[t] = [on |-> TRUE, conv |-> c, hook |-> "resume"]
    BY <1>0, <2>1
  <2>3. launch'[t].conv = c
    BY <2>2
  <2> QED
    BY <1>0, <2>1, <2>2, <2>3
<1>3. ASSUME Quit(t)
      PROVE  /\ ~launch'[t].on /\ launch'[t].conv = launch[t].conv
             /\ \A u \in Transports : u # t => launch'[u] = launch[u]
  BY <1>0, <1>3 DEF Quit, LaunchRec
<1>4. ASSUME NewConversation(t)
      PROVE  /\ launch[t].on /\ launch'[t].on /\ launch[t].hook = "none" /\ call[t] = NoCall
             /\ \/ /\ launch'[t].conv \in Conversations \ known /\ launch'[t].hook = "clear"
                   /\ known' = known \cup {launch'[t].conv}
                \/ launch'[t].conv = launch[t].conv /\ launch'[t].hook = "compact" /\ known' = known
             /\ \A u \in Transports : u # t => launch'[u] = launch[u]
  <2>1. \/ \E c \in Conversations \ known :
             /\ launch' = [launch EXCEPT ![t] = [launch[t] EXCEPT !.conv = c, !.hook = "clear"]]
             /\ known' = known \cup {c}
        \/ launch' = [launch EXCEPT ![t] = [launch[t] EXCEPT !.hook = "compact"]] /\ known' = known
    BY <1>4 DEF NewConversation
  <2>2. /\ \A c \in Conversations : /\ [launch[t] EXCEPT !.conv = c, !.hook = "clear"].conv = c
                                    /\ [launch[t] EXCEPT !.conv = c, !.hook = "clear"].hook = "clear"
                                    /\ [launch[t] EXCEPT !.conv = c, !.hook = "clear"].on = launch[t].on
        /\ [launch[t] EXCEPT !.hook = "compact"].conv = launch[t].conv
        /\ [launch[t] EXCEPT !.hook = "compact"].hook = "compact"
        /\ [launch[t] EXCEPT !.hook = "compact"].on = launch[t].on
    BY <1>0 DEF LaunchRec
  <2>3. launch[t].on /\ launch[t].hook = "none" /\ call[t] = NoCall
    BY <1>4 DEF NewConversation
  <2>4. CASE launch' = [launch EXCEPT ![t] = [launch[t] EXCEPT !.hook = "compact"]] /\ known' = known
    BY <1>0, <2>2, <2>3, <2>4
  <2>5. ASSUME NEW c \in Conversations \ known,
               launch' = [launch EXCEPT ![t] = [launch[t] EXCEPT !.conv = c, !.hook = "clear"]],
               known' = known \cup {c}
        PROVE  /\ launch'[t].on /\ launch'[t].conv = c /\ launch'[t].hook = "clear"
               /\ \A u \in Transports : u # t => launch'[u] = launch[u]
    BY <1>0, <2>2, <2>3, <2>5
  <2> QED
    BY <2>1, <2>3, <2>4, <2>5, <2>2, <1>0
<1>5. ASSUME Hooked(t)
      PROVE  /\ launch[t].on /\ launch'[t].on /\ launch[t].conv \in Id
             /\ launch'[t].conv = launch[t].conv /\ launch'[t].hook = "none"
             /\ \A u \in Transports : u # t => launch'[u] = launch[u]
  <2>1. launch' = [launch EXCEPT ![t] = [launch[t] EXCEPT !.hook = "none"]] /\ launch[t].hook # "none"
    BY <1>5 DEF Hooked, HookSame, HookConflict, HookRebinds, HookLost, HookDone
  <2>2. launch[t].on /\ launch[t].conv \in Id
    BY <1>0, <2>1 DEF HookInv, OnInv, LaunchRec
  <2>3. /\ [launch[t] EXCEPT !.hook = "none"].on = launch[t].on
        /\ [launch[t] EXCEPT !.hook = "none"].conv = launch[t].conv
        /\ [launch[t] EXCEPT !.hook = "none"].hook = "none"
    BY <1>0 DEF LaunchRec
  <2> QED
    BY <1>0, <2>1, <2>2, <2>3
<1> QED
  BY <1>1, <1>2, <1>3, <1>4, <1>5 DEF Launched

LEMMA NamesStep ==
  ASSUME NoReturn, CoreOK, Steady, NamesInv, [Next]_vars
  PROVE  NamesInv'
<1> USE IdFacts
<1>0. /\ HookInv /\ OnInv /\ LentInv /\ known \subseteq Id /\ bind \in [Transports -> Id]
  BY DEF Steady, CoreOK
<1>1. ASSUME UNCHANGED <<launch, known, bind>>, NEW t \in Transports, NEW x \in {call[t].id, bind[t]},
             \A i \in Id : HasSession(i)' => HasSession(i) \/ i = x,
             \A u \in Transports : call'[u].id \in {call[u].id, bind[u], None}
      PROVE  NamesInv'
  BY <1>1 DEF NamesInv
<1>2. ASSUME NEW t \in Transports, Launched(t) PROVE NamesInv'
  <2>1. sess' = sess /\ bind' = bind /\ call' = call
    BY <1>2 DEF Launched, LaunchNew, LaunchResume, Quit, NewConversation, store
  <2>2. known \subseteq known' /\ \A i \in Id : HasSession(i)' <=> HasSession(i)
    BY <1>2, <2>1 DEF Launched, LaunchNew, LaunchResume, Quit, NewConversation, HasSession
  <2>3. \A u \in Transports : u # t => launch'[u] = launch[u]
    BY <1>0, <1>2, LaunchFacts
  <2>4. launch'[t].conv \in known' \cup {None} /\ (launch'[t].conv = None => launch[t].conv = None)
    <3>1. LaunchNew(t) => launch'[t].conv = t /\ t \in known'
      BY <1>0, LaunchFacts DEF LaunchNew
    <3>2. LaunchResume(t) => launch'[t].conv \in known /\ launch'[t].conv # None
      BY <1>0, LaunchFacts DEF Resumable
    <3>3. Quit(t) => launch'[t].conv = launch[t].conv
      BY <1>0, LaunchFacts
    <3>4. NewConversation(t) => \/ launch'[t].conv = launch[t].conv
                                \/ launch'[t].conv \in known' /\ launch'[t].conv \in Conversations
      BY <1>0, LaunchFacts
    <3> QED
      BY <1>2, <2>2, <3>1, <3>2, <3>3, <3>4 DEF Launched, NamesInv
  <2>5. launch'[t].on => \A u \in Transports : u # t /\ launch[u].on => launch'[t].conv # launch[u].conv
    <3>1. LaunchNew(t) => \A u \in Transports : u # t => launch[u].conv # t
      BY <1>0 DEF LaunchNew, Fresh, LentInv, Lent
    <3>2. LaunchResume(t) => \A u \in Transports : launch[u].on => launch[u].conv # launch'[t].conv
      BY <1>0, LaunchFacts DEF Resumable
    <3>3. NewConversation(t) => launch[t].on
      BY <1>0, LaunchFacts
    <3>4. NewConversation(t) => launch'[t].conv = launch[t].conv \/ launch'[t].conv \in Conversations \ known
      BY <1>0, LaunchFacts
    <3>5. NewConversation(t) => \A u \in Transports : u # t /\ launch[u].on => launch'[t].conv # launch[u].conv
      BY <3>3, <3>4 DEF NamesInv
    <3>6. LaunchNew(t) => launch'[t].conv = t
      BY <1>0, LaunchFacts
    <3>7. Quit(t) => ~launch'[t].on
      BY <1>0, LaunchFacts
    <3> QED
      BY <1>2, <3>1, <3>2, <3>5, <3>6, <3>7 DEF Launched
  <2> QED
    BY <2>1, <2>2, <2>3, <2>4, <2>5 DEF NamesInv
<1>3. ASSUME NEW t \in Transports, Initialize(t) PROVE NamesInv'
  <2>1. bind[t] \in Id /\ OnMcpInitialized(bind[t]) /\ UNCHANGED <<launch, known, bind, call>>
    BY <1>0, <1>3 DEF Initialize
  <2>2. \A i \in Id : HasSession(i)' => HasSession(i) \/ i = bind[t]
    BY <2>1, InitializeTypes DEF HasSession
  <2> QED
    BY <1>1, <2>1, <2>2
<1>4. ASSUME UNCHANGED <<launch, known, sess>>, bind' = bind \/ bind' = [u \in Transports |-> u],
             \A u \in Transports : call'[u].id \in {call[u].id, bind[u], None}
      PROVE  NamesInv'
  BY <1>4 DEF NamesInv, HasSession
<1>5. ASSUME NEW t \in Transports, Take(t) \/ SealCall(t) \/ Rewind(t) PROVE NamesInv'
  <2>1. \A u \in Transports : call'[u].id \in {call[u].id, bind[u], None}
    <3>1. call \in [Transports -> CallRec]
      BY DEF CoreOK
    <3>2. Take(t) => call' = [call EXCEPT ![t] = [call[t] EXCEPT !.id = bind[t]]]
      BY DEF Take
    <3>3. [call[t] EXCEPT !.id = bind[t]].id = bind[t] /\ NoCall.id = None
      BY <3>1 DEF CallRec, NoCall
    <3>4. Take(t) => \A u \in Transports : call'[u].id \in {call[u].id, bind[u], None}
      BY <3>1, <3>2, <3>3
    <3>5. SealCall(t) => \A u \in Transports : call'[u].id \in {call[u].id, bind[u], None}
      BY <3>1, <3>3 DEF SealCall
    <3> QED
      BY <1>5, <3>4, <3>5 DEF Rewind
  <2> QED
    BY <1>4, <1>5, <2>1 DEF Take, SealCall, Rewind, store
<1>6. ASSUME NEW t \in Transports, Hooked(t), NEW s \in Id, s = launch[t].conv,
             \A i \in Id : HasSession(i)' => HasSession(i) \/ i = s,
             bind' \in {bind, [bind EXCEPT ![t] = t], [bind EXCEPT ![t] = s]}, known' = known, call' = call
      PROVE  NamesInv'
  <2>1. s \in known /\ launch'[t].conv = s /\ launch'[t].on /\ launch[t].on
    BY <1>0, <1>6, LaunchFacts DEF NamesInv
  <2>2. \A u \in Transports : u # t => launch'[u] = launch[u] /\ bind'[u] = bind[u]
    BY <1>0, <1>6, LaunchFacts
  <2>3. bind'[t] \in {bind[t], t, s}
    BY <1>0, <1>6
  <2> QED
    BY <1>6, <2>1, <2>2, <2>3 DEF NamesInv
<1>7. ASSUME NEW t \in Transports, Hooked(t) PROVE NamesInv'
  <2>1. PICK s \in Id : s = launch[t].conv
    BY <1>0, <1>7, LaunchFacts
  <2>2. known' = known /\ call' = call /\ bind' \in {bind, [bind EXCEPT ![t] = t], [bind EXCEPT ![t] = s]}
    BY <1>7, <2>1 DEF Hooked, HookSame, HookConflict, HookRebinds, HookLost
  <2>3. \A i \in Id : HasSession(i)' => HasSession(i) \/ i = s
    <3>1. CASE sess' = sess
      BY <3>1 DEF HasSession
    <3>2. CASE RebindSession(t, s) /\ s # t
      BY <2>1, <3>2, RebindTypes DEF HasSession
    <3> QED
      BY <1>7, <2>1, <3>1, <3>2 DEF Hooked, HookSame, HookConflict, HookRebinds, HookLost, store
  <2> QED
    BY <1>6, <1>7, <2>1, <2>2, <2>3
<1>8. CASE Restart
  <2>1. \A u \in Transports : call'[u].id = None
    BY <1>8 DEF Restart, NoCall
  <2> QED
    BY <1>4, <1>8, <2>1 DEF Restart, store
<1>9. CASE UNCHANGED vars
  BY <1>4, <1>9 DEF vars
<1>10. ASSUME NEW t \in Transports, Record(t) PROVE NamesInv'
  <2>1. PICK i \in Id : i = call[t].id
    BY <1>10 DEF Record, CoreOK, CallRec
  <2>2. OnOrphanFallback(i) /\ UNCHANGED <<launch, known, bind>>
    BY <1>10, <2>1 DEF Record
  <2>3. \A j \in Id : HasSession(j)' => HasSession(j) \/ j = i
    BY <2>2, FallbackTypes DEF HasSession
  <2>4. \A u \in Transports : call'[u].id = call[u].id
    BY <1>10 DEF Record, CoreOK, CallRec
  <2> QED
    BY <1>1, <2>1, <2>2, <2>3, <2>4
<1> QED
  BY <1>2, <1>3, <1>5, <1>7, <1>8, <1>9, <1>10 DEF Next, Called

-----------------------------------------------------------------------------
(* Order of the calls of a task, while nothing has gone wrong.               *)

Before(p, r) == Sealed(p) # 0 /\ Sealed(p) < Created(r)

(* Who is bound elsewhere has left nothing under the transport id.           *)
LeftInv == \A t \in Transports : bind[t] # t => Spent(t)

(* Who calls is on, and calls under its transport id or its conversation.    *)
CallerInv ==
  \A t \in Transports :
    /\ call[t] # NoCall => launch[t].on /\ launch[t].hook # "clear"
    /\ launch[t].on /\ launch[t].hook # "clear" => bind[t] \in {t, launch[t].conv}

(* The calls that are not sealed are the launches' own, in their sessions.   *)
OpenInv ==
  /\ \A t \in Transports, r \in Revs : call[t].rev = r =>
       Sealed(r) = 0 /\ HasSession(bind[t]) /\ rev[r].task = sess[bind[t]].task
  /\ \A r \in Revs : Sealed(r) = 0 => \E t \in Transports : call[t].rev = r

(* The calls of a task come one after the other.                             *)
SeqInv == \A p, r \in Revs : p # r /\ rev[p].task = rev[r].task => Before(p, r) \/ Before(r, p)

(* A launch that is still on its own id calls after the whole conversation   *)
(* it resumed, and its calls are a chain already.                            *)
OnOwn(t) == launch[t].on /\ bind[t] = t /\ HasSession(t)
OrderInv ==
  \A t \in Transports, s \in Id : OnOwn(t) /\ launch[t].conv = s /\ s # t /\ HasSession(s) =>
    \A p, r \in Revs : rev[p].task = sess[s].task /\ rev[r].task = sess[t].task => Before(p, r)
LinkedInv ==
  \A t \in Transports : \A p, r \in Revs :
    (/\ OnOwn(t) /\ rev[p].task = sess[t].task /\ rev[r].task = sess[t].task
     /\ Before(p, r) /\ Sealed(r) # 0) => rev[r].parent # None

WalkInv ==
  \A p, r \in Revs :
    rev[p].task = rev[r].task /\ rev[p].forkable /\ Before(p, r) /\ Sealed(r) # 0 => rev[r].parent # None

RowsOrder == OpenInv /\ SeqInv /\ OrderInv /\ LinkedInv /\ WalkInv
Walks == NoReturn /\ ~disturbed => LeftInv /\ CallerInv /\ RowsOrder

(* Nobody else calls under the id of a launch that is on, nor under its       *)
(* conversation.                                                             *)
LEMMA OthersAway ==
  ASSUME NoReturn, CoreOK, Steady, NamesInv, CallerInv, NEW t \in Transports, NEW u \in Transports, u # t,
         launch[t].on, launch[u].on, launch[u].hook # "clear"
  PROVE  bind[u] # t /\ bind[u] # launch[t].conv
<1>1. bind[u] \in {u, launch[u].conv}
  BY DEF CallerInv
<1>2. launch[u].conv # launch[t].conv
  BY DEF NamesInv
<1>3. bind[u] # t /\ launch[t].conv # u
  BY DEF Steady, LentInv, Lent
<1> QED
  BY <1>1, <1>2, <1>3

(* A call that is not sealed is one of the launch bound to its session.       *)
LEMMA CallsOf ==
  ASSUME CoreOK, RevOK, QInv, CallerInv, OpenInv, NEW i \in Id, HasSession(i), NEW p \in Revs,
         rev[p].task = sess[i].task, Sealed(p) = 0
  PROVE  \E u \in Transports : /\ call[u].rev = p /\ bind[u] = i
                               /\ launch[u].on /\ launch[u].hook # "clear"
<1>1. PICK u \in Transports : call[u].rev = p
  BY DEF OpenInv
<1>2. HasSession(bind[u]) /\ rev[p].task = sess[bind[u]].task /\ bind[u] \in Id
  BY <1>1 DEF OpenInv, CoreOK
<1>3. bind[u] = i
  BY <1>2 DEF QInv, TaskInv
<1>4. call[u] # NoCall
  BY <1>1, NoRevision DEF NoCall
<1> QED
  BY <1>1, <1>3, <1>4 DEF CallerInv

(* The hook of a launch that moves finds it on its own id.                    *)
LEMMA HookFindsHome ==
  ASSUME CoreOK, LeftInv, NEW t \in Transports, HasSession(t) \/ pending[t] # "none" \/ launch[t].conv \in {None, t}
  PROVE  bind[t] = t
BY DEF LeftInv, Spent

LEMMA LeftStep ==
  ASSUME NoReturn, CoreOK, Steady, LeftInv, [Next]_vars, ~disturbed'
  PROVE  LeftInv'
<1> USE IdFacts
<1> SUFFICES ASSUME NEW t \in Transports, bind'[t] # t PROVE Spent(t)'
  BY DEF LeftInv
<1>1. CASE bind[t] # t
  BY <1>1, SpentStays DEF LeftInv
<1>2. CASE bind[t] = t
  <2>1. bind' # bind
    BY <1>2
  <2>2. PICK u \in Transports : HookConflict(u) \/ HookRebinds(u)
    BY <2>1 DEF Next, Launched, LaunchNew, LaunchResume, Quit, NewConversation, Called, Initialize, Take,
                Record, SealCall, Rewind, Hooked, HookSame, HookLost, Restart, vars
  <2>3. bind' \in {[bind EXCEPT ![u] = u], [bind EXCEPT ![u] = launch[u].conv]}
    BY <2>2 DEF HookConflict, HookRebinds
  <2>4. HookRebinds(t) /\ u = t
    BY <1>2, <2>2, <2>3 DEF CoreOK, HookConflict
  <2>5. /\ launch[t].on /\ launch[t].conv \in Id /\ launch'[t].conv = launch[t].conv
    BY <2>4, LaunchFacts DEF Steady, Hooked
  <2>6. launch[t].conv # t /\ RebindSession(t, launch[t].conv)
    BY <2>4 DEF HookRebinds
  <2>7. sess'[t] = NoSession /\ pending'[t] = "none"
    BY <2>5, <2>6, RebindTypes
  <2> QED
    BY <2>5, <2>6, <2>7 DEF Spent, HasSession
<1> QED
  BY <1>1, <1>2

LEMMA CallerStep ==
  ASSUME NoReturn, CoreOK, Steady, NamesInv, LeftInv, CallerInv, [Next]_vars, ~disturbed'
  PROVE  CallerInv'
<1> USE IdFacts
<1>0. /\ HookInv /\ OnInv /\ FreshInv /\ bind \in [Transports -> Id] /\ call \in [Transports -> CallRec]
  BY DEF Steady, CoreOK
<1>1. ASSUME NEW t \in Transports, bind' = bind, call' = call,
             \A u \in Transports : u # t => launch'[u] = launch[u],
             call[t] # NoCall => launch'[t].on /\ launch'[t].hook # "clear",
             launch'[t].on /\ launch'[t].hook # "clear" => bind[t] \in {t, launch'[t].conv}
      PROVE  CallerInv'
  BY <1>1 DEF CallerInv
<1>2. ASSUME NEW t \in Transports, Launched(t) PROVE CallerInv'
  <2>1. bind' = bind /\ call' = call /\ \A u \in Transports : u # t => launch'[u] = launch[u]
    BY <1>0, <1>2, LaunchFacts DEF Launched, LaunchNew, LaunchResume, Quit, NewConversation
  <2>2. CASE LaunchNew(t) \/ LaunchResume(t)
    <3>1. call[t] = NoCall /\ bind[t] = t
      BY <1>0, <2>2 DEF LaunchNew, LaunchResume, Fresh, FreshInv, NamesInv
    <3> QED
      BY <1>1, <2>1, <3>1
  <2>3. CASE Quit(t)
    <3>1. call[t] = NoCall /\ ~launch'[t].on
      BY <1>0, <2>3, LaunchFacts DEF Quit
    <3> QED
      BY <1>1, <2>1, <3>1
  <2>4. CASE NewConversation(t)
    <3>1. /\ launch[t].on /\ launch[t].hook = "none" /\ call[t] = NoCall
          /\ launch'[t].hook = "clear" \/ launch'[t].conv = launch[t].conv
      BY <1>0, <2>4, LaunchFacts
    <3>2. bind[t] \in {t, launch[t].conv}
      BY <3>1 DEF CallerInv
    <3> QED
      BY <1>1, <2>1, <3>1, <3>2
  <2> QED
    BY <1>2, <2>2, <2>3, <2>4 DEF Launched
<1>3. ASSUME UNCHANGED <<launch, bind>>, NEW t \in Transports,
             \A u \in Transports : u # t => call'[u] = call[u],
             (launch[t].on /\ launch[t].hook # "clear") \/ call'[t] = NoCall
      PROVE  CallerInv'
  BY <1>3 DEF CallerInv
<1>4. ASSUME NEW t \in Transports, Called(t) PROVE CallerInv'
  <2>1. UNCHANGED <<launch, bind>> /\ \A u \in Transports : u # t => call'[u] = call[u]
    BY <1>0, <1>4 DEF Called, Initialize, Take, Record, SealCall, Rewind
  <2>2. Take(t) => launch[t].on /\ launch[t].hook # "clear"
    BY DEF Take
  <2>3. Record(t) => launch[t].on /\ launch[t].hook # "clear"
    BY DEF Record, NoCall, CallerInv
  <2>4. SealCall(t) => call'[t] = NoCall
    BY <1>0 DEF SealCall
  <2>5. CASE Initialize(t) \/ Rewind(t)
    BY <2>5 DEF Initialize, Rewind, CallerInv
  <2> QED
    BY <1>3, <1>4, <2>1, <2>2, <2>3, <2>4, <2>5 DEF Called
<1>5. ASSUME NEW t \in Transports, Hooked(t) PROVE CallerInv'
  <2>1. /\ \A u \in Transports : u # t => launch'[u] = launch[u]
        /\ launch[t].on /\ launch'[t].on /\ launch'[t].hook = "none"
        /\ launch[t].conv \in Id /\ launch'[t].conv = launch[t].conv /\ call' = call
    BY <1>0, <1>5, LaunchFacts DEF Hooked, HookSame, HookConflict, HookRebinds, HookLost
  <2>2. \A u \in Transports : u # t => bind'[u] = bind[u]
    BY <1>0, <1>5 DEF Hooked, HookSame, HookConflict, HookRebinds, HookLost
  <2>3. bind'[t] \in {t, launch[t].conv}
    <3>1. HookSame(t) => bind'[t] = t
      BY HookFindsHome DEF HookSame
    <3>2. HookConflict(t) => bind'[t] = t
      BY <1>0 DEF HookConflict
    <3>3. HookRebinds(t) => bind'[t] = launch[t].conv
      BY <1>0 DEF HookRebinds
    <3> QED
      BY <1>5, <3>1, <3>2, <3>3 DEF Hooked, HookLost
  <2> QED
    BY <2>1, <2>2, <2>3 DEF CallerInv
<1>6. CASE UNCHANGED vars
  BY <1>6 DEF vars, CallerInv
<1> QED
  BY <1>2, <1>4, <1>5, <1>6 DEF Next, Restart

(* A step that leaves the rows and the sessions that have rows alone.         *)
LEMMA OrderStays ==
  ASSUME CoreOK, RowsOrder, rev' = rev,
         \A t \in Transports : call'[t].rev = call[t].rev,
         \A t \in Transports : call[t].rev \in Revs => bind'[t] = bind[t],
         \A i \in Id : HasSession(i) => HasSession(i)' /\ sess'[i].task = sess[i].task,
         \A i \in Id : HasSession(i)' /\ ~HasSession(i) => \A r \in Revs : rev[r].task # sess'[i].task,
         \A t \in Transports : OnOwn(t)' /\ HasSession(t) => OnOwn(t),
         \A t \in Transports, s \in Id :
           OnOwn(t)' /\ launch'[t].conv = s /\ s # t /\ HasSession(s) => launch[t].conv = s \/ ~HasSession(t)
  PROVE  RowsOrder'
<1> USE IdFacts
<1>1. Revs' = Revs /\ \A r \in Revs : Sealed(r)' = Sealed(r)
  BY DEF Revs, Sealed
<1>2. \A p, r \in Revs : Before(p, r)' <=> Before(p, r)
  BY DEF Before, Sealed, Created
<1>3. OpenInv'
  <2>1. ASSUME NEW t \in Transports, NEW r \in Revs, call'[t].rev = r
        PROVE  Sealed(r)' = 0 /\ HasSession(bind[t])' /\ rev'[r].task = sess'[bind'[t]].task /\ bind'[t] = bind[t]
    <3>1. Sealed(r) = 0 /\ HasSession(bind[t]) /\ rev[r].task = sess[bind[t]].task /\ bind'[t] = bind[t]
      BY <2>1 DEF RowsOrder, OpenInv
    <3>2. bind[t] \in Id
      BY DEF CoreOK
    <3>3. HasSession(bind[t])' /\ sess'[bind[t]].task = sess[bind[t]].task
      <4>1. PICK b \in Id : b = bind[t]
        BY <3>2
      <4>2. sess'[b] # NoSession /\ sess'[b].task = sess[b].task
        BY <3>1, <4>1 DEF HasSession
      <4> QED
        BY <3>1, <4>1, <4>2 DEF HasSession
    <3> QED
      BY <1>1, <3>1, <3>3
  <2>2. \A r \in Revs : Sealed(r)' = 0 => \E t \in Transports : call'[t].rev = r
    BY <1>1 DEF RowsOrder, OpenInv
  <2>3. \A t \in Transports, r \in Revs : call'[t].rev = r =>
          Sealed(r)' = 0 /\ sess'[bind'[t]] # NoSession /\ rev'[r].task = sess'[bind'[t]].task
    BY <2>1 DEF HasSession
  <2> QED
    BY <1>1, <2>2, <2>3 DEF OpenInv, HasSession
<1>4. SeqInv' /\ WalkInv'
  BY <1>1, <1>2 DEF RowsOrder, SeqInv, WalkInv
<1>5. ASSUME NEW t \in Transports, OnOwn(t)', NEW r \in Revs, rev[r].task = sess'[t].task
      PROVE  OnOwn(t) /\ HasSession(t) /\ rev[r].task = sess[t].task
  <2>1. HasSession(t)' /\ t \in Id
    BY <1>5 DEF OnOwn
  <2>2. HasSession(t)
    BY <1>5, <2>1
  <2> QED
    BY <1>5, <2>1, <2>2
<1>6. OrderInv'
  <2> SUFFICES ASSUME NEW t \in Transports, NEW s \in Id, OnOwn(t)', launch'[t].conv = s, s # t, HasSession(s)',
                      NEW p \in Revs, NEW r \in Revs, rev[p].task = sess'[s].task, rev[r].task = sess'[t].task
               PROVE  Before(p, r)
    BY <1>1, <1>2 DEF OrderInv
  <2>1. HasSession(s) /\ rev[p].task = sess[s].task
    <3>1. HasSession(s)
      OBVIOUS
    <3> QED
      BY <3>1
  <2>2. OnOwn(t) /\ HasSession(t) /\ rev[r].task = sess[t].task
    BY <1>5
  <2> QED
    BY <2>1, <2>2 DEF RowsOrder, OrderInv
<1>7. LinkedInv'
  <2> SUFFICES ASSUME NEW t \in Transports, OnOwn(t)', NEW p \in Revs, NEW r \in Revs,
                      rev[p].task = sess'[t].task, rev[r].task = sess'[t].task,
                      Before(p, r), Sealed(r) # 0
               PROVE  rev[r].parent # None
    BY <1>1, <1>2 DEF LinkedInv
  <2> QED
    BY <1>5 DEF RowsOrder, LinkedInv
<1> QED
  BY <1>3, <1>4, <1>6, <1>7 DEF RowsOrder

(* A new call comes after all those of its task, and after the conversation   *)
(* its launch resumed.                                                       *)
LEMMA RecordOrder ==
  ASSUME NoReturn, CoreOK, RevOK, RowsInv, StoreInv, Steady, NamesInv, QInv, CallerInv, RowsOrder, [Next]_vars, ~disturbed',
         CoreOK', NEW t \in Transports, Record(t)
  PROVE  RowsOrder'
<1> USE IdFacts
<1>0. PICK i \in Id, n \in Nat : i = bind[t] /\ n = Len(rev) + 1
  BY RevFacts DEF CoreOK
<1>1. /\ OnOrphanFallback(i) /\ call[t].id = i /\ call[t].rev = None
      /\ launch[t].on /\ launch[t].hook # "clear" /\ UNCHANGED <<launch, bind>>
  <2>1. call[t].id # None /\ call[t].rev = None /\ UNCHANGED <<launch, bind>>
    BY DEF Record
  <2>2. launch[t].on /\ launch[t].hook # "clear"
    BY <2>1 DEF CallerInv, NoCall
  <2> QED
    BY <1>0, <2>1, <2>2, RecordsUnderBinding
<1>2. /\ n \notin Revs /\ Revs' = Revs \cup {n}
      /\ \A r \in Revs : rev'[r] = rev[r]
      /\ Created(n)' = now + 1 /\ Sealed(n)' = 0 /\ rev'[n].forkable = FALSE
      /\ rev'[n].task = TaskOf(i)
      /\ call'[t].rev = n /\ \A u \in Transports : u # t => call'[u] = call[u]
  <2>1. n = Len(rev) + 1 /\ call[t].id = i
    BY <1>0, <1>1
  <2> QED
    BY <2>1, RecordRows
<1>3. /\ \A j \in Id : HasSession(j)' <=> HasSession(j) \/ j = i
      /\ \A j \in Id : HasSession(j) => sess'[j].task = sess[j].task
      /\ TaskInv' /\ sess'[i].task = TaskOf(i) /\ \A j \in Id : j # i => sess'[j] = sess[j]
  BY <1>0, <1>1, FallbackTypes, SessionOpens
<1>4. ~HasSession(i) => \A r \in Revs : rev[r].task # TaskOf(i)
  BY <1>0, OpensItsOwn DEF TaskOf
<1>5. HasSession(i) => TaskOf(i) = sess[i].task
  BY DEF TaskOf
<1>6. ASSUME NEW u \in Transports, u # t, launch[u].on, launch[u].hook # "clear"
      PROVE  bind[u] # i
  BY <1>0, <1>1, <1>6, OthersAway DEF CallerInv
<1>7. /\ \A r \in Revs : Sealed(r)' = Sealed(r) /\ Created(r)' = Created(r)
      /\ \A p, r \in Revs : Before(p, r)' <=> Before(p, r)
  BY <1>2 DEF Before, Sealed, Created
<1>8. \A p \in Revs : Sealed(p) # 0 => Before(p, n)'
  <2>1. \A p \in Revs : Sealed(p) < now + 1
    BY DEF RowsInv, CoreOK
  <2> QED
    BY <1>2, <1>7, <2>1 DEF Before
<1>9. \A p \in Revs : rev[p].task = TaskOf(i) => Sealed(p) # 0
  <2> SUFFICES ASSUME NEW p \in Revs, rev[p].task = TaskOf(i), Sealed(p) = 0 PROVE FALSE
    OBVIOUS
  <2>1. PICK u \in Transports : /\ call[u].rev = p /\ bind[u] = i
                                /\ launch[u].on /\ launch[u].hook # "clear"
    BY <1>4, <1>5, CallsOf DEF RowsOrder
  <2>2. u # t
    BY <1>1, <2>1, NoRevision
  <2> QED
    BY <1>6, <2>1, <2>2
<1>10. OpenInv'
  <2>1. ASSUME NEW u \in Transports, NEW r \in Revs', call'[u].rev = r
        PROVE  Sealed(r)' = 0 /\ HasSession(bind[u])' /\ rev'[r].task = sess'[bind[u]].task
    <3>1. CASE u = t
      <4>1. r = n
        BY <1>2, <2>1, <3>1
      <4>2. HasSession(i)'
        BY <1>3
      <4> QED
        BY <1>0, <1>1, <1>2, <1>3, <3>1, <4>1, <4>2 DEF HasSession, Sealed
    <3>2. CASE u # t /\ r \in Revs
      <4>1. PICK b \in Id : b = bind[u]
        BY DEF CoreOK
      <4>2. Sealed(r) = 0 /\ HasSession(b) /\ rev[r].task = sess[b].task
        BY <1>2, <2>1, <3>2, <4>1 DEF RowsOrder, OpenInv
      <4>3. HasSession(b)' /\ sess'[b].task = sess[b].task
        BY <1>3, <4>2
      <4> QED
        BY <1>1, <1>2, <1>7, <3>2, <4>1, <4>2, <4>3 DEF HasSession
    <3>3. CASE u # t /\ r = n
      <4>1. call[u].rev = n /\ call[u].rev \in {None} \cup Revs /\ n # None
        BY <1>0, <1>2, <2>1, <3>3, RevFacts, IdsAssumption DEF StoreInv
      <4> QED
        BY <1>2, <4>1
    <3> QED
      BY <1>2, <3>1, <3>2, <3>3
  <2>2. ASSUME NEW r \in Revs', Sealed(r)' = 0 PROVE \E u \in Transports : call'[u].rev = r
    <3>1. CASE r = n
      BY <1>2, <3>1
    <3>2. CASE r \in Revs
      <4>1. PICK u \in Transports : call[u].rev = r
        BY <1>7, <2>2, <3>2 DEF RowsOrder, OpenInv
      <4>2. u # t
        BY <1>1, <3>2, <4>1, NoRevision
      <4> QED
        BY <1>2, <4>1, <4>2
    <3> QED
      BY <1>2, <3>1, <3>2
  <2> QED
    BY <1>1, <2>1, <2>2 DEF OpenInv, HasSession
<1>11. SeqInv'
  <2> SUFFICES ASSUME NEW p \in Revs', NEW r \in Revs', p # r, rev'[p].task = rev'[r].task
               PROVE  Before(p, r)' \/ Before(r, p)'
    BY DEF SeqInv
  <2>1. CASE p \in Revs /\ r \in Revs
    BY <1>2, <1>7, <2>1 DEF RowsOrder, SeqInv
  <2>2. CASE p \in Revs /\ r = n
    <3>1. Before(p, n)'
      BY <1>2, <1>8, <1>9, <2>2
    <3> QED
      BY <2>2, <3>1 DEF Before, Sealed, Created
  <2>3. CASE r \in Revs /\ p = n
    <3>1. Before(r, n)'
      BY <1>2, <1>8, <1>9, <2>3
    <3> QED
      BY <2>3, <3>1 DEF Before, Sealed, Created
  <2> QED
    BY <1>2, <2>1, <2>2, <2>3
<1>12. ASSUME NEW x \in Transports, OnOwn(x)', NEW r \in Revs, rev[r].task = sess'[x].task
       PROVE  OnOwn(x) /\ rev[r].task = sess[x].task
  <2>1. HasSession(x)' /\ launch[x].on /\ bind[x] = x
    BY <1>1, <1>12 DEF OnOwn
  <2>2. HasSession(x)
    BY <1>3, <1>4, <1>12, <2>1
  <2> QED
    BY <1>3, <1>12, <2>1, <2>2 DEF OnOwn
<1>13. OrderInv'
  <2> SUFFICES ASSUME NEW x \in Transports, NEW s \in Id, OnOwn(x)', launch[x].conv = s, s # x, HasSession(s)',
                      NEW p \in Revs', NEW r \in Revs', rev'[p].task = sess'[s].task, rev'[r].task = sess'[x].task
               PROVE  Before(p, r)'
    BY <1>1 DEF OrderInv
  <2>1. launch[x].on /\ bind[x] = x /\ HasSession(x)'
    BY <1>1 DEF OnOwn
  <2>2. i # s
    BY <1>0, <1>1, <2>1, OthersAway
  <2>3. HasSession(s) /\ sess'[s] = sess[s]
    BY <1>3, <2>2
  <2>4. p # n
    <3>1. sess'[i].task # sess'[s].task
      BY <1>3, <2>2 DEF TaskInv
    <3> QED
      BY <1>2, <1>3, <3>1
  <2>5. p \in Revs /\ rev[p].task = sess[s].task
    BY <1>2, <2>3, <2>4
  <2>6. CASE r \in Revs
    <3>1. OnOwn(x) /\ rev[r].task = sess[x].task
      BY <1>2, <1>12, <2>6
    <3>2. Before(p, r)
      BY <2>3, <2>5, <2>6, <3>1 DEF RowsOrder, OrderInv
    <3> QED
      BY <1>7, <2>5, <2>6, <3>2
  <2>7. CASE r = n
    <3>1. Sealed(p) # 0
      <4> SUFFICES ASSUME Sealed(p) = 0 PROVE FALSE
        OBVIOUS
      <4>1. PICK u \in Transports : /\ call[u].rev = p /\ bind[u] = s
                                    /\ launch[u].on /\ launch[u].hook # "clear"
        BY <2>3, <2>5, CallsOf DEF RowsOrder
      <4>2. u # x
        BY <2>1, <4>1
      <4> QED
        BY <2>1, <4>1, <4>2, OthersAway
    <3>2. Before(p, n)'
      BY <1>8, <2>5, <3>1
    <3> QED
      BY <2>7, <3>2 DEF Before, Sealed, Created
  <2> QED
    BY <1>2, <2>6, <2>7
<1>14. LinkedInv'
  <2> SUFFICES ASSUME NEW x \in Transports, OnOwn(x)', NEW p \in Revs', NEW r \in Revs',
                      rev'[p].task = sess'[x].task, rev'[r].task = sess'[x].task,
                      Before(p, r)', Sealed(r)' # 0
               PROVE  rev'[r].parent # None
    BY DEF LinkedInv
  <2>1. p # n /\ r # n
    BY <1>2 DEF Before, Sealed
  <2>2. p \in Revs /\ r \in Revs /\ rev'[r] = rev[r] /\ rev'[p] = rev[p] /\ Before(p, r) /\ Sealed(r) # 0
    BY <1>2, <1>7, <2>1
  <2> QED
    BY <1>12, <2>2 DEF RowsOrder, LinkedInv
<1>15. WalkInv'
  <2> SUFFICES ASSUME NEW p \in Revs', NEW r \in Revs', rev'[p].task = rev'[r].task, rev'[p].forkable,
                      Before(p, r)', Sealed(r)' # 0
               PROVE  rev'[r].parent # None
    BY DEF WalkInv
  <2>1. p # n /\ r # n
    BY <1>2 DEF Before, Sealed
  <2>2. p \in Revs /\ r \in Revs /\ rev'[r] = rev[r] /\ rev'[p] = rev[p] /\ Before(p, r) /\ Sealed(r) # 0
    BY <1>2, <1>7, <2>1
  <2> QED
    BY <2>2 DEF RowsOrder, WalkInv
<1> QED
  BY <1>10, <1>11, <1>13, <1>14, <1>15 DEF RowsOrder

(* A call that is sealed takes its parent from the calls before it.           *)
LEMMA SealOrder ==
  ASSUME NoReturn, CoreOK, RevOK, RowsInv, StoreInv, Steady, NamesInv, QInv, CallerInv, RowsOrder,
         NEW t \in Transports, SealCall(t)
  PROVE  RowsOrder'
<1> USE IdFacts
<1>0. PICK c : c = call[t].rev
  OBVIOUS
<1>1. UNCHANGED <<launch, bind, sess>>
  BY DEF SealCall
<1>2. /\ c \in Revs /\ Revs' = Revs
      /\ \A r \in Revs \ {c} : rev'[r] = rev[r]
      /\ rev'[c].task = rev[c].task /\ Created(c)' = Created(c) /\ Sealed(c)' = now + 1
      /\ rev'[c].parent = ResolveParent(c)
      /\ call'[t] = NoCall /\ \A u \in Transports : u # t => call'[u] = call[u]
  BY <1>0, SealRows
<1>3. /\ \A r \in Revs : rev'[r].task = rev[r].task /\ Created(r)' = Created(r)
      /\ \A r \in Revs : r # c => Sealed(r)' = Sealed(r)
  BY <1>2 DEF Created, Sealed
<1>4. /\ Sealed(c) = 0 /\ HasSession(bind[t]) /\ rev[c].task = sess[bind[t]].task
      /\ launch[t].on /\ launch[t].hook # "clear" /\ bind[t] \in Id
  <2>1. call[t] # NoCall
    BY <1>0, <1>2, NoRevision DEF NoCall
  <2> QED
    BY <1>0, <1>2, <2>1 DEF RowsOrder, OpenInv, CallerInv, CoreOK
<1>5. \A p, r \in Revs : Before(p, r)' <=> Before(p, r)
  <2> SUFFICES ASSUME NEW p \in Revs, NEW r \in Revs PROVE Before(p, r)' <=> Before(p, r)
    OBVIOUS
  <2>1. CASE p = c
    <3>1. now + 1 > Created(r) /\ now + 1 # 0
      BY DEF RowsInv, CoreOK
    <3>2. Created(r)' = Created(r) /\ Sealed(p)' = now + 1 /\ Sealed(p) = 0
      BY <1>2, <1>3, <1>4, <2>1 DEF Sealed
    <3>3. Created(r) \in Nat /\ now \in Nat
      BY DEF RowsInv, CoreOK
    <3> QED
      BY <3>1, <3>2, <3>3 DEF Before
  <2>2. CASE p # c
    BY <1>3, <2>2 DEF Before
  <2> QED
    BY <2>1, <2>2
<1>6. \A u \in Transports : u # t => call[u].rev # c
  <2> SUFFICES ASSUME NEW u \in Transports, u # t, call[u].rev = c PROVE FALSE
    OBVIOUS
  <2>1. HasSession(bind[u]) /\ sess[bind[u]].task = sess[bind[t]].task /\ bind[u] \in Id
    BY <1>2, <1>4 DEF RowsOrder, OpenInv, CoreOK
  <2>2. bind[u] = bind[t]
    BY <1>4, <2>1 DEF QInv, TaskInv
  <2>3. launch[u].on /\ launch[u].hook # "clear"
    BY <1>2, NoRevision DEF CallerInv, NoCall
  <2>4. bind[t] \in {t, launch[t].conv}
    BY <1>4 DEF CallerInv
  <2> QED
    BY <1>4, <2>2, <2>3, <2>4, OthersAway
<1>7. OpenInv'
  <2>1. ASSUME NEW u \in Transports, NEW r \in Revs, call'[u].rev = r
        PROVE  Sealed(r)' = 0 /\ sess'[bind'[u]] # NoSession /\ rev'[r].task = sess'[bind'[u]].task
    <3>1. u # t /\ call[u].rev = r
      BY <1>2, <2>1, NoRevision DEF NoCall
    <3>2. r # c
      BY <1>6, <3>1
    <3>3. Sealed(r) = 0 /\ HasSession(bind[u]) /\ rev[r].task = sess[bind[u]].task
      BY <3>1 DEF RowsOrder, OpenInv
    <3> QED
      BY <1>1, <1>3, <3>2, <3>3 DEF HasSession
  <2>2. ASSUME NEW r \in Revs, Sealed(r)' = 0 PROVE \E u \in Transports : call'[u].rev = r
    <3>1. r # c
      BY <1>2, <2>2 DEF Sealed, CoreOK
    <3>2. PICK u \in Transports : call[u].rev = r
      BY <1>3, <2>2, <3>1 DEF RowsOrder, OpenInv
    <3>3. u # t
      BY <1>0, <3>1, <3>2
    <3> QED
      BY <1>2, <3>2, <3>3
  <2> QED
    BY <1>2, <2>1, <2>2 DEF OpenInv, HasSession
<1>8. SeqInv'
  BY <1>2, <1>3, <1>5 DEF RowsOrder, SeqInv
<1>9. \A x \in Transports : OnOwn(x)' <=> OnOwn(x)
  BY <1>1 DEF OnOwn, HasSession
<1>10. OrderInv'
  <2> SUFFICES ASSUME NEW x \in Transports, NEW s \in Id, OnOwn(x), launch[x].conv = s, s # x, HasSession(s),
                      NEW p \in Revs, NEW r \in Revs, rev[p].task = sess[s].task, rev[r].task = sess[x].task
               PROVE  Before(p, r)
    BY <1>1, <1>2, <1>3, <1>5, <1>9 DEF OrderInv, HasSession
  <2> QED
    BY DEF RowsOrder, OrderInv
<1>11. ASSUME NEW p \in Revs, rev[p].task = rev[c].task, Before(p, c) PROVE rev'[c].parent # None
  BY <1>2, <1>11, ResolveFacts DEF Before
<1>12. LinkedInv'
  <2> SUFFICES ASSUME NEW x \in Transports, NEW p \in Revs, NEW r \in Revs, OnOwn(x)',
                      rev'[p].task = sess'[x].task, rev'[r].task = sess'[x].task, Before(p, r)', Sealed(r)' # 0
               PROVE  rev'[r].parent # None
    BY <1>2 DEF LinkedInv
  <2>1. OnOwn(x) /\ rev[p].task = sess[x].task /\ rev[r].task = sess[x].task /\ Before(p, r)
    BY <1>1, <1>3, <1>5, <1>9
  <2>2. CASE r = c
    BY <1>11, <2>1, <2>2
  <2>3. CASE r # c
    BY <1>2, <1>3, <2>1, <2>3 DEF RowsOrder, LinkedInv
  <2> QED
    BY <2>2, <2>3
<1>13. WalkInv'
  <2> SUFFICES ASSUME NEW p \in Revs, NEW r \in Revs, rev'[p].task = rev'[r].task, rev'[p].forkable,
                      Before(p, r)', Sealed(r)' # 0
               PROVE  rev'[r].parent # None
    BY <1>2 DEF WalkInv
  <2>1. rev[p].task = rev[r].task /\ Before(p, r)
    BY <1>3, <1>5
  <2>2. CASE r = c
    BY <1>11, <2>1, <2>2
  <2>3. CASE r # c
    <3>1. p # c
      BY <1>4, <2>1 DEF Before
    <3> QED
      BY <1>2, <1>3, <2>1, <2>3, <3>1 DEF RowsOrder, WalkInv
  <2> QED
    BY <2>2, <2>3
<1> QED
  BY <1>7, <1>8, <1>10, <1>12, <1>13 DEF RowsOrder

(* A hook's transaction: the rows of the launch's own session become those of *)
(* the conversation.                                                         *)
LEMMA RebindOrder ==
  ASSUME NoReturn, CoreOK, RevOK, RowsInv, Steady, NamesInv, QInv, LeftInv, CallerInv, RowsOrder,
         NEW t \in Transports, HookRebinds(t)
  PROVE  RowsOrder'
<1> USE IdFacts
<1>0. PICK s \in Id : s = launch[t].conv
  BY DEF CoreOK, Steady, HookInv, OnInv, HookRebinds, LaunchRec
<1>1. /\ s # t /\ RebindSession(t, s) /\ t \in Id /\ launch[t].on /\ bind'[t] = s /\ launch'[t].conv = s
      /\ call' = call
      /\ \A u \in Transports : u # t => launch'[u] = launch[u] /\ bind'[u] = bind[u]
  <2>1. s # t /\ RebindSession(t, s) /\ bind' = [bind EXCEPT ![t] = s] /\ call' = call
    BY <1>0 DEF HookRebinds
  <2>2. launch[t].on /\ launch'[t].conv = s /\ \A u \in Transports : u # t => launch'[u] = launch[u]
    BY <1>0, LaunchFacts DEF Hooked, Steady
  <2> QED
    BY <2>1, <2>2 DEF CoreOK
<1>2. /\ \A j \in Id \ {s, t} : sess'[j] = sess[j]
      /\ sess'[t] = NoSession
      /\ \A j \in Id : HasSession(j)' <=> sess'[j] # NoSession
  BY <1>1, RebindTypes DEF HasSession
<1>3. ASSUME NEW u \in Transports, u # t, launch[u].on, launch[u].hook # "clear"
      PROVE  bind[u] # t /\ bind[u] # s
  BY <1>0, <1>1, <1>3, OthersAway
<1>4. ASSUME NEW x \in Transports, OnOwn(x)'
      PROVE  /\ x # t /\ x # s /\ launch'[x].conv # s /\ launch'[x].conv = launch[x].conv
             /\ OnOwn(x) /\ sess'[x] = sess[x]
  <2>1. launch'[x].on /\ bind'[x] = x /\ sess'[x] # NoSession
    BY <1>2, <1>4 DEF OnOwn
  <2>2. x # t
    BY <1>1, <2>1
  <2>3. x # s
    BY <1>0, <1>1, <2>1, <2>2 DEF Steady, LentInv, Lent
  <2>4. launch[x].conv # s
    BY <1>0, <1>1, <2>1, <2>2 DEF NamesInv
  <2>5. sess'[x] = sess[x]
    BY <1>2, <2>2, <2>3
  <2> QED
    BY <1>1, <2>1, <2>2, <2>3, <2>4, <2>5 DEF OnOwn, HasSession
<1>5. ASSUME NEW u \in Transports, NEW r \in Revs, call[u].rev = r
      PROVE  /\ launch[u].on /\ launch[u].hook # "clear"
             /\ Sealed(r) = 0 /\ HasSession(bind[u]) /\ rev[r].task = sess[bind[u]].task /\ bind[u] \in Id
  <2>1. call[u] # NoCall
    BY <1>5, NoRevision DEF NoCall
  <2> QED
    BY <1>5, <2>1 DEF RowsOrder, OpenInv, CallerInv, CoreOK
<1>6. CASE MovePending(t, s)
  <2>1. rev' = rev /\ ~HasSession(t)
    BY <1>6 DEF MovePending
  <2>2. \A i \in Id : /\ HasSession(i) => HasSession(i)' /\ sess'[i].task = sess[i].task
                      /\ HasSession(i)' => HasSession(i)
    BY <1>1, <1>2, <2>1, RebindTypes DEF HasSession, SessRec, NoSession
  <2>3. ASSUME NEW u \in Transports, call[u].rev \in Revs PROVE bind'[u] = bind[u]
    <3>1. launch[u].on /\ launch[u].hook # "clear" /\ HasSession(bind[u])
      BY <1>5, <2>3
    <3>2. CASE u = t
      BY <1>0, <1>1, <2>1, <3>1, <3>2 DEF CallerInv
    <3> QED
      BY <1>1, <3>2
  <2> QED
    BY <1>1, <1>4, <2>1, <2>2, <2>3, OrderStays
<1>7. CASE HasSession(t)
  <2>1. bind[t] = t /\ OnOwn(t)
    BY <1>1, <1>7, HookFindsHome DEF OnOwn
  <2>2. ASSUME NEW u \in Transports, u # t, NEW r \in Revs, call[u].rev = r
        PROVE  /\ bind'[u] = bind[u] /\ sess'[bind[u]] = sess[bind[u]] /\ bind[u] # t /\ bind[u] # s
    BY <1>1, <1>2, <1>3, <1>5, <2>2
  <2>3. CASE Promote(t, s)
    <3>1. rev' = rev /\ sess'[s] = sess[t] /\ ~HasSession(s)
      <4>1. rev' = rev /\ ~HasSession(s)
        BY <2>3 DEF Promote
      <4> QED
        BY <1>1, <1>7, <4>1, RebindTypes
    <3>2. /\ Revs' = Revs /\ \A r \in Revs : Sealed(r)' = Sealed(r)
          /\ \A p, r \in Revs : Before(p, r)' <=> Before(p, r)
      BY <3>1 DEF Revs, Before, Sealed, Created
    <3>3. SeqInv' /\ WalkInv'
      BY <3>1, <3>2 DEF RowsOrder, SeqInv, WalkInv
    <3>4. OpenInv'
      <4>1. ASSUME NEW u \in Transports, NEW r \in Revs, call[u].rev = r
            PROVE  sess'[bind'[u]] # NoSession /\ rev[r].task = sess'[bind'[u]].task
        <5>1. CASE u = t
          BY <1>1, <1>5, <1>7, <2>1, <3>1, <4>1, <5>1 DEF HasSession
        <5>2. CASE u # t
          BY <1>5, <2>2, <4>1, <5>2 DEF HasSession
        <5> QED
          BY <5>1, <5>2
      <4>2. \A u \in Transports, r \in Revs : call'[u].rev = r =>
              Sealed(r)' = 0 /\ sess'[bind'[u]] # NoSession /\ rev'[r].task = sess'[bind'[u]].task
        BY <1>1, <1>5, <3>1, <3>2, <4>1
      <4>3. \A r \in Revs : Sealed(r)' = 0 => \E u \in Transports : call'[u].rev = r
        BY <1>1, <3>2 DEF RowsOrder, OpenInv
      <4> QED
        BY <3>2, <4>2, <4>3 DEF OpenInv, HasSession
    <3>5. OrderInv'
      <4> SUFFICES ASSUME NEW x \in Transports, NEW y \in Id, OnOwn(x)', launch'[x].conv = y, y # x, HasSession(y)',
                          NEW p \in Revs, NEW r \in Revs, rev[p].task = sess'[y].task, rev[r].task = sess'[x].task
                   PROVE  Before(p, r)
        BY <3>1, <3>2 DEF OrderInv
      <4>1. y # t /\ y # s
        BY <1>2, <1>4
      <4>2. HasSession(y) /\ sess'[y] = sess[y]
        BY <1>2, <4>1 DEF HasSession
      <4> QED
        BY <1>4, <4>2 DEF RowsOrder, OrderInv
    <3>6. LinkedInv'
      <4> SUFFICES ASSUME NEW x \in Transports, NEW p \in Revs, NEW r \in Revs, OnOwn(x)',
                          rev[p].task = sess'[x].task, rev[r].task = sess'[x].task, Before(p, r), Sealed(r) # 0
                   PROVE  rev[r].parent # None
        BY <3>1, <3>2 DEF LinkedInv
      <4> QED
        BY <1>4 DEF RowsOrder, LinkedInv
    <3> QED
      BY <3>3, <3>4, <3>5, <3>6 DEF RowsOrder
  <2>4. CASE Merge(t, s)
    <3>0. PICK a \in Id, b \in Id : a = sess[t].task /\ b = sess[s].task
      BY <1>1, SessFacts, <2>4 DEF Merge, SessRec
    <3>1. HasSession(s) /\ a # b /\ rev' = Joined(a, b)
      BY <1>1, <2>4, <3>0 DEF Merge, QInv, TaskInv
    <3>2. sess'[s].task = b /\ sess'[s] # NoSession
      BY <1>1, <3>0, <3>1, RebindTypes, SessFacts
    <3>3. /\ Revs' = Revs
          /\ \A r \in Revs : rev'[r].task = IF rev[r].task = a THEN b ELSE rev[r].task
      BY <3>1, JoinMoves
    <3>4. /\ \A r \in Revs : SameStamps(r)
          /\ \A r \in Revs : rev[r].parent # None => rev'[r].parent # None
          /\ \A r, p \in Revs :
               rev[r].task = a /\ rev[r].parent = None /\ rev[p].task = b /\ rev[p].forkable =>
                 \/ rev'[r].parent # None
                 \/ \E f \in Revs : /\ f # r /\ rev[f].task = a /\ rev[f].parent = None
                                    /\ Created(f) <= Created(r)
      BY <3>1, JoinRows
    <3>5. /\ \A r \in Revs : Sealed(r)' = Sealed(r) /\ rev'[r].forkable = rev[r].forkable
          /\ \A p, r \in Revs : Before(p, r)' <=> Before(p, r)
      BY <3>4 DEF SameStamps, Before
    <3>6. \A p, r \in Revs : rev[p].task = b /\ rev[r].task = a => Before(p, r)
      BY <1>0, <1>1, <2>1, <3>0, <3>1 DEF RowsOrder, OrderInv
    <3>7. \A i \in Id : HasSession(i) /\ i # t /\ i # s => sess[i].task # a /\ sess[i].task # b
      BY <1>1, <1>7, <3>0, <3>1 DEF QInv, TaskInv
    <3>8. \A p, r \in Revs : Before(p, r) => ~Before(r, p) /\ (Sealed(r) # 0 => Created(p) < Created(r))
      <4> SUFFICES ASSUME NEW p \in Revs, NEW r \in Revs, Before(p, r)
                   PROVE  ~Before(r, p) /\ (Sealed(r) # 0 => Created(p) < Created(r))
        OBVIOUS
      <4>1. /\ Sealed(p) # 0 /\ Sealed(p) < Created(r) /\ Created(p) < Sealed(p)
            /\ Sealed(r) # 0 => Created(r) < Sealed(r)
        BY DEF Before, RowsInv
      <4>2. Sealed(p) \in Nat /\ Created(p) \in Nat /\ Sealed(r) \in Nat /\ Created(r) \in Nat
        BY DEF RowsInv, CoreOK
      <4> QED
        BY <4>1, <4>2 DEF Before
    <3>9. OpenInv'
      <4>1. ASSUME NEW u \in Transports, NEW r \in Revs, call[u].rev = r
            PROVE  sess'[bind'[u]] # NoSession /\ rev'[r].task = sess'[bind'[u]].task
        <5>1. CASE u = t
          BY <1>1, <1>5, <2>1, <3>0, <3>2, <3>3, <4>1, <5>1
        <5>2. CASE u # t
          <6>1. rev[r].task # a /\ rev[r].task = sess[bind[u]].task /\ HasSession(bind[u])
            BY <1>5, <2>2, <3>7, <4>1, <5>2
          <6> QED
            BY <2>2, <3>3, <4>1, <5>2, <6>1 DEF HasSession
        <5> QED
          BY <5>1, <5>2
      <4>2. \A u \in Transports, r \in Revs : call'[u].rev = r =>
              Sealed(r)' = 0 /\ sess'[bind'[u]] # NoSession /\ rev'[r].task = sess'[bind'[u]].task
        BY <1>1, <1>5, <3>5, <4>1
      <4>3. \A r \in Revs : Sealed(r)' = 0 => \E u \in Transports : call'[u].rev = r
        BY <1>1, <3>5 DEF RowsOrder, OpenInv
      <4> QED
        BY <3>3, <4>2, <4>3 DEF OpenInv, HasSession
    <3>10. SeqInv'
      <4> SUFFICES ASSUME NEW p \in Revs, NEW r \in Revs, p # r, rev'[p].task = rev'[r].task
                   PROVE  Before(p, r) \/ Before(r, p)
        BY <3>3, <3>5 DEF SeqInv
      <4>1. CASE rev[p].task = rev[r].task
        BY <4>1 DEF RowsOrder, SeqInv
      <4>2. CASE rev[p].task # rev[r].task
        BY <3>3, <3>6, <4>2
      <4> QED
        BY <4>1, <4>2
    <3>11. ASSUME NEW x \in Id, HasSession(x), x # t, x # s, NEW r \in Revs, rev'[r].task = sess[x].task
           PROVE  rev[r].task = sess[x].task
      BY <3>3, <3>7, <3>11
    <3>12. OrderInv'
      <4> SUFFICES ASSUME NEW x \in Transports, NEW y \in Id, OnOwn(x)', launch'[x].conv = y, y # x, HasSession(y)',
                          NEW p \in Revs, NEW r \in Revs, rev'[p].task = sess'[y].task, rev'[r].task = sess'[x].task
                   PROVE  Before(p, r)
        BY <3>3, <3>5 DEF OrderInv
      <4>1. /\ x # t /\ x # s /\ launch[x].conv = y /\ OnOwn(x) /\ sess'[x] = sess[x] /\ y # s
        BY <1>4
      <4>2. y # t /\ HasSession(y) /\ sess'[y] = sess[y]
        BY <1>2, <4>1 DEF HasSession
      <4>3. rev[p].task = sess[y].task /\ rev[r].task = sess[x].task
        BY <3>11, <4>1, <4>2 DEF OnOwn
      <4> QED
        BY <4>1, <4>2, <4>3 DEF RowsOrder, OrderInv
    <3>13. LinkedInv'
      <4> SUFFICES ASSUME NEW x \in Transports, NEW p \in Revs, NEW r \in Revs, OnOwn(x)',
                          rev'[p].task = sess'[x].task, rev'[r].task = sess'[x].task, Before(p, r), Sealed(r) # 0
                   PROVE  rev'[r].parent # None
        BY <3>3, <3>5 DEF LinkedInv
      <4>1. x # t /\ x # s /\ OnOwn(x) /\ sess'[x] = sess[x]
        BY <1>4
      <4>2. rev[p].task = sess[x].task /\ rev[r].task = sess[x].task
        BY <3>11, <4>1 DEF OnOwn
      <4> QED
        BY <3>4, <4>1, <4>2 DEF RowsOrder, LinkedInv
    <3>14. WalkInv'
      <4> SUFFICES ASSUME NEW p \in Revs, NEW r \in Revs, rev'[p].task = rev'[r].task, rev[p].forkable,
                          Before(p, r), Sealed(r) # 0, rev[r].parent = None
                   PROVE  rev'[r].parent # None
        BY <3>3, <3>4, <3>5 DEF WalkInv
      <4>1. rev[p].task # rev[r].task
        BY DEF RowsOrder, WalkInv
      <4>2. ~(rev[p].task = a /\ rev[r].task = b)
        BY <3>6, <3>8
      <4>3. rev[p].task = b /\ rev[r].task = a
        BY <3>3, <4>1, <4>2
      <4>4. ASSUME NEW f \in Revs, f # r, rev[f].task = a, rev[f].parent = None, Created(f) <= Created(r)
            PROVE  FALSE
        <5>1. Before(f, r) \/ Before(r, f)
          BY <4>3, <4>4 DEF RowsOrder, SeqInv
        <5>2. ~Before(f, r)
          BY <2>1, <3>0, <4>3, <4>4 DEF RowsOrder, LinkedInv
        <5>3. Sealed(r) < Created(f) /\ Created(r) < Sealed(r)
          BY <5>1, <5>2 DEF Before, RowsInv
        <5>4. Sealed(r) \in Nat /\ Created(r) \in Nat /\ Created(f) \in Nat
          BY DEF RowsInv, CoreOK
        <5> QED
          BY <4>4, <5>3, <5>4
      <4> QED
        BY <3>4, <4>3, <4>4
    <3> QED
      BY <3>9, <3>10, <3>12, <3>13, <3>14 DEF RowsOrder
  <2> QED
    BY <1>1, <1>6, <2>3, <2>4 DEF RebindSession
<1> QED
  <2>1. Promote(t, s) \/ Merge(t, s) => HasSession(t)
    BY DEF Promote, Merge
  <2> QED
    BY <1>1, <1>6, <1>7, <2>1 DEF RebindSession

LEMMA WalksStep ==
  ASSUME NoReturn, CoreOK, RevOK, RowsInv, StoreInv, Steady, NamesInv, QInv, LeftInv, CallerInv, RowsOrder,
         [Next]_vars, ~disturbed', CoreOK'
  PROVE  RowsOrder'
<1> USE IdFacts
<1>0. /\ HookInv /\ OnInv /\ FreshInv /\ bind \in [Transports -> Id] /\ call \in [Transports -> CallRec]
  BY DEF Steady, CoreOK
<1>1. ASSUME UNCHANGED <<rev, sess, bind>>, \A u \in Transports : call'[u].rev = call[u].rev,
             \A u \in Transports : launch'[u].on /\ HasSession(u) => launch[u].on,
             \A u \in Transports : \/ ~launch'[u].on \/ ~HasSession(u)
                                   \/ launch'[u].conv = launch[u].conv
                                   \/ launch'[u].conv \in Id /\ ~HasSession(launch'[u].conv)
      PROVE  RowsOrder'
  BY <1>1, OrderStays DEF OnOwn, HasSession
<1>2. ASSUME NEW t \in Transports, Launched(t) PROVE RowsOrder'
  <2>1. UNCHANGED <<rev, sess, bind, call>>
    BY <1>2 DEF Launched, LaunchNew, LaunchResume, Quit, NewConversation, store
  <2>2. \A u \in Transports : u # t => launch'[u] = launch[u]
    BY <1>0, <1>2, LaunchFacts
  <2>3. CASE LaunchNew(t) \/ LaunchResume(t)
    <3>1. ~HasSession(t)
      BY <2>3 DEF LaunchNew, LaunchResume, Fresh, QInv, PendingInv
    <3> QED
      BY <1>1, <2>1, <2>2, <3>1
  <2>4. CASE Quit(t)
    <3>1. ~launch'[t].on
      BY <1>0, <2>4, LaunchFacts
    <3> QED
      BY <1>1, <2>1, <2>2, <3>1
  <2>5. CASE NewConversation(t)
    <3>1. launch[t].on /\ (launch'[t].conv = launch[t].conv \/ launch'[t].conv \in Conversations \ known)
      BY <1>0, <2>5, LaunchFacts
    <3>2. \A i \in Conversations \ known : i \in Id /\ ~HasSession(i)
      BY DEF NamesInv
    <3> QED
      BY <1>1, <2>1, <2>2, <3>1, <3>2
  <2> QED
    BY <1>2, <2>3, <2>4, <2>5 DEF Launched
<1>3. ASSUME NEW t \in Transports, Initialize(t) PROVE RowsOrder'
  <2>1. PICK i \in Id : i = bind[t]
    BY <1>0
  <2>2. OnMcpInitialized(i) /\ UNCHANGED <<launch, bind, rev, call>>
    BY <1>3, <2>1 DEF Initialize
  <2>3. /\ sess'[i] \in SessRec /\ sess'[i].task = TaskOf(i) /\ tasks' = tasks \cup {TaskOf(i)}
        /\ \A j \in Id : j # i => sess'[j] = sess[j]
    BY <2>2, InitializeTypes
  <2>4. /\ \A j \in Id : HasSession(j)' <=> HasSession(j) \/ j = i
        /\ \A j \in Id : HasSession(j) => sess'[j].task = sess[j].task
    BY <2>1, <2>3, SessionOpens
  <2>5. ~HasSession(i) => \A r \in Revs : rev[r].task # sess'[i].task
    BY <2>1, <2>3, OpensItsOwn DEF TaskOf
  <2> QED
    BY <2>2, <2>4, <2>5, OrderStays DEF OnOwn
<1>4. ASSUME NEW t \in Transports, Take(t) \/ Rewind(t) PROVE RowsOrder'
  <2>1. UNCHANGED <<launch, bind, sess, rev>>
    BY <1>4 DEF Take, Rewind, store
  <2>2. \A u \in Transports : call'[u].rev = call[u].rev
    <3>1. Take(t) => call' = [call EXCEPT ![t] = [call[t] EXCEPT !.id = bind[t]]]
      BY DEF Take
    <3>2. [call[t] EXCEPT !.id = bind[t]].rev = call[t].rev
      BY <1>0 DEF CallRec
    <3> QED
      BY <1>0, <1>4, <3>1, <3>2 DEF Rewind
  <2> QED
    BY <1>1, <2>1, <2>2
<1>5. ASSUME NEW t \in Transports, Record(t) PROVE RowsOrder'
  BY <1>5, RecordOrder
<1>6. ASSUME NEW t \in Transports, SealCall(t) PROVE RowsOrder'
  BY <1>6, SealOrder
<1>7. ASSUME NEW t \in Transports, HookSame(t) \/ HookConflict(t) PROVE RowsOrder'
  <2>1. /\ \A u \in Transports : u # t => launch'[u] = launch[u]
        /\ launch[t].on /\ launch'[t].conv = launch[t].conv
    BY <1>0, <1>7, LaunchFacts DEF Hooked
  <2>2. UNCHANGED <<sess, rev, call>>
    BY <1>7 DEF HookSame, HookConflict, store
  <2>3. bind' = bind
    <3>1. HookConflict(t) => bind[t] = t
      BY HookFindsHome DEF HookConflict, ActorConflict
    <3> QED
      BY <1>0, <1>7, <3>1 DEF HookSame, HookConflict
  <2> QED
    BY <1>1, <2>1, <2>2, <2>3
<1>8. ASSUME NEW t \in Transports, HookRebinds(t) PROVE RowsOrder'
  BY <1>8, RebindOrder
<1>9. CASE UNCHANGED vars
  BY <1>1, <1>9 DEF vars
<1> QED
  BY <1>2, <1>3, <1>4, <1>5, <1>6, <1>7, <1>8, <1>9 DEF Next, Called, Hooked, HookLost, Restart

(* Nothing that went wrong is forgotten.                                     *)
LEMMA Undisturbed ==
  ASSUME CoreOK, [Next]_vars, ~disturbed'
  PROVE  ~disturbed
BY DEF CoreOK, Next, Launched, LaunchNew, LaunchResume, Quit, NewConversation, Called, Initialize, Take,
       Record, SealCall, Rewind, Hooked, HookSame, HookConflict, HookRebinds, HookLost, Restart, vars

-----------------------------------------------------------------------------
(* Theorems. *)

LEMMA InitInv == Init => IInv
<1> SUFFICES ASSUME Init PROVE IInv
  OBVIOUS
<1> USE IdFacts DEF Init
<1>1. CoreOK
  <2>1. Off \in LaunchRec /\ NoCall \in CallRec /\ Earlier \subseteq Id
    BY IdsAssumption DEF Off, LaunchRec, Hook, NoCall, CallRec
  <2> QED
    BY <2>1 DEF CoreOK
<1>2. RevOK
  BY EmptySeq DEF RevOK
<1>3. Steady
  BY DEF Steady, HookInv, OnInv, LentInv, FreshInv, Off
<1>4. Quiet
  BY DEF Quiet, TaskInv, PendingInv, CallsInv, HasSession, Revs
<1> QED
  BY <1>1, <1>2, <1>3, <1>4 DEF IInv

LEMMA Invariant == Spec => []IInv
<1>1. IInv /\ [Next]_vars => IInv'
  BY CoreStep, SteadyStep, QuietStep DEF IInv, Steady
<1> QED
  BY <1>1, InitInv, PTL DEF Spec

(* The invariant that says in which order calls are made.                    *)
OrderedInv == RowsInv /\ StoreInv /\ (NoReturn => NamesInv) /\ Walks

LEMMA OrderedStart == Init => OrderedInv
<1> SUFFICES ASSUME Init PROVE OrderedInv
  OBVIOUS
<1> USE IdFacts DEF Init
<1>1. Revs = {} /\ \A i \in Id : ~HasSession(i)
  BY DEF Revs, HasSession
<1>2. RowsInv /\ StoreInv
  BY <1>1 DEF RowsInv, StoreInv, NoCall
<1>3. NamesInv
  BY <1>1 DEF NamesInv, Off, NoCall
<1>4. LeftInv /\ CallerInv
  BY DEF LeftInv, CallerInv, Off
<1>5. RowsOrder
  BY <1>1 DEF RowsOrder, OpenInv, SeqInv, OrderInv, LinkedInv, WalkInv
<1> QED
  BY <1>2, <1>3, <1>4, <1>5 DEF OrderedInv, Walks

LEMMA Ordered == Spec => []OrderedInv
<1>1. IInv /\ OrderedInv /\ [Next]_vars => OrderedInv'
  <2> SUFFICES ASSUME IInv, OrderedInv, [Next]_vars PROVE OrderedInv'
    OBVIOUS
  <2>1. CoreOK /\ RevOK /\ Steady /\ HookInv /\ OnInv /\ CoreOK'
    BY CoreStep DEF IInv, Steady
  <2>2. RowsInv' /\ StoreInv'
    BY <2>1, RowsStep DEF OrderedInv
  <2>3. ASSUME NoReturn PROVE NamesInv'
    BY <2>1, <2>3, NamesStep DEF OrderedInv
  <2>4. ASSUME NoReturn, ~disturbed' PROVE LeftInv' /\ CallerInv' /\ RowsOrder'
    <3>1. QInv /\ LeftInv /\ CallerInv /\ RowsOrder /\ NamesInv /\ RowsInv /\ StoreInv
      BY <2>1, <2>4, Undisturbed DEF IInv, Quiet, QInv, OrderedInv, Walks
    <3> QED
      BY <2>1, <2>4, <3>1, LeftStep, CallerStep, WalksStep
  <2> QED
    BY <2>2, <2>3, <2>4 DEF OrderedInv, Walks, NoReturn
<1> QED
  BY <1>1, OrderedStart, Invariant, PTL DEF Spec

(* For any number of launches: as long as nothing went wrong, and nobody comes back to a   *)
(* conversation that the launch it began with has cleared, every session has a task of its *)
(* own.                                                                                    *)
THEOREM SessionsApart == ASSUME NoReturn PROVE Spec => []SessionsStayApart
<1>1. IInv => SessionsStayApart
  BY DEF IInv, Quiet, TaskInv, SessionsStayApart, SessionsKeepApart
<1> QED
  BY <1>1, Invariant, PTL

(* In the same circumstances no call of one named actor lies in the task of another's      *)
(* session, so what clean takes of an actor is that actor's.                               *)
THEOREM CallsKeepTheirActor == ASSUME NoReturn PROVE Spec => []CleanTakesOnlyItsOwn
<1>1. IInv => CleanTakesOnlyItsOwn
  BY DEF IInv, Quiet, CallsInv, CleanTakesOnlyItsOwn
<1> QED
  BY <1>1, Invariant, PTL

(* In the same circumstances, and for any number of calls: a call after a closed turn of the *)
(* same session has a parent, whichever of the session's ids the two were recorded under, so *)
(* rewind_to can walk back across a resume (the join of rebindSession in binding-table.ts,   *)
(* resolveParentAtSealTime in revisions-v1.ts).                                              *)
THEOREM Walkable == ASSUME NoReturn PROVE Spec => []ResumeIsWalkable
<1>1. IInv /\ OrderedInv => ResumeIsWalkable
  <2> SUFFICES ASSUME IInv, OrderedInv PROVE ResumeIsWalkable
    OBVIOUS
  <2>1. TypeOK
    <3>1. CoreOK /\ RowsInv /\ StoreInv
      BY DEF IInv, OrderedInv
    <3>2. /\ launch \in [Transports -> [on : BOOLEAN, conv : {None} \cup Id,
                                        hook : {"none", "resume", "clear", "compact"}]]
          /\ known \subseteq Id /\ bind \in [Transports -> Id]
          /\ pending \in [Id -> {"none"} \cup Actor] /\ disturbed \in BOOLEAN
      BY <3>1 DEF CoreOK, LaunchRec, Hook
    <3>3. sess \in [Id -> [task : {None} \cup Id, harness : {"none", "orphan", "mcp"}, actor : Actor]]
      <4>1. /\ SessRec \subseteq [task : {None} \cup Id, harness : {"none", "orphan", "mcp"}, actor : Actor]
            /\ NoSession \in [task : {None} \cup Id, harness : {"none", "orphan", "mcp"}, actor : Actor]
        BY IdFacts DEF SessRec, NoSession
      <4> QED
        BY <3>1, <4>1 DEF CoreOK
    <3>4. call \in [Transports -> [id : {None} \cup Id, rev : {None} \cup Revs]]
      <4>1. \A t \in Transports : call[t] \in [id : {None} \cup Id, rev : {None} \cup Revs]
        BY <3>1 DEF CoreOK, StoreInv, CallRec
      <4> QED
        BY <3>1, <4>1 DEF CoreOK
    <3>5. \A r \in Revs :
            /\ rev[r].task \in Id /\ rev[r].parent \in {None} \cup Revs /\ rev[r].actor \in Actor
            /\ rev[r].created \in 1 .. now /\ rev[r].sealed \in 0 .. now
            /\ rev[r].forkable \in BOOLEAN
      BY <3>1, RevFacts DEF IInv, RowsInv, Created, Sealed
    <3> QED
      BY <3>1, <3>2, <3>3, <3>4, <3>5 DEF TypeOK, StoreInv
  <2>2. ASSUME ~disturbed, NEW r \in Revs, NEW p \in Revs, rev[r].task = rev[p].task, rev[p].forkable,
               rev[p].sealed < rev[r].created, rev[r].sealed # 0
        PROVE  rev[r].parent # None
    <3>1. WalkInv /\ RowsInv
      BY <2>2 DEF OrderedInv, Walks, RowsOrder
    <3>2. Before(p, r) /\ Sealed(r) # 0
      BY <2>2, <3>1 DEF RowsInv, Before, Sealed, Created
    <3> QED
      BY <2>2, <3>1, <3>2 DEF WalkInv
  <2> QED
    BY <2>1, <2>2 DEF ResumeIsWalkable
<1> QED
  BY <1>1, Invariant, Ordered, PTL

(* In the presence of every fault the model has: the actor of a session that somebody      *)
(* chose stays.                                                                            *)
THEOREM Sticks == Spec => ActorSticks
<1>1. IInv /\ [Next]_vars
        => [\A i \in Id : HasSession(i) /\ sess[i].actor # "default" /\ HasSession(i)'
                            => sess'[i].actor = sess[i].actor]_vars
  <2> SUFFICES ASSUME IInv, Next, NEW i \in Id, HasSession(i), sess[i].actor # "default", HasSession(i)'
               PROVE  sess'[i].actor = sess[i].actor
    BY DEF vars
  <2> USE IdFacts
  <2>1. CASE sess' = sess
    BY <2>1
  <2>2. ASSUME NEW t \in Transports, Initialize(t) PROVE sess'[i].actor = sess[i].actor
    <3>1. PICK j \in Id : j = bind[t] /\ OnMcpInitialized(j)
      BY <2>2 DEF Initialize, IInv, CoreOK
    <3> QED
      BY <3>1, InitializeTypes DEF IInv, UpgradeActor
  <2>3. ASSUME NEW t \in Transports, Record(t) PROVE sess'[i].actor = sess[i].actor
    <3>1. PICK j \in Id : OnOrphanFallback(j)
      BY <2>3 DEF Record, IInv, CoreOK, CallRec
    <3> QED
      BY <3>1, FallbackTypes DEF IInv
  <2>4. ASSUME NEW t \in Transports, HookRebinds(t) PROVE sess'[i].actor = sess[i].actor
    <3>1. PICK s \in Id : s # t /\ RebindSession(t, s)
      BY <2>4 DEF HookRebinds, IInv, CoreOK, Steady, HookInv, OnInv, LaunchRec
    <3>2. i # t
      BY <3>1, RebindTypes DEF IInv, HasSession
    <3> QED
      BY <3>1, <3>2, RebindTypes DEF IInv, UpgradeActor
  <2> QED
    BY <2>1, <2>2, <2>3, <2>4
       DEF Next, Launched, LaunchNew, LaunchResume, Quit, NewConversation, Called, Take, SealCall, Rewind,
           Hooked, HookSame, HookConflict, HookLost, Restart, store
<1> QED
  BY <1>1, Invariant, PTL DEF ActorSticks, Spec
=============================================================================

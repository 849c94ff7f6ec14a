---------------------------- MODULE PipelineProofs ----------------------------
(***************************************************************************)
(* The pipeline runner, in two parts.                                       *)
(*                                                                          *)
(* WorkflowEngine for every set of engines, length of the lease and bound:  *)
(* no workflow is forgotten, and two engines that start it work in          *)
(* revisions of their own.                                                  *)
(*                                                                          *)
(* SplitMerge for every set of items, results and lists, page size and      *)
(* bound: a list that was split comes out of the merge whole, under the     *)
(* keys of its entries.                                                     *)
(***************************************************************************)
EXTENDS WorkflowEngine, SplitMerge,
        SequenceTheorems, FiniteSetTheorems, WellFoundedInduction, TLAPS

Reporting == {"state", "refresh", "reclaim", "report", "rows"}

(* Who reports an outcome does so because the node's task has one; the calls of a *)
(* process end with it.                                                           *)
RootInv ==
  /\ \A e \in Engine :
       /\ boot[e].step \in Reporting => RootDone
       /\ boot[e].root \in Outcome => RootDone
       /\ event[e].step # "none" => RootDone
       /\ boot[e].step # "none" => e \in up

(* Every engine that no failed call made forget the workflow knows of it, or has  *)
(* still to find it.                                                              *)
Knows(e) == e \notin seen \/ e \in timer \cup watched \/ boot[e].step # "none"
KnowInv ==
  /\ Finished \/ "again" \in excuse \/ \A e \in up \ forgot : Knows(e)
  /\ seen \subseteq up

CountInv == version = "REVISION" => count > 0

Starting(e) == boot[e].step \in {"start", "record"}
Asking(e) == boot[e].step = "revision"

(* Between its claim and the second call an engine has the lease and the last     *)
(* revision for itself.  Only a workflow that has its outcome is started without  *)
(* a revision, and then nobody claims it any more.                                *)
AskingInv ==
  \A e \in Engine : Asking(e) =>
    /\ \A f \in Engine : Asking(f) => f = e
    /\ \A f \in Engine : Starting(f) => boot[f].rev # 0
    /\ version # "NONE"
    /\ ~Finished => /\ status = "RUNNING" /\ holder = e /\ left >= 1
                    /\ \A f \in Engine : Starting(f) => boot[f].rev < count
StartingInv ==
  \A e \in Engine : Starting(e) =>
    /\ boot[e].rev <= count
    /\ boot[e].rev = 0 => Finished
    /\ \A f \in Engine : Starting(f) /\ f # e => boot[f].rev # boot[e].rev
Undisturbed == excuse \cap {"stall", "again"} = {}
LeaseInv == Undisturbed => AskingInv /\ StartingInv

IInv == TypeOK /\ RootInv /\ KnowInv /\ CountInv /\ LeaseInv

-----------------------------------------------------------------------------
(* The records of boot and event. *)

BootRec == [step : BootStep, rev : 0..MaxRevision, root : {"none", "PENDING"} \cup Outcome]
EventRec == [step : EventStep, rev : 0..MaxRevision]

LEMMA BootFields ==
  ASSUME TypeOK, NEW e \in Engine
  PROVE  /\ boot[e] \in BootRec /\ event[e] \in EventRec
         /\ boot[e].step \in BootStep /\ boot[e].rev \in 0..MaxRevision
         /\ boot[e].root \in {"none", "PENDING"} \cup Outcome
         /\ event[e].step \in EventStep /\ event[e].rev \in 0..MaxRevision
BY DEF TypeOK, BootRec, EventRec

(* What moving one thread of one engine does to the two functions.                *)
LEMMA BootMoves ==
  ASSUME TypeOK, NEW e \in Engine, NEW step \in BootStep, BootTo(e, step)
  PROVE  /\ boot' \in [Engine -> BootRec]
         /\ boot'[e].step = step /\ boot'[e].rev = boot[e].rev /\ boot'[e].root = boot[e].root
         /\ \A f \in Engine : f # e => boot'[f] = boot[f]
<1>1. boot \in [Engine -> BootRec]
  BY DEF TypeOK, BootRec
<1>2. /\ boot' = [boot EXCEPT ![e] = [boot[e] EXCEPT !.step = step]]
      /\ [boot[e] EXCEPT !.step = step] \in BootRec
  BY <1>1 DEF BootTo, BootRec
<1> QED
  BY <1>1, <1>2 DEF BootRec

LEMMA BootStops ==
  ASSUME TypeOK, NEW e \in Engine, BootEnds(e)
  PROVE  /\ boot' \in [Engine -> BootRec]
         /\ boot'[e].step = "none" /\ boot'[e].root = "none"
         /\ \A f \in Engine : f # e => boot'[f] = boot[f]
BY EngineAssumption DEF TypeOK, BootRec, BootEnds, NoBoot, BootStep

LEMMA EventMoves ==
  ASSUME TypeOK, NEW e \in Engine, NEW step \in EventStep, EventTo(e, step)
  PROVE  /\ event' \in [Engine -> EventRec]
         /\ event'[e].step = step
         /\ \A f \in Engine : f # e => event'[f] = event[f]
<1>1. event \in [Engine -> EventRec]
  BY DEF TypeOK, EventRec
<1>2. /\ event' = [event EXCEPT ![e] = [event[e] EXCEPT !.step = step]]
      /\ [event[e] EXCEPT !.step = step] \in EventRec
  BY <1>1 DEF EventTo, EventRec
<1> QED
  BY <1>1, <1>2 DEF EventRec

(* A step of reportTaskOutcome, in the thread it runs in.                         *)
LEMMA ThreadMoves ==
  ASSUME TypeOK, NEW e \in Engine, NEW th \in {"boot", "event"}, NEW step \in Reporting,
         To(e, th, step)
  PROVE  /\ boot' \in [Engine -> BootRec] /\ event' \in [Engine -> EventRec]
         /\ \A f \in Engine : boot'[f].root = boot[f].root /\ boot'[f].rev = boot[f].rev
         /\ \A f \in Engine : f # e => boot'[f] = boot[f] /\ event'[f] = event[f]
         /\ th = "boot" => boot'[e].step = step /\ event' = event
         /\ th = "event" => event'[e].step = step /\ boot' = boot
<1>1. step \in BootStep /\ (step \in EventStep) /\ boot \in [Engine -> BootRec] /\ event \in [Engine -> EventRec]
  BY DEF TypeOK, BootRec, EventRec, Reporting, BootStep, EventStep
<1>2. CASE th = "boot"
  BY <1>1, <1>2, BootMoves DEF To
<1>3. CASE th = "event"
  BY <1>1, <1>3, EventMoves DEF To
<1> QED
  BY <1>2, <1>3

(* An engine that drops the workflow.                                              *)
LEMMA Forgetting ==
  ASSUME TypeOK, NEW e \in Engine, Forget(e)
  PROVE  /\ boot' \in [Engine -> BootRec]
         /\ boot'[e].step = "none" /\ boot'[e].root = "none"
         /\ \A f \in Engine : f # e => boot'[f] = boot[f]
         /\ forgot' = forgot \cup {e} /\ forgot' \subseteq Engine
         /\ faults' \in 0..MaxFault
BY EngineAssumption, BootStops DEF Forget, TypeOK

(* The calls of reportTaskOutcome, answered or not. *)
Reports(e, th) ==
  ReadState(e, th) \/ Refresh(e, th) \/ Reclaim(e, th) \/ Report(e, th) \/ CallFails(e, th)

LEMMA ReportMoves ==
  ASSUME RootInv, NEW e \in Engine, NEW th \in {"boot", "event"}, Reports(e, th)
  PROVE  /\ \E step \in Reporting : To(e, th, step)
         /\ e \in up /\ RootDone
<1>1. \E step \in Reporting : At(e, th, step)
  BY DEF Reports, ReadState, Refresh, Reclaim, Report, CallFails, StateUnread, RefreshFails,
         ReclaimFails, ReportFails, Reporting
<1>2. \E step \in Reporting : To(e, th, step)
  BY DEF Reports, ReadState, Refresh, Reclaim, Report, CallFails, StateUnread, RefreshFails,
         ReclaimFails, ReportFails, Reporting
<1>3. e \in up /\ RootDone
  BY <1>1 DEF At, BootAt, EventAt, RootInv, Reporting
<1> QED
  BY <1>2, <1>3

LEMMA TypeStep ==
  ASSUME TypeOK, RootInv, [Next]_vars
  PROVE  TypeOK' /\ RootInv'
<1> USE EngineAssumption DEF RootInv, taskVars, storeVars, localVars, history
<1>a. boot \in [Engine -> BootRec] /\ event \in [Engine -> EventRec]
  BY DEF TypeOK, BootRec, EventRec
<1>1. ASSUME NEW e \in Engine, Discover(e) PROVE TypeOK' /\ RootInv'
  BY <1>1, <1>a, BootMoves DEF Discover, TypeOK, BootAt, EventAt, NotTask, NotLocal, RootDone,
                               Outcome, BootRec, EventRec, BootStep, EventStep, Reporting
<1>2. ASSUME NEW e \in Engine, RetryTimer(e) PROVE TypeOK' /\ RootInv'
  <2>1. /\ boot' \in [Engine -> BootRec]
        /\ boot'[e].step \in {"none", "look"} /\ boot'[e].root = boot[e].root
        /\ \A f \in Engine : f # e => boot'[f] = boot[f]
    BY <1>2, <1>a, BootMoves DEF RetryTimer, BootAt, BootStep
  <2>2. TypeOK'
    BY <1>2, <2>1 DEF RetryTimer, TypeOK, BootRec, BootAt, EventAt, NotTask, NotLocal, RootDone,
                      Outcome
  <2>3. RootInv'
    BY <1>2, <2>1 DEF RetryTimer, BootAt, EventAt, NotTask, NotLocal, RootDone, Outcome, BootRec,
                      EventRec, BootStep, EventStep, Reporting
  <2> QED
    BY <2>2, <2>3
<1>3. ASSUME NEW e \in Engine, Look(e) PROVE TypeOK' /\ RootInv'
  <2>1. /\ boot' \in [Engine -> BootRec]
        /\ boot'[e].step \in {"none", "claim"} /\ boot'[e].root \in {"none", boot[e].root}
        /\ \A f \in Engine : f # e => boot'[f] = boot[f]
    BY <1>3, <1>a, BootMoves, BootStops DEF Look, BootStep
  <2>2. TypeOK'
    BY <1>3, <2>1 DEF Look, TypeOK, BootRec, BootAt, EventAt, NotTask, NotLocal, RootDone, Outcome
  <2>3. RootInv'
    BY <1>3, <2>1 DEF Look, BootAt, EventAt, NotTask, NotLocal, RootDone, Outcome, BootRec,
                      EventRec, BootStep, EventStep, Reporting
  <2> QED
    BY <2>2, <2>3
<1>4. ASSUME NEW e \in Engine, Claim(e) PROVE TypeOK' /\ RootInv'
  <2>1. /\ boot' \in [Engine -> BootRec]
        /\ boot'[e].step = "revision" /\ boot'[e].root = boot[e].root
        /\ \A f \in Engine : f # e => boot'[f] = boot[f]
    BY <1>4, <1>a, BootMoves DEF Claim, BootStep
  <2>2. TypeOK'
    BY <1>4, <2>1 DEF Claim, TypeOK, BootRec, BootAt, EventAt, NotTask, NotLocal, RootDone,
                      Outcome, ClaimWorkflow, Take, Excuse
  <2>3. RootInv'
    BY <1>4, <2>1 DEF Claim, BootAt, EventAt, NotTask, NotLocal, RootDone, Outcome, BootRec,
                      EventRec, BootStep, EventStep, Reporting
  <2> QED
    BY <2>2, <2>3
<1>5. ASSUME NEW e \in Engine, ClaimRefused(e) PROVE TypeOK' /\ RootInv'
  <2>1. /\ boot' \in [Engine -> BootRec]
        /\ boot'[e].step = "none" /\ boot'[e].root = "none"
        /\ \A f \in Engine : f # e => boot'[f] = boot[f]
    BY <1>5, <1>a, BootStops DEF ClaimRefused
  <2>2. TypeOK'
    BY <1>5, <2>1 DEF ClaimRefused, TypeOK, BootRec, BootAt, EventAt, NotTask, NotLocal, RootDone,
                      Outcome
  <2>3. RootInv'
    BY <1>5, <2>1 DEF ClaimRefused, BootAt, EventAt, NotTask, NotLocal, RootDone, Outcome, BootRec,
                      EventRec, BootStep, EventStep, Reporting
  <2> QED
    BY <2>2, <2>3
<1>6. ASSUME NEW e \in Engine, ReadRevision(e) PROVE TypeOK' /\ RootInv'
  BY <1>6, <1>a DEF ReadRevision, TypeOK, BootAt, EventAt, NotTask, NotLocal, RootDone, Outcome,
                    BootRec, EventRec, BootStep, EventStep, Reporting
<1>7. ASSUME NEW e \in Engine, Start(e) PROVE TypeOK' /\ RootInv'
  <2>1. root' \in {"none", "PENDING"} \cup Outcome /\ (RootDone => root' = root)
    <3>1. root' = IF root = "none" THEN "PENDING" ELSE root
      BY <1>7 DEF Start
    <3>2. root \in {"none", "PENDING"} \cup Outcome
      BY DEF TypeOK
    <3> QED
      BY <3>1, <3>2 DEF RootDone, Outcome
  <2>2. /\ boot' \in [Engine -> BootRec]
        /\ boot'[e].step = "record" /\ boot'[e].root = root'
        /\ \A f \in Engine : f # e => boot'[f] = boot[f]
    <3>1. [boot[e] EXCEPT !.step = "record", !.root = root'] \in BootRec
      BY <1>a, <2>1 DEF BootRec, BootStep
    <3>2. boot' = [boot EXCEPT ![e] = [boot[e] EXCEPT !.step = "record", !.root = root']]
      BY <1>7 DEF Start
    <3> QED
      BY <1>a, <3>1, <3>2 DEF BootRec
  <2>3. UNCHANGED <<status, holder, left, version, count, nodes, offset, localVars, event, history>>
    BY <1>7 DEF Start
  <2>4. TypeOK'
    BY <2>1, <2>2, <2>3 DEF TypeOK, BootRec
  <2>5. RootInv'
    BY <1>7, <2>1, <2>2, <2>3 DEF Start, BootAt, RootDone, Outcome, Reporting
  <2> QED
    BY <2>4, <2>5
<1>8. ASSUME NEW e \in Engine, Record(e) PROVE TypeOK' /\ RootInv'
  <2>1. /\ boot' \in [Engine -> BootRec]
        /\ boot'[e].step = (IF boot[e].root \in Outcome THEN "state" ELSE "check") /\ boot'[e].root = boot[e].root
        /\ \A f \in Engine : f # e => boot'[f] = boot[f]
    BY <1>8, <1>a, BootMoves DEF Record, BootStep
  <2>2. TypeOK'
    BY <1>8, <2>1 DEF Record, TypeOK, BootRec, BootAt, EventAt, NotTask, NotLocal, RootDone,
                      Outcome, RuntimeOf
  <2>3. RootInv'
    BY <1>8, <2>1 DEF Record, BootAt, EventAt, NotTask, NotLocal, RootDone, Outcome, BootRec,
                      EventRec, BootStep, EventStep, Reporting
  <2> QED
    BY <2>2, <2>3
<1>9. ASSUME NEW e \in Engine, BootRows(e) PROVE TypeOK' /\ RootInv'
  BY <1>9, <1>a, BootMoves DEF BootRows, TypeOK, BootAt, EventAt, NotTask, NotLocal, RootDone,
                               Outcome, BootRec, EventRec, BootStep, EventStep, Reporting, RuntimeOf
<1>10. ASSUME NEW e \in Engine, Check(e) PROVE TypeOK' /\ RootInv'
  <2>1. /\ boot' \in [Engine -> BootRec]
        /\ boot'[e].step = "none" /\ boot'[e].root = "none"
        /\ \A f \in Engine : f # e => boot'[f] = boot[f]
    BY <1>10, BootStops DEF Check
  <2>2. TypeOK'
    BY <1>10, <2>1 DEF Check, TypeOK, BootRec, NotTask
  <2>3. RootInv'
    BY <1>10, <2>1 DEF Check, NotTask, RootDone, Outcome, Reporting
  <2> QED
    BY <2>2, <2>3
<1>11. ASSUME NEW e \in Engine, TakeEvent(e) PROVE TypeOK' /\ RootInv'
  BY <1>11, <1>a DEF TakeEvent, TypeOK, BootAt, EventAt, NotTask, NotLocal, RootDone, Outcome,
                     BootRec, EventRec, BootStep, EventStep, Reporting, Excuse
<1>12. ASSUME NEW e \in Engine, EventRows(e) PROVE TypeOK' /\ RootInv'
  BY <1>12, <1>a, EventMoves DEF EventRows, TypeOK, BootAt, EventAt, NotTask, NotLocal, RootDone,
                                 Outcome, BootRec, EventRec, BootStep, EventStep, Reporting,
                                 RuntimeOf
<1>13. ASSUME NEW e \in Engine, CommitEvent(e) PROVE TypeOK' /\ RootInv'
  BY <1>13, <1>a DEF CommitEvent, TypeOK, BootAt, EventAt, NotTask, NotLocal, RootDone, Outcome,
                     BootRec, EventRec, BootStep, EventStep, Reporting, NoEvent
<1>14. ASSUME NEW e \in Engine, Monitor(e) PROVE TypeOK' /\ RootInv'
  BY <1>14, <1>a DEF Monitor, TypeOK, BootAt, EventAt, NotTask, NotLocal, RootDone, Outcome,
                     BootRec, EventRec, BootStep, EventStep, Reporting
<1>15. ASSUME NEW e \in Engine, Extend(e) PROVE TypeOK' /\ RootInv'
  BY <1>15, <1>a DEF Extend, TypeOK, BootAt, EventAt, NotTask, NotLocal, RootDone, Outcome,
                     BootRec, EventRec, BootStep, EventStep, Reporting, Take
<1>16. ASSUME NEW e \in Engine, ClaimAnswerLost(e) PROVE TypeOK' /\ RootInv'
  <2>1. /\ boot' \in [Engine -> BootRec]
        /\ boot'[e].step = "none" /\ boot'[e].root = "none"
        /\ \A f \in Engine : f # e => boot'[f] = boot[f]
    BY <1>16, <1>a, BootStops DEF ClaimAnswerLost
  <2>2. TypeOK'
    BY <1>16, <2>1 DEF ClaimAnswerLost, TypeOK, BootRec, BootAt, EventAt, NotTask, NotLocal,
                       RootDone, Outcome, ClaimWorkflow, Take, Excuse
  <2>3. RootInv'
    BY <1>16, <2>1 DEF ClaimAnswerLost, BootAt, EventAt, NotTask, NotLocal, RootDone, Outcome,
                       BootRec, EventRec, BootStep, EventStep, Reporting
  <2> QED
    BY <2>2, <2>3
<1>17. ASSUME NEW e \in Engine, LookFails(e) \/ RevisionUnread(e) \/ BootstrapFails(e)
      PROVE TypeOK' /\ RootInv'
  <2>1. Forget(e) /\ NotTask /\ NotLocal /\ UNCHANGED event /\ excuse' \subseteq Excuse
    BY <1>17 DEF LookFails, RevisionUnread, BootstrapFails, TypeOK, Excuse
  <2>2. /\ boot' \in [Engine -> BootRec]
        /\ boot'[e].step = "none" /\ boot'[e].root = "none"
        /\ \A f \in Engine : f # e => boot'[f] = boot[f]
        /\ forgot' \subseteq Engine /\ faults' \in 0..MaxFault
    BY <2>1, Forgetting
  <2>3. TypeOK'
    BY <2>1, <2>2 DEF TypeOK, BootRec, NotTask, NotLocal
  <2>4. RootInv'
    BY <2>1, <2>2 DEF NotTask, NotLocal, RootDone, Outcome, Reporting
  <2> QED
    BY <2>3, <2>4
<1>18. ASSUME NEW e \in Engine, EventUnread(e) \/ EventThrows(e) PROVE TypeOK' /\ RootInv'
  <2>1. /\ NotTask /\ NotLocal /\ UNCHANGED <<boot, forgot>>
        /\ faults' \in 0..MaxFault /\ excuse' \subseteq Excuse
    <3>1. faults < MaxFault /\ faults' = faults + 1
      BY <1>18 DEF EventUnread, EventThrows
    <3>2. faults' \in 0..MaxFault
      BY <3>1 DEF TypeOK
    <3> QED
      BY <1>18, <3>2 DEF EventUnread, EventThrows, TypeOK, Excuse
  <2>2. /\ event' \in [Engine -> EventRec]
        /\ \A f \in Engine : event'[f].step # "none" => event[f].step # "none"
    <3>1. CASE EventUnread(e)
      <4>1. event[e].step = "state" /\ EventTo(e, "commit")
        BY <3>1 DEF EventUnread, EventAt
      <4> QED
        BY <4>1, EventMoves DEF EventStep
    <3>2. CASE EventThrows(e)
      BY <3>2, <1>a DEF EventThrows, NoEvent, EventRec, EventStep
    <3> QED
      BY <1>18, <3>1, <3>2
  <2>3. TypeOK'
    BY <2>1, <2>2 DEF TypeOK, EventRec, NotTask, NotLocal
  <2>4. RootInv'
    BY <2>1, <2>2 DEF NotTask, NotLocal, RootDone
  <2> QED
    BY <2>3, <2>4
<1>19. ASSUME NEW e \in Engine, ExtendFails(e) PROVE TypeOK' /\ RootInv'
  BY <1>19, <1>a DEF ExtendFails, TypeOK, BootAt, EventAt, NotTask, NotLocal, RootDone, Outcome,
                     BootRec, EventRec, BootStep, EventStep, Reporting, Excuse
<1>20. ASSUME NEW e \in Engine, Crash(e) PROVE TypeOK' /\ RootInv'
  BY <1>20, <1>a DEF Crash, TypeOK, BootAt, EventAt, NotTask, NotLocal, RootDone, Outcome, BootRec,
                     EventRec, BootStep, EventStep, Reporting, NoBoot, NoEvent
<1>21. ASSUME NEW e \in Engine, Restart(e) PROVE TypeOK' /\ RootInv'
  BY <1>21, <1>a DEF Restart, TypeOK, BootAt, EventAt, NotTask, NotLocal, RootDone, Outcome,
                     BootRec, EventRec, BootStep, EventStep, Reporting
<1>22. ASSUME NEW e \in Engine, NEW th \in {"boot", "event"},
             Reports(e, th)
      PROVE TypeOK' /\ RootInv'
  <2>1. PICK step \in Reporting : To(e, th, step)
    BY <1>22, ReportMoves
  <2>2. /\ boot' \in [Engine -> BootRec] /\ event' \in [Engine -> EventRec]
        /\ \A f \in Engine : boot'[f].root = boot[f].root /\ boot'[f].rev = boot[f].rev
        /\ \A f \in Engine : f # e => boot'[f] = boot[f] /\ event'[f] = event[f]
        /\ th = "boot" => boot'[e].step = step /\ event' = event
        /\ th = "event" => event'[e].step = step /\ boot' = boot
    BY <2>1, ThreadMoves
  <2>3. e \in up /\ RootDone
    BY <1>22, ReportMoves
  <2>4. /\ UNCHANGED <<count, nodes, root, offset, localVars, forgot>> /\ excuse' \subseteq Excuse
        /\ faults' \in 0..MaxFault
        /\ status' \in {"PENDING", "RUNNING", "SUCCEEDED", "FAILED"}
        /\ version' \in {"NONE", "REVISION"} \cup Outcome
        /\ holder' \in Engine \cup {Nobody} /\ left' \in -1..TTL
    <3>1. CASE ReadState(e, th)
      BY <3>1 DEF ReadState, Rest, TypeOK
    <3>2. CASE Refresh(e, th)
      BY <3>2 DEF Refresh, RefreshWorkflow, Rest, TypeOK
    <3>3. CASE Reclaim(e, th)
      BY <3>3 DEF Reclaim, Take, Rest, TypeOK
    <3>4. CASE Report(e, th)
      BY <3>4, <2>3 DEF Report, RecordOutcome, RootDone, Excuse, TypeOK
    <3>5. CASE CallFails(e, th)
      <4>1. /\ UNCHANGED <<nodes, root, offset, localVars, forgot>> /\ faults' \in 0..MaxFault
        BY <3>5 DEF CallFails, TypeOK
      <4>2. CASE StateUnread(e, th)
        BY <4>1, <4>2 DEF StateUnread, TypeOK
      <4>3. CASE RefreshFails(e, th)
        BY <4>1, <4>3 DEF RefreshFails, RefreshWorkflow, TypeOK
      <4>4. CASE ReclaimFails(e, th)
        BY <4>1, <4>4 DEF ReclaimFails, Take, TypeOK
      <4>5. CASE ReportFails(e, th)
        BY <4>1, <4>5 DEF ReportFails, Excuse, TypeOK
      <4> QED
        BY <3>5, <4>2, <4>3, <4>4, <4>5 DEF CallFails
    <3> QED
      BY <1>22, <3>1, <3>2, <3>3, <3>4, <3>5 DEF Reports
  <2>5. TypeOK'
    BY <2>2, <2>4 DEF TypeOK, BootRec, EventRec
  <2>6. RootInv'
    BY <2>2, <2>3, <2>4 DEF RootDone, Reporting
  <2> QED
    BY <2>5, <2>6
<1>23. CASE FinishRoot
  BY <1>23, <1>a DEF FinishRoot, TypeOK, BootAt, EventAt, NotTask, NotLocal, RootDone, Outcome,
                     BootRec, EventRec, BootStep, EventStep, Reporting
<1>24. CASE Tick
  BY <1>24, <1>a DEF Tick, TypeOK, Excuse, BootAt, EventAt, NotTask, NotLocal, RootDone, Outcome,
                     BootRec, EventRec, BootStep, EventStep, Reporting
<1>25. CASE UNCHANGED vars
  BY <1>25 DEF vars, TypeOK, BootAt, EventAt, NotTask, NotLocal, RootDone, Outcome, BootRec,
               EventRec, BootStep, EventStep, Reporting
<1> QED
  BY <1>1, <1>2, <1>3, <1>4, <1>5, <1>6, <1>7, <1>8, <1>9, <1>10, <1>11, <1>12, <1>13,
     <1>14, <1>15, <1>16, <1>17, <1>18, <1>19, <1>20, <1>21, <1>22, <1>23, <1>24, <1>25
     DEF Next, HandleDiscovered, Orchestrate, BootNext, EventNext, Faulty, Reports

-----------------------------------------------------------------------------
(* The workflow is not forgotten. *)

LEMMA KnowStep ==
  ASSUME TypeOK, RootInv, KnowInv, [Next]_vars
  PROVE  KnowInv'
<1> USE EngineAssumption DEF KnowInv, Knows, taskVars, storeVars, localVars, history, NotTask, NotLocal
<1>a. boot \in [Engine -> BootRec]
  BY DEF TypeOK, BootRec
<1>1. ASSUME NEW e \in Engine, Discover(e) PROVE KnowInv'
  <2>1. (e \in watched \/ boot'[e].step = "look") /\ \A f \in Engine : f # e => boot'[f] = boot[f]
    BY <1>1, <1>a, BootMoves DEF Discover, BootAt, BootStep
  <2> QED
    BY <1>1, <2>1 DEF Discover, BootAt, Finished, TypeOK
<1>2. ASSUME NEW e \in Engine, RetryTimer(e) PROVE KnowInv'
  <2>1. (e \in watched \/ boot'[e].step = "look") /\ \A f \in Engine : f # e => boot'[f] = boot[f]
    BY <1>2, <1>a, BootMoves DEF RetryTimer, BootAt, BootStep
  <2> QED
    BY <1>2, <2>1 DEF RetryTimer, BootAt, Finished, TypeOK
<1>3. ASSUME NEW e \in Engine, Look(e) PROVE KnowInv'
  <2>1. (Finished \/ boot'[e].step = "claim") /\ \A f \in Engine : f # e => boot'[f] = boot[f]
    BY <1>3, <1>a, BootMoves, BootStops DEF Look, BootStep
  <2> QED
    BY <1>3, <2>1 DEF Look, BootAt, Finished, TypeOK
<1>4. ASSUME NEW e \in Engine, Claim(e) PROVE KnowInv'
  <2>1. boot'[e].step = "revision" /\ \A f \in Engine : f # e => boot'[f] = boot[f]
    BY <1>4, <1>a, BootMoves DEF Claim, BootStep
  <2> QED
    BY <1>4, <2>1 DEF Claim, BootAt, ClaimWorkflow, Finished, Outcome, TypeOK
<1>5. ASSUME NEW e \in Engine, ClaimRefused(e) PROVE KnowInv'
  <2>1. e \in timer' /\ \A f \in Engine : f # e => boot'[f] = boot[f]
    BY <1>5, BootStops DEF ClaimRefused
  <2> QED
    BY <1>5, <2>1 DEF ClaimRefused, BootAt, Finished, TypeOK
<1>6. ASSUME NEW e \in Engine, ReadRevision(e) PROVE KnowInv'
  BY <1>6, <1>a DEF ReadRevision, BootAt, Finished
<1>7. ASSUME NEW e \in Engine, Start(e) PROVE KnowInv'
  <2>1. boot'[e].step = "record" /\ \A f \in Engine : f # e => boot'[f] = boot[f]
    BY <1>7, <1>a DEF Start, BootRec
  <2> QED
    BY <1>7, <2>1 DEF Start, BootAt, Finished, TypeOK
<1>8. ASSUME NEW e \in Engine, Record(e) PROVE KnowInv'
  <2>1. boot'[e].step \in {"state", "check"} /\ \A f \in Engine : f # e => boot'[f] = boot[f]
    BY <1>8, <1>a, BootMoves DEF Record, BootStep
  <2> QED
    BY <1>8, <2>1 DEF Record, BootAt, Finished, TypeOK
<1>9. ASSUME NEW e \in Engine, BootRows(e) PROVE KnowInv'
  <2>1. boot'[e].step = "check" /\ \A f \in Engine : f # e => boot'[f] = boot[f]
    BY <1>9, <1>a, BootMoves DEF BootRows, BootStep
  <2> QED
    BY <1>9, <2>1 DEF BootRows, BootAt, Finished, TypeOK
<1>10. ASSUME NEW e \in Engine, Check(e) PROVE KnowInv'
  <2>1. boot'[e].step = "none" /\ \A f \in Engine : f # e => boot'[f] = boot[f]
    BY <1>10, <1>a, BootStops DEF Check
  <2> QED
    BY <1>10, <2>1 DEF Check, BootAt, Finished, TypeOK
<1>11. ASSUME NEW e \in Engine, TakeEvent(e) PROVE KnowInv'
  BY <1>11, <1>a DEF TakeEvent, Finished
<1>12. ASSUME NEW e \in Engine, EventRows(e) PROVE KnowInv'
  BY <1>12, <1>a DEF EventRows, Finished
<1>13. ASSUME NEW e \in Engine, CommitEvent(e) PROVE KnowInv'
  BY <1>13, <1>a DEF CommitEvent, Finished
<1>14. ASSUME NEW e \in Engine, Monitor(e) PROVE KnowInv'
  BY <1>14, <1>a DEF Monitor, Finished
<1>15. ASSUME NEW e \in Engine, Extend(e) PROVE KnowInv'
  BY <1>15, <1>a DEF Extend, Finished
<1>16. ASSUME NEW e \in Engine, ClaimAnswerLost(e) PROVE KnowInv'
  <2>1. e \in timer' /\ \A f \in Engine : f # e => boot'[f] = boot[f]
    BY <1>16, BootStops DEF ClaimAnswerLost
  <2> QED
    BY <1>16, <2>1 DEF ClaimAnswerLost, ClaimWorkflow, BootAt, Finished, Outcome, TypeOK
<1>17. ASSUME NEW e \in Engine, LookFails(e) \/ RevisionUnread(e) \/ BootstrapFails(e)
      PROVE KnowInv'
  <2>1. /\ Forget(e) /\ NotTask /\ NotLocal
        /\ "again" \in excuse => "again" \in excuse'
    BY <1>17 DEF LookFails, RevisionUnread, BootstrapFails
  <2>2. forgot' = forgot \cup {e} /\ \A f \in Engine : f # e => boot'[f] = boot[f]
    BY <2>1, Forgetting
  <2> QED
    BY <2>1, <2>2 DEF Finished, TypeOK
<1>24. ASSUME NEW e \in Engine, EventUnread(e) \/ EventThrows(e) \/ ExtendFails(e)
      PROVE KnowInv'
  BY <1>24 DEF EventUnread, EventThrows, ExtendFails, Finished
<1>18. ASSUME NEW e \in Engine, Crash(e) PROVE KnowInv'
  BY <1>18, <1>a DEF Crash, NoBoot, Finished
<1>19. ASSUME NEW e \in Engine, Restart(e) PROVE KnowInv'
  BY <1>19, <1>a DEF Restart, Finished
<1>20. ASSUME NEW e \in Engine, NEW th \in {"boot", "event"},
             Reports(e, th)
      PROVE KnowInv'
  <2>1. PICK step \in Reporting : To(e, th, step)
    BY <1>20, ReportMoves
  <2>2. \A f \in Engine : boot[f].step # "none" => boot'[f].step # "none"
    BY <2>1, ThreadMoves DEF Reporting
  <2>3. RootDone
    BY <1>20, ReportMoves
  <2>4. /\ UNCHANGED <<localVars, forgot>> /\ (Finished => Finished')
        /\ "again" \in excuse => "again" \in excuse'
    <3>1. CASE CallFails(e, th)
      BY <3>1 DEF CallFails, StateUnread, RefreshFails, ReclaimFails, ReportFails, RefreshWorkflow,
                  Finished
    <3>2. CASE ~CallFails(e, th)
      BY <1>20, <2>3, <3>2 DEF Reports, ReadState, Refresh, Reclaim, Report, Rest, RefreshWorkflow,
                               RecordOutcome, RootDone, Finished
    <3> QED
      BY <3>1, <3>2
  <2> QED
    BY <2>2, <2>4 DEF TypeOK
<1>21. CASE FinishRoot
  BY <1>21 DEF FinishRoot, Finished
<1>22. CASE Tick
  BY <1>22 DEF Tick, Finished
<1>23. CASE UNCHANGED vars
  BY <1>23 DEF vars, Finished
<1> QED
  BY <1>1, <1>2, <1>3, <1>4, <1>5, <1>6, <1>7, <1>8, <1>9, <1>10, <1>11, <1>12, <1>13,
     <1>14, <1>15, <1>16, <1>17, <1>18, <1>19, <1>20, <1>21, <1>22, <1>23, <1>24
     DEF Next, HandleDiscovered, Orchestrate, BootNext, EventNext, Faulty, Reports

-----------------------------------------------------------------------------
(* Leases and revisions. *)

LEMMA LeaseFrame ==
  ASSUME TypeOK, AskingInv, StartingInv, TypeOK', count' >= count,
         \A f \in Engine : Asking(f)' => Asking(f),
         \A f \in Engine : Starting(f)' => Starting(f) /\ boot'[f].rev = boot[f].rev,
         Finished => Finished', version # "NONE" => version' # "NONE",
         \A f \in Engine : Asking(f)' /\ ~Finished' /\ status = "RUNNING" /\ holder = f /\ left >= 1
           => status' = "RUNNING" /\ holder' = f /\ left' >= 1
  PROVE  AskingInv' /\ StartingInv'
<1>1. AskingInv'
  BY DEF AskingInv, TypeOK
<1>2. StartingInv'
  BY DEF StartingInv, TypeOK
<1> QED
  BY <1>1, <1>2

LEMMA CountStep ==
  ASSUME TypeOK, RootInv, CountInv, [Next]_vars
  PROVE  CountInv'
<1>1. CASE UNCHANGED <<version, count>>
  BY <1>1 DEF CountInv
<1>2. ASSUME NEW e \in Engine, ClaimWorkflow(e) PROVE CountInv'
  BY <1>2 DEF ClaimWorkflow, CountInv, TypeOK
<1>3. ASSUME NEW e \in Engine, NEW th \in {"boot", "event"}, Report(e, th) PROVE CountInv'
  <2>1. root \in Outcome
    BY <1>3 DEF Report, At, BootAt, EventAt, Reporting, RootInv, RootDone
  <2> QED
    BY <1>1, <1>3, <2>1 DEF Report, RecordOutcome, taskVars, CountInv, Outcome
<1> QED
  BY <1>1, <1>2, <1>3
     DEF Next, HandleDiscovered, Orchestrate, BootNext, EventNext, Faulty, vars, storeVars, taskVars, NotTask, Rest,
         Discover, RetryTimer, Look, Claim, ClaimRefused, ReadRevision, Start, Record, BootRows, Check, TakeEvent,
         EventRows, CommitEvent, Monitor, Extend, LookFails, ClaimAnswerLost, RevisionUnread, BootstrapFails,
         EventUnread, EventThrows, CallFails, StateUnread, RefreshFails, ReclaimFails, ReportFails, ExtendFails,
         Crash, Restart, FinishRoot, Tick, ReadState, Refresh, RefreshWorkflow, Reclaim

(* Steps that neither start the workflow nor touch its row.                       *)
LEMMA LeaseRests ==
  ASSUME TypeOK, AskingInv, StartingInv, TypeOK', UNCHANGED taskVars,
         \A f \in Engine : Asking(f)' => Asking(f),
         \A f \in Engine : Starting(f)' => Starting(f) /\ boot'[f].rev = boot[f].rev
  PROVE  AskingInv' /\ StartingInv'
BY LeaseFrame DEF taskVars, Finished, TypeOK

LEMMA LeaseStep ==
  ASSUME IInv, [Next]_vars
  PROVE  LeaseInv'
<1> SUFFICES ASSUME Undisturbed' PROVE AskingInv' /\ StartingInv'
  BY DEF LeaseInv
<1> USE EngineAssumption DEF taskVars, storeVars, localVars, history, Undisturbed, NotTask, NotLocal
<1>a. TypeOK /\ TypeOK' /\ RootInv /\ CountInv /\ LeaseInv
  BY TypeStep DEF IInv
<1>b. boot \in [Engine -> BootRec]
  BY <1>a DEF TypeOK, BootRec
<1>c. count \in Nat /\ left \in Int /\ TTL >= 1
  BY <1>a DEF TypeOK
<1>1. ASSUME NEW e \in Engine, Discover(e) PROVE AskingInv' /\ StartingInv'
  <2>1. (boot'[e].step = "look" \/ boot' = boot) /\ \A f \in Engine : f # e => boot'[f] = boot[f]
    BY <1>1, <1>a, <1>b, BootMoves DEF Discover, BootAt, BootStep
  <2>2. Undisturbed /\ UNCHANGED taskVars
    BY <1>1 DEF Discover
  <2> QED
    BY <1>a, <2>1, <2>2, LeaseRests DEF LeaseInv, Asking, Starting
<1>2. ASSUME NEW e \in Engine, RetryTimer(e) PROVE AskingInv' /\ StartingInv'
  <2>1. (boot'[e].step = "look" \/ boot' = boot) /\ \A f \in Engine : f # e => boot'[f] = boot[f]
    BY <1>2, <1>a, <1>b, BootMoves DEF RetryTimer, BootAt, BootStep
  <2>2. Undisturbed /\ UNCHANGED taskVars
    BY <1>2 DEF RetryTimer
  <2> QED
    BY <1>a, <2>1, <2>2, LeaseRests DEF LeaseInv, Asking, Starting
<1>3. ASSUME NEW e \in Engine, Look(e) PROVE AskingInv' /\ StartingInv'
  <2>1. boot'[e].step \in {"none", "claim"} /\ \A f \in Engine : f # e => boot'[f] = boot[f]
    BY <1>3, <1>a, <1>b, BootMoves, BootStops DEF Look, BootStep
  <2>2. Undisturbed /\ UNCHANGED taskVars
    BY <1>3 DEF Look
  <2> QED
    BY <1>a, <2>1, <2>2, LeaseRests DEF LeaseInv, Asking, Starting
<1>4. ASSUME NEW e \in Engine, ClaimRefused(e) PROVE AskingInv' /\ StartingInv'
  <2>1. boot'[e].step = "none" /\ \A f \in Engine : f # e => boot'[f] = boot[f]
    BY <1>4, <1>a, <1>b, BootStops DEF ClaimRefused
  <2>2. Undisturbed /\ UNCHANGED taskVars
    BY <1>4 DEF ClaimRefused
  <2> QED
    BY <1>a, <2>1, <2>2, LeaseRests DEF LeaseInv, Asking, Starting
<1>5. ASSUME NEW e \in Engine, Start(e) PROVE AskingInv' /\ StartingInv'
  <2>1. boot[e].step = "start" /\ boot'[e].step = "record" /\ boot'[e].rev = boot[e].rev /\ \A f \in Engine : f # e => boot'[f] = boot[f]
    BY <1>5, <1>a, <1>b DEF Start, BootRec, BootAt
  <2>2. Undisturbed /\ UNCHANGED taskVars
    BY <1>5 DEF Start
  <2> QED
    BY <1>a, <2>1, <2>2, LeaseRests DEF LeaseInv, Asking, Starting
<1>6. ASSUME NEW e \in Engine, Record(e) PROVE AskingInv' /\ StartingInv'
  <2>1. boot'[e].step \in {"state", "check"} /\ \A f \in Engine : f # e => boot'[f] = boot[f]
    BY <1>6, <1>a, <1>b, BootMoves DEF Record, BootStep
  <2>2. Undisturbed /\ UNCHANGED taskVars
    BY <1>6 DEF Record
  <2> QED
    BY <1>a, <2>1, <2>2, LeaseRests DEF LeaseInv, Asking, Starting
<1>7. ASSUME NEW e \in Engine, BootRows(e) PROVE AskingInv' /\ StartingInv'
  <2>1. boot'[e].step = "check" /\ \A f \in Engine : f # e => boot'[f] = boot[f]
    BY <1>7, <1>a, <1>b, BootMoves DEF BootRows, BootStep
  <2>2. Undisturbed /\ UNCHANGED taskVars
    BY <1>7 DEF BootRows
  <2> QED
    BY <1>a, <2>1, <2>2, LeaseRests DEF LeaseInv, Asking, Starting
<1>8. ASSUME NEW e \in Engine, Check(e) PROVE AskingInv' /\ StartingInv'
  <2>1. boot'[e].step = "none" /\ \A f \in Engine : f # e => boot'[f] = boot[f]
    BY <1>8, <1>a, <1>b, BootStops DEF Check
  <2>2. Undisturbed /\ UNCHANGED taskVars
    BY <1>8 DEF Check
  <2> QED
    BY <1>a, <2>1, <2>2, LeaseRests DEF LeaseInv, Asking, Starting
<1>9. ASSUME NEW e \in Engine, TakeEvent(e) \/ EventRows(e) \/ CommitEvent(e) \/ Monitor(e) \/ Restart(e)
      PROVE AskingInv' /\ StartingInv'
  <2>1. Undisturbed /\ UNCHANGED taskVars /\ UNCHANGED boot
    BY <1>9 DEF TakeEvent, EventRows, CommitEvent, Monitor, Restart
  <2> QED
    BY <1>a, <2>1, LeaseRests DEF LeaseInv, Asking, Starting
<1>10. ASSUME NEW e \in Engine, LookFails(e) \/ RevisionUnread(e) \/ BootstrapFails(e)
      PROVE AskingInv' /\ StartingInv'
  <2>1. Undisturbed /\ UNCHANGED taskVars /\ Forget(e)
    BY <1>10 DEF LookFails, RevisionUnread, BootstrapFails
  <2>2. boot'[e].step = "none" /\ \A f \in Engine : f # e => boot'[f] = boot[f]
    BY <1>a, <2>1, Forgetting
  <2> QED
    BY <1>a, <2>1, <2>2, LeaseRests DEF LeaseInv, Asking, Starting
<1>20. ASSUME NEW e \in Engine, EventUnread(e) \/ EventThrows(e) \/ ExtendFails(e)
      PROVE AskingInv' /\ StartingInv'
  <2>1. Undisturbed /\ UNCHANGED taskVars /\ UNCHANGED boot
    BY <1>20 DEF EventUnread, EventThrows, ExtendFails
  <2> QED
    BY <1>a, <2>1, LeaseRests DEF LeaseInv, Asking, Starting
<1>11. ASSUME NEW e \in Engine, Claim(e) PROVE AskingInv' /\ StartingInv'
  <2>1. boot'[e].step = "revision" /\ \A f \in Engine : f # e => boot'[f] = boot[f]
    BY <1>11, <1>a, BootMoves DEF Claim, BootStep
  <2>2. /\ Undisturbed /\ ~Finished /\ Claimable(e) /\ boot[e].step = "claim"
        /\ status' = "RUNNING" /\ holder' = e /\ left' = TTL
        /\ count' = count + 1 /\ version' = "REVISION"
    BY <1>11 DEF Claim, ClaimWorkflow, Take, BootAt
  <2>3. \A f \in Engine : ~Asking(f)
    BY <1>a, <1>c, <2>2 DEF LeaseInv, AskingInv, Asking, Claimable
  <2>4. \A f \in Engine : Starting(f)' => Starting(f) /\ f # e
    BY <2>1 DEF Starting
  <2>5. StartingInv'
    BY <1>a, <2>1, <2>2, <2>4 DEF LeaseInv, StartingInv, TypeOK
  <2>6. AskingInv'
    BY <1>a, <2>1, <2>2, <2>3, <2>4 DEF LeaseInv, StartingInv, AskingInv, Asking, TypeOK
  <2> QED
    BY <2>5, <2>6
<1>12. ASSUME NEW e \in Engine, ClaimAnswerLost(e) PROVE AskingInv' /\ StartingInv'
  <2>1. boot'[e].step = "none" /\ \A f \in Engine : f # e => boot'[f] = boot[f]
    BY <1>12, <1>a, BootStops DEF ClaimAnswerLost
  <2>2. /\ Undisturbed /\ ~Finished /\ Claimable(e) /\ boot[e].step = "claim"
        /\ count' = count + 1 /\ version' = "REVISION"
    BY <1>12 DEF ClaimAnswerLost, ClaimWorkflow, BootAt
  <2>3. \A f \in Engine : ~Asking(f)
    BY <1>a, <1>c, <2>2 DEF LeaseInv, AskingInv, Asking, Claimable
  <2> QED
    BY <1>a, <1>c, <2>1, <2>2, <2>3, LeaseFrame DEF LeaseInv, Asking, Starting
<1>13. ASSUME NEW e \in Engine, ReadRevision(e) PROVE AskingInv' /\ StartingInv'
  <2>1. /\ boot'[e].step = "start" /\ boot'[e].rev = IF version = "REVISION" THEN count ELSE 0
        /\ \A f \in Engine : f # e => boot'[f] = boot[f]
    BY <1>13, <1>a, <1>b DEF ReadRevision
  <2>2. Undisturbed /\ Asking(e) /\ UNCHANGED taskVars
    BY <1>13 DEF ReadRevision, BootAt, Asking
  <2>3. AskingInv'
    BY <1>a, <2>1, <2>2 DEF LeaseInv, AskingInv, Asking
  <2>4. version = "REVISION" <=> ~Finished
    BY <1>a, <2>2 DEF LeaseInv, AskingInv, Finished, TypeOK, Outcome
  <2>5. \A f \in Engine : Starting(f) => boot[f].rev # boot'[e].rev /\ boot[f].rev <= count
    BY <1>a, <2>1, <2>2, <2>4 DEF LeaseInv, AskingInv, StartingInv, TypeOK
  <2>6. StartingInv'
    <3>1. \A f \in Engine : f # e => (Starting(f)' <=> Starting(f)) /\ boot'[f].rev = boot[f].rev
      BY <2>1 DEF Starting
    <3>2. boot'[e].rev <= count /\ (boot'[e].rev = 0 => Finished') /\ (Finished => Finished')
      BY <1>a, <1>c, <2>1, <2>2, <2>4 DEF CountInv, Finished
    <3> QED
      BY <1>a, <2>2, <2>5, <3>1, <3>2 DEF LeaseInv, StartingInv
  <2> QED
    BY <2>3, <2>6
<1>14. ASSUME NEW e \in Engine, Extend(e) PROVE AskingInv' /\ StartingInv'
  <2>1. Undisturbed /\ UNCHANGED <<boot, count, version>>
    BY <1>14 DEF Extend
  <2>2. \A f \in Engine : Asking(f) /\ ~Finished => status' = "RUNNING" /\ holder' = f /\ left' >= 1
    BY <1>14, <1>a, <1>c, <2>1 DEF Extend, Take, Claimable, LeaseInv, AskingInv
  <2> QED
    BY <1>a, <1>c, <2>1, <2>2, LeaseFrame DEF LeaseInv, Asking, Starting, Finished
<1>15. ASSUME NEW e \in Engine, Crash(e) PROVE AskingInv' /\ StartingInv'
  <2>1. boot'[e].step = "none" /\ \A f \in Engine : f # e => boot'[f] = boot[f]
    BY <1>15, <1>a, <1>b DEF Crash, NoBoot
  <2>2. /\ Undisturbed /\ UNCHANGED <<status, left, version, count>>
        /\ holder' = IF holder = e THEN Nobody ELSE holder
    BY <1>15 DEF Crash
  <2> QED
    BY <1>a, <1>c, <2>1, <2>2, LeaseFrame DEF LeaseInv, Asking, Starting, Finished
<1>16. ASSUME NEW e \in Engine, NEW th \in {"boot", "event"},
             Reports(e, th)
      PROVE AskingInv' /\ StartingInv'
  <2>1. PICK step \in Reporting : To(e, th, step)
    BY <1>16, <1>a, ReportMoves
  <2>2. \A f \in Engine : /\ Asking(f)' => Asking(f)
                          /\ Starting(f)' => Starting(f) /\ boot'[f].rev = boot[f].rev
    BY <1>a, <2>1, ThreadMoves DEF Asking, Starting, Reporting
  <2>3. Undisturbed /\ count' = count /\ RootDone
    <3>1. RootDone
      BY <1>16, <1>a, ReportMoves
    <3>2. CASE CallFails(e, th)
      BY <3>1, <3>2 DEF CallFails, StateUnread, RefreshFails, ReclaimFails, ReportFails,
                        RefreshWorkflow
    <3>3. CASE ~CallFails(e, th)
      BY <1>16, <3>1, <3>3 DEF Reports, ReadState, Refresh, Reclaim, Report, Rest, RefreshWorkflow,
                               RecordOutcome
    <3> QED
      BY <3>2, <3>3
  <2>4. /\ Finished => Finished'
        /\ version # "NONE" => version' # "NONE"
        /\ \A f \in Engine : ~Finished' /\ status = "RUNNING" /\ holder = f /\ left >= 1
             => status' = "RUNNING" /\ holder' = f /\ left' >= 1
    <3>1. CASE ReadState(e, th)
      BY <3>1 DEF ReadState, Finished
    <3>2. CASE Refresh(e, th)
      BY <3>2 DEF Refresh, RefreshWorkflow, Finished
    <3>3. CASE Reclaim(e, th)
      BY <3>3, <1>c DEF Reclaim, Take, Claimable, Finished
    <3>4. CASE Report(e, th)
      BY <3>4, <2>3 DEF Report, RecordOutcome, RootDone, Outcome, Finished
    <3>5. CASE CallFails(e, th)
      <4>1. CASE StateUnread(e, th) \/ ReportFails(e, th)
        BY <4>1 DEF StateUnread, ReportFails, Finished
      <4>2. CASE RefreshFails(e, th)
        <5>1. CASE UNCHANGED taskVars
          BY <5>1 DEF Finished
        <5>2. CASE status \in {"SUCCEEDED", "FAILED"} /\ RefreshWorkflow
          BY <5>2 DEF RefreshWorkflow, Finished
        <5> QED
          BY <4>2, <5>1, <5>2 DEF RefreshFails
      <4>3. CASE ReclaimFails(e, th)
        <5>1. CASE UNCHANGED taskVars
          BY <5>1 DEF Finished
        <5>2. CASE Claimable(e) /\ Take(e) /\ UNCHANGED <<version, count>>
          BY <5>2, <1>c DEF Take, Claimable, Finished
        <5> QED
          BY <4>3, <5>1, <5>2 DEF ReclaimFails
      <4> QED
        BY <3>5, <4>1, <4>2, <4>3 DEF CallFails
    <3> QED
      BY <1>16, <3>1, <3>2, <3>3, <3>4, <3>5 DEF Reports
  <2> QED
    BY <1>a, <1>c, <2>2, <2>3, <2>4, LeaseFrame DEF LeaseInv, Asking, Starting
<1>17. CASE FinishRoot
  BY <1>17, <1>a, LeaseRests DEF FinishRoot, LeaseInv, Asking, Starting
<1>18. CASE Tick
  <2>1. Undisturbed /\ UNCHANGED <<boot, status, holder, version, count, up>> /\ left' = left - 1
    BY <1>18 DEF Tick
  <2>2. ASSUME NEW f \in Engine, Asking(f), status = "RUNNING", holder = f, left >= 1 PROVE left' >= 1
    <3>1. f \in up
      BY <1>a, <2>2 DEF RootInv, Asking
    <3>2. left # 1
      BY <1>18, <2>2, <3>1 DEF Tick, Timely, Asking
    <3> QED
      BY <1>c, <2>1, <2>2, <3>2
  <2> QED
    BY <1>a, <1>c, <2>1, <2>2, LeaseFrame DEF LeaseInv, Asking, Starting, Finished
<1>19. CASE UNCHANGED vars
  BY <1>19, <1>a, LeaseRests DEF vars, LeaseInv, Asking, Starting
<1> QED
  BY <1>1, <1>2, <1>3, <1>4, <1>5, <1>6, <1>7, <1>8, <1>9, <1>10, <1>11, <1>12, <1>13,
     <1>14, <1>15, <1>16, <1>17, <1>18, <1>19, <1>20
     DEF Next, HandleDiscovered, Orchestrate, BootNext, EventNext, Faulty, Reports

-----------------------------------------------------------------------------
(* The theorems. *)

LEMMA InitInv == Init => IInv
<1> SUFFICES ASSUME Init PROVE IInv
  OBVIOUS
<1> USE EngineAssumption DEF Init
<1>1. /\ \A e \in Engine : boot[e].step = "none" /\ boot[e].root = "none" /\ event[e].step = "none"
      /\ NoBoot \in BootRec /\ NoEvent \in EventRec
  BY DEF NoBoot, NoEvent, BootRec, EventRec, BootStep, EventStep
<1>2. TypeOK
  <2>1. boot \in [Engine -> BootRec] /\ event \in [Engine -> EventRec]
    BY <1>1
  <2>2. left \in -1..TTL /\ count \in 0..MaxRevision /\ faults \in 0..MaxFault
    OBVIOUS
  <2>3. nodes \in [0..MaxRevision -> {"none", "RUNNING", "IDLE", "FAILED"}]
    OBVIOUS
  <2> QED
    BY <2>1, <2>2, <2>3 DEF TypeOK, BootRec, EventRec
<1>3. RootInv /\ KnowInv /\ CountInv /\ LeaseInv
  BY <1>1 DEF RootInv, CountInv, KnowInv, Knows, LeaseInv, Undisturbed, AskingInv, StartingInv, Asking,
              Starting, Reporting, Outcome
<1> QED
  BY <1>2, <1>3 DEF IInv

LEMMA StepInv == IInv /\ [Next]_vars => IInv'
BY TypeStep, KnowStep, CountStep, LeaseStep DEF IInv

LEMMA Invariant == Spec => []IInv
BY InitInv, StepInv, PTL DEF Spec

(* Until the workflow has its outcome some running engine still knows of it, or   *)
(* will: however many engines discover it, lose their claims, crash and restart   *)
(* (workflow-engine.ts, whose discovery cursor never comes back).                 *)
THEOREM NotForgotten == Spec => []SomebodyKnows
<1>1. IInv => SomebodyKnows
  BY DEF IInv, KnowInv, Knows, TypeOK, SomebodyKnows
<1> QED
  BY <1>1, Invariant, PTL

(* Two engines that start the workflow at the same time work in revisions of      *)
(* their own: the lease covers the gap between claimWorkflowTask and the call      *)
(* that asks for its revision.                                                    *)
THEOREM SeparateStarts == Spec => []StartsAreSeparate
<1>1. IInv => StartsAreSeparate
  BY DEF IInv, LeaseInv, Undisturbed, StartingInv, Starting, StartsAreSeparate
<1> QED
  BY <1>1, Invariant, PTL

-----------------------------------------------------------------------------
(***************************************************************************)
(* Split and merge.                                                         *)
(***************************************************************************)
(* Events hold a list or a task's result; who heard of a result, or finished a   *)
(* task, did so by an event, and the last one of a task tells its output.        *)
EventsOK ==
  /\ \A i \in 1..Len(events) : events[i].list # None <=> events[i].task = None
  /\ \A i \in 1..Len(events) : events[i].task # None => output[events[i].task] \in Output
  /\ \A t \in Item : output[t] \in Output => output[t] \in Said(t)
  /\ \A r \in Revision : \A t \in Item : heard[r][t] # None => output[t] \in Output

(* The lists of a revision that lost nothing have one shape, and are one list    *)
(* if nothing is propagated by itself.                                           *)
WaveOf(r) == LastOf(waves[r])
WavesOK ==
  \A r \in Revision \ lossy : \A i \in 1..Len(waves[r]) :
    /\ Shape(waves[r][i]) = Shape(WaveOf(r))
    /\ ~auto => waves[r][i] = WaveOf(r)

(* What the handler holds is what its event says, and what the revision it is    *)
(* in was told.                                                                  *)
Fans ==
  /\ handled < Len(events) /\ Event1.list = h.list /\ h.list \in Lists
  /\ waves[h.rev] # <<>> /\ WaveOf(h.rev) = h.list
  /\ h.todo \subseteq DOMAIN h.list.item /\ h.task = None /\ h.unread = {}
  /\ h.step = "record" => h.todo # {}
Completes ==
  /\ handled < Len(events) /\ Event1.task = h.task /\ h.task \in Item
  /\ h.value \in Output /\ h.value \in Said(h.task)
  /\ h.unread \subseteq RecordsOf(h.rev, h.task)
  /\ h.step = "calls" => h.unread = {}
HandlerOK ==
  /\ h.rev <= active
  /\ h # Idle /\ h.rev # active => active \in lossy
  /\ h.step = "idle" => h = Idle
  /\ h.step \in {"fan", "record"} => Fans
  /\ h.step \in {"pages", "calls"} => Completes

(* A result under a key was said of an item that is, or was, there.              *)
Source(r, k, v) ==
  \E i \in 1..Len(waves[r]) : k \in DOMAIN waves[r][i].item /\ v \in Said(waves[r][i].item[k])
Fits(r, l) == DOMAIN l = DOMAIN Wave(r) /\ \A k \in DOMAIN l : Source(r, k, l[k])
CallsOK ==
  \A c \in Context :
    /\ call[c].step # "none" => h.step \in {"pages", "calls"} /\ rows[h.rev][c].task = h.task
    /\ call[c].step \in {"look", "write"} =>
         h.step = "calls" /\ (h.rev \notin lossy => Fits(h.rev, call[c].list))

(* A row's task runs the item that a list of the revision has under the row's key. *)
InList(l, c, t) == c.key \in DOMAIN l.item /\ c = ElementContext(l, c.key) /\ l.item[c.key] = t
RowsOK ==
  \A r \in Revision : \A c \in Context : rows[r][c].task # None =>
    /\ rows[r][c].inputs = rows[r][c].task
    /\ \E i \in 1..Len(waves[r]) : InList(waves[r][i], c, rows[r][c].task)

AccOK ==
  /\ \A r \in Revision \ lossy : \A k \in DOMAIN acc[r] : Source(r, k, acc[r][k])
  /\ \A r \in Revision : r > active => acc[r] = Nothing /\ \A t \in Item : heard[r][t] = None

(* Every entry of the last list has its row, or will have one.                   *)
ListAgain == h = Idle /\ handled < Len(events) /\ Event1.list = WaveOf(active)
Fanned ==
  waves[active] # <<>> => \A k \in DOMAIN Wave(active) :
    \/ rows[active][ElementContext(WaveOf(active), k)].task = Wave(active)[k]
    \/ h.step \in {"fan", "record"} /\ k \in h.todo
    \/ ListAgain

(* What was heard of a row's task is in the accumulator, or an event is to come. *)
Has(k, v) == k \in DOMAIN acc[active] /\ acc[active][k] = v
HeardOfRows ==
  \A c \in Context : \A t \in Item :
    rows[active][c].task = t /\ heard[active][t] # None =>
      ComesAgain(t) \/ Has(c.key, heard[active][t])
HeardOfNext == h.step = "record" /\ heard[active][Item1] # None => ComesAgain(Item1)
HeardOfTask ==
  h.step \in {"pages", "calls"} => \A c \in Context : rows[active][c].task = h.task =>
    c \in h.unread \/ call[c].step = "merge" \/ Has(c.key, h.value)
HeardOfKeys ==
  Len(waves[active]) = 1 => \A k \in DOMAIN acc[active] :
    heard[active][Wave(active)[k]] # None \/ ComesAgain(Wave(active)[k])

(* A whole accumulator is with the node behind, or on its way.                   *)
InFlight == \E c \in Context : call[c].step \in {"look", "write"} /\ call[c].list = acc[active]
Redo ==
  IF h = Idle
  THEN /\ handled < Len(events) /\ Event1.task # None
       /\ \E c \in Context : rows[active][c].task = Event1.task
  ELSE h.unread # {} \/ \E c \in Context : call[c].step = "merge"
Full ==
  waves[active] # <<>> /\ DOMAIN acc[active] # {} /\ DOMAIN acc[active] = DOMAIN Wave(active)
PassedOnlyFull == next[active].inputs # None => Full
FullIsPassed == Full => next[active].inputs = acc[active] \/ InFlight \/ Redo

Live ==
  /\ Fanned /\ HeardOfRows /\ HeardOfNext /\ HeardOfTask /\ HeardOfKeys
  /\ PassedOnlyFull /\ FullIsPassed
LiveOK == active \notin lossy => Live

SplitInv ==
  /\ SplitTypeOK /\ EventsOK /\ WavesOK /\ HandlerOK /\ CallsOK /\ RowsOK /\ AccOK /\ LiveOK
-----------------------------------------------------------------------------
LEMMA NullsDiffer ==
  /\ None \notin Item /\ None \notin Output /\ None \notin Lists
  /\ Absent \notin Output /\ Absent # None
  BY SplitAssumption

LEMMA ContextFacts ==
  /\ \A l \in Lists : \A k \in DOMAIN l.item :
       /\ ElementContext(l, k) \in Context /\ ElementContext(l, k).key = k
       /\ ElementContext(l, k).shape = Shape(l) /\ l.item[k] \in Item /\ k \in AnyKey /\ k \in Nat
  /\ \A c \in Context : c.key \in AnyKey /\ c.key \in c.shape.keys /\ IsFiniteSet(c.shape.keys)
  /\ \A l : Shape(l).keys = DOMAIN l.item
<1>1. \A l \in Lists : \A k \in DOMAIN l.item :
        /\ ElementContext(l, k) \in Context /\ k \in AnyKey
        /\ l.item[k] \in Item /\ k \in Nat
  BY SplitAssumption DEF Context, AnyKey
<1>2. \A l, k : ElementContext(l, k).key = k /\ ElementContext(l, k).shape = Shape(l)
  BY DEF ElementContext
<1>3. \A l : Shape(l).keys = DOMAIN l.item
  BY DEF Shape
<1>4. \A c \in Context : c.key \in AnyKey /\ c.key \in c.shape.keys /\ IsFiniteSet(c.shape.keys)
  <2> TAKE c \in Context
  <2>1. PICK l \in Lists : \E k \in DOMAIN l.item : c = ElementContext(l, k)
    BY DEF Context
  <2>2. PICK k \in DOMAIN l.item : c = ElementContext(l, k)
    BY <2>1
  <2>3. c.key = k /\ c.shape.keys = DOMAIN l.item
    BY <1>2, <1>3, <2>2
  <2> QED
    BY <1>1, <2>3, SplitAssumption
<1> QED
  BY <1>1, <1>2, <1>3, <1>4

LEMMA Least ==
  ASSUME NEW T \in SUBSET Nat, T # {}
  PROVE  \E x \in T : \A y \in T : x <= y
<1>1. \E x \in T : \A y \in T : ~(<<y, x>> \in OpToRel(<, Nat))
  BY NatLessThanWellFounded, WFMin
<1>2. \A x, y \in Nat : x < y => <<x, y>> \in OpToRel(<, Nat)
  BY DEF OpToRel
<1>3. PICK x \in T : \A y \in T : ~(<<y, x>> \in OpToRel(<, Nat))
  BY <1>1
<1>4. \A y \in T : ~(y < x)
  BY <1>2, <1>3
<1> QED
  BY <1>4

(* The entry that is fanned out next is one of the list's. *)
LEMMA EntryFacts ==
  ASSUME SplitTypeOK, HandlerOK, h.step \in {"fan", "record"}, h.todo # {}
  PROVE  /\ Key1 \in h.todo /\ Key1 \in DOMAIN h.list.item /\ h.list \in Lists
         /\ Item1 \in Item /\ Context1 \in Context /\ Context1.key = Key1
<1>1. h.todo \subseteq DOMAIN h.list.item /\ h.list \in Lists
  BY DEF HandlerOK, Fans
<1>2. h.todo \in SUBSET Nat
  BY <1>1, ContextFacts
<1>3. \E k \in h.todo : \A j \in h.todo : k <= j
  BY <1>2, Least
<1>4. Key1 \in h.todo
  BY <1>3 DEF Key1, FirstOf
<1> QED
  BY <1>1, <1>4, ContextFacts DEF Item1, Context1

LEMMA ResultsFacts ==
  /\ \A f : f \in Results <=> DOMAIN f \subseteq AnyKey /\ f \in [DOMAIN f -> Output]
  /\ Nothing \in Results /\ DOMAIN Nothing = {}
<1>1. \A f : f \in Results => DOMAIN f \subseteq AnyKey /\ f \in [DOMAIN f -> Output]
  <2> TAKE f
  <2> HAVE f \in Results
  <2>1. PICK D \in SUBSET AnyKey : f \in [D -> Output]
    BY DEF Results, Partial
  <2> QED
    BY <2>1
<1>2. \A f : DOMAIN f \subseteq AnyKey /\ f \in [DOMAIN f -> Output] => f \in Results
  BY DEF Results, Partial
<1>3. DOMAIN Nothing = {} /\ Nothing \in [{} -> Output]
  BY DEF Nothing
<1> QED
  BY <1>1, <1>2, <1>3

LEMMA WithKeyFacts ==
  ASSUME NEW f \in Results, NEW k \in AnyKey, NEW v \in Output
  PROVE  /\ WithKey(f, k, v) \in Results /\ DOMAIN WithKey(f, k, v) = DOMAIN f \cup {k}
         /\ WithKey(f, k, v)[k] = v
         /\ \A j \in DOMAIN f : j # k => WithKey(f, k, v)[j] = f[j]
<1>1. DOMAIN f \subseteq AnyKey /\ \A j \in DOMAIN f : f[j] \in Output
  BY ResultsFacts
<1>2. /\ DOMAIN WithKey(f, k, v) = DOMAIN f \cup {k} /\ WithKey(f, k, v)[k] = v
      /\ \A j \in DOMAIN f : j # k => WithKey(f, k, v)[j] = f[j]
      /\ WithKey(f, k, v) \in [DOMAIN f \cup {k} -> Output]
  BY <1>1 DEF WithKey
<1>3. DOMAIN WithKey(f, k, v) \subseteq AnyKey
  BY <1>1, <1>2
<1> QED
  BY <1>2, <1>3, ResultsFacts
-----------------------------------------------------------------------------
(* Types. *)

LEMMA IdleType == Idle \in HandlerRec /\ Idle.rev = 1 /\ Idle.step = "idle" /\ Idle.unread = {}
  BY SplitAssumption DEF Idle, HandlerRec, Revision

LEMMA TypeInit ==
  SplitInit => SplitTypeOK
<1> SUFFICES ASSUME SplitInit PROVE SplitTypeOK
  OBVIOUS
<1>1. /\ auto \in BOOLEAN /\ active \in Revision /\ lossy \in SUBSET Revision /\ trouble \in 0..MaxTrouble
      /\ events \in Seq(SplitEvent) /\ handled \in 0..Len(events)
  BY SplitAssumption DEF SplitInit, Revision
<1>2. /\ rows \in [Revision -> [Context -> Entry]]
      /\ output \in [Item -> Output \cup {None, Absent}]
      /\ heard \in [Revision -> [Item -> Output \cup {None}]]
      /\ waves \in [Revision -> Seq(Lists)]
  BY DEF SplitInit, Entry, NoState
<1>3. /\ acc \in [Revision -> Results]
      /\ next \in [Revision -> NextState]
      /\ call \in [Context -> CallRec]
  BY ResultsFacts DEF SplitInit, CallRec, NoCall, NextState
<1>4. h \in HandlerRec /\ sent \subseteq NodeUpdate
  BY IdleType DEF SplitInit
<1> QED
  BY <1>1, <1>2, <1>3, <1>4 DEF SplitTypeOK

(* What is appended to the events. *)
LEMMA EmitFacts ==
  ASSUME SplitTypeOK, NEW l \in Lists \cup {None}, NEW t \in Item \cup {None}, NEW v \in Output \cup {None},
         Emit(l, t, v)
  PROVE  /\ events' \in Seq(SplitEvent) /\ Len(events') = Len(events) + 1
         /\ \A i \in 1..Len(events) : events'[i] = events[i]
         /\ events'[Len(events) + 1].list = l /\ events'[Len(events) + 1].task = t
         /\ events'[Len(events) + 1].value = v
<1> DEFINE e == [list |-> l, task |-> t, value |-> v]
<1>1. e \in SplitEvent /\ e.list = l /\ e.task = t /\ e.value = v
  BY DEF SplitEvent
<1>2. events' = Append(events, e)
  BY DEF Emit
<1> HIDE DEF e
<1>3. events \in Seq(SplitEvent)
  BY DEF SplitTypeOK
<1> QED
  BY <1>1, <1>2, <1>3

LEMMA HandlerTypes ==
  ASSUME SplitInv
  PROVE  /\ h \in HandlerRec /\ h.rev \in Revision
         /\ \A k \in {"fan", "record"} : h.step = k => h.list \in Lists
         /\ h.step = "calls" => h.value \in Output
  BY DEF SplitInv, SplitTypeOK, HandlerOK, Fans, Completes, HandlerRec

(* The steps that write the handler keep its type. *)
LEMMA HandlerStaysTyped ==
  ASSUME SplitInv, [SplitNext]_splitVars
  PROVE  h' \in HandlerRec
<1> USE DEF HandlerRec
<1>1. h \in HandlerRec /\ active \in Revision /\ Idle \in HandlerRec
  BY IdleType DEF SplitInv, SplitTypeOK
<1>2. CASE TakeList
  <2>1. Event1 \in SplitEvent
    BY <1>2 DEF SplitInv, SplitTypeOK, TakeList, Free, Event1
  <2>2. Event1.list \in Lists /\ DOMAIN Event1.list.item \subseteq AnyKey
    BY <1>2, <2>1 DEF SplitEvent, TakeList, AnyKey
  <2> QED
    BY <1>1, <1>2, <2>2 DEF TakeList
<1>3. CASE TakeResult
  <2>1. Event1 \in SplitEvent
    BY <1>3 DEF SplitInv, SplitTypeOK, TakeResult, Free, Event1
  <2>2. Event1.task \in Item
    BY <1>3, <2>1 DEF SplitEvent, TakeResult
  <2>3. output[Event1.task] \in Output
    <3>1. handled + 1 \in 1..Len(events)
      BY <1>3 DEF SplitInv, SplitTypeOK, TakeResult, Free
    <3> QED
      BY <2>2, <3>1, NullsDiffer DEF SplitInv, EventsOK, Event1
  <2>4. RecordsOf(active, Event1.task) \subseteq Context
    BY DEF RecordsOf
  <2> QED
    BY <1>1, <1>3, <2>2, <2>3, <2>4 DEF TakeResult
<1>4. CASE SkipEntry \/ MarkEntryStale \/ CreateTask \/ RecordTask
  <2>1. h' = NextEntry \/ h' = [h EXCEPT !.step = "record"]
    BY <1>4 DEF SkipEntry, MarkEntryStale, CreateTask, RecordTask
  <2> QED
    BY <1>1, <2>1 DEF NextEntry
<1>5. CASE ReadPage
  BY <1>1, <1>5 DEF ReadPage
<1>6. CASE CommitOffset \/ ProcessEnds
  BY <1>1, <1>6 DEF CommitOffset, ProcessEnds
<1>7. CASE GiveList \/ Fork \/ (\E t \in Item : Work(t) \/ WorkAgain(t)) \/ (\E c \in Context : CallNext(c))
  BY <1>1, <1>7 DEF GiveList, Fork, Work, WorkAgain, FinishTask, CallNext, Merge, SkipNext, Forward, WriteNext,
       NewRevision, loopVars
<1>8. CASE UNCHANGED splitVars
  BY <1>1, <1>8 DEF splitVars, loopVars
<1> QED
  BY <1>2, <1>3, <1>4, <1>5, <1>6, <1>7, <1>8 DEF SplitNext, LoopNext

LEMMA CallsStayTyped ==
  ASSUME SplitInv, [SplitNext]_splitVars
  PROVE  call' \in [Context -> CallRec]
<1>1. call \in [Context -> CallRec] /\ NoCall \in CallRec
  BY ResultsFacts DEF SplitInv, SplitTypeOK, NoCall, CallRec
<1>2. ASSUME NEW c \in Context, Merge(c) PROVE call' \in [Context -> CallRec]
  <2> DEFINE list == WithKey(acc[h.rev], c.key, h.value)
             look == [step |-> "look", list |-> list, start |-> FALSE]
  <2>1. acc[h.rev] \in Results /\ c.key \in AnyKey /\ h.value \in Output
    BY <1>2, HandlerTypes, ContextFacts DEF SplitInv, SplitTypeOK, Merge, CallAt
  <2>2. list \in Results
    BY <2>1, WithKeyFacts
  <2>3. look \in CallRec
    <3> HIDE DEF list
    <3> QED
      BY <2>2 DEF CallRec
  <2>4. call' = [call EXCEPT ![c] = look] \/ call' = [call EXCEPT ![c] = NoCall]
    BY <1>2 DEF Merge, EndCall
  <2> HIDE DEF look
  <2> QED
    BY <1>1, <2>3, <2>4
<1>3. ASSUME NEW c \in Context, Forward(c) PROVE call' \in [Context -> CallRec]
  <2>1. (~Behind.task \/ auto) \in BOOLEAN
    OBVIOUS
  <2>2. [call[c] EXCEPT !.step = "write", !.start = ~Behind.task \/ auto] \in CallRec
    BY <1>1, <2>1 DEF CallRec
  <2> QED
    BY <1>1, <1>3, <2>2 DEF Forward
<1>4. ASSUME NEW c \in Context, SkipNext(c) \/ WriteNext(c) PROVE call' \in [Context -> CallRec]
  <2>1. call' = [call EXCEPT ![c] = NoCall]
    BY <1>4 DEF SkipNext, WriteNext, EndCall
  <2> QED
    BY <1>1, <2>1
<1>5. CASE ReadPage
  <2>1. [NoCall EXCEPT !.step = "merge"] \in CallRec
    BY ResultsFacts DEF NoCall, CallRec
  <2> QED
    BY <1>1, <1>5, <2>1 DEF ReadPage
<1>6. CASE ProcessEnds
  BY <1>1, <1>6 DEF ProcessEnds
<1>7. CASE \/ GiveList \/ Fork \/ (\E t \in Item : Work(t) \/ WorkAgain(t))
           \/ TakeList \/ SkipEntry \/ MarkEntryStale \/ CreateTask \/ RecordTask
           \/ TakeResult \/ CommitOffset \/ UNCHANGED splitVars
  <2>1. UNCHANGED call
    BY <1>7 DEF GiveList, Fork, Work, WorkAgain, FinishTask, TakeList, SkipEntry, MarkEntryStale, CreateTask,
         RecordTask, TakeResult, CommitOffset, splitVars, NewRevision, loopVars
  <2> QED
    BY <1>1, <2>1
<1> QED
  BY <1>2, <1>3, <1>4, <1>5, <1>6, <1>7 DEF SplitNext, LoopNext, CallNext

(* What an update of an entry's row does, sent or dropped. *)
LEMMA RowWritten ==
  ASSUME SplitInv, h.step \in {"fan", "record"}, h.todo # {}, NEW e \in Entry, SetRow(e)
  PROVE  /\ Item1 \in Item /\ Context1 \in Context /\ h.rev \in Revision
         /\ \/ rows' = rows
            \/ rows' = [rows EXCEPT ![h.rev] = [rows[h.rev] EXCEPT ![Context1] = e]]
         /\ lossy' = lossy \/ lossy' = lossy \cup {h.rev}
         /\ h.rev \notin lossy' =>
              rows' = [rows EXCEPT ![h.rev] = [rows[h.rev] EXCEPT ![Context1] = e]]
         /\ sent' \subseteq NodeUpdate
<1>1. /\ Item1 \in Item /\ Context1 \in Context /\ h.rev \in Revision /\ sent \subseteq NodeUpdate
      /\ rows \in [Revision -> [Context -> Entry]]
  BY EntryFacts, HandlerTypes DEF SplitInv, SplitTypeOK
<1> DEFINE u == [rev |-> h.rev, at |-> Context1, state |-> e]
<1>2. u \in NodeUpdate /\ u.rev = h.rev
  BY <1>1 DEF NodeUpdate
<1>3. \/ /\ Send(u) /\ rows' = [rows EXCEPT ![h.rev] = [rows[h.rev] EXCEPT ![Context1] = e]]
         /\ lossy' = lossy
      \/ Drop(u, Row1 = e) /\ rows' = rows
  BY DEF SetRow
<1> HIDE DEF u
<1>4. CASE /\ Send(u) /\ rows' = [rows EXCEPT ![h.rev] = [rows[h.rev] EXCEPT ![Context1] = e]]
           /\ lossy' = lossy
  BY <1>1, <1>2, <1>4 DEF Send
<1>5. CASE Drop(u, Row1 = e) /\ rows' = rows
  <2>1. sent' = sent /\ lossy' = IF Row1 = e THEN lossy ELSE lossy \cup {h.rev}
    BY <1>2, <1>5 DEF Drop
  <2>2. Row1 = e => rows' = [rows EXCEPT ![h.rev] = [rows[h.rev] EXCEPT ![Context1] = e]]
    BY <1>1, <1>5 DEF Row1
  <2> QED
    BY <1>1, <1>5, <2>1, <2>2
<1> QED
  BY <1>3, <1>4, <1>5

StaleEntry == [task |-> None, inputs |-> Item1]
NewEntry == [task |-> Item1, inputs |-> Item1]

LEMMA EntryWritten ==
  ASSUME SplitInv, MarkEntryStale \/ RecordTask
  PROVE  \E e \in Entry :
           /\ SetRow(e) /\ h.step \in {"fan", "record"} /\ h.todo # {}
           /\ (e = StaleEntry /\ MarkEntryStale) \/ (e = NewEntry /\ RecordTask)
<1>1. h.step \in {"fan", "record"} /\ h.todo # {}
  BY DEF SplitInv, MarkEntryStale, RecordTask, Fanning, HandlerOK, Fans
<1>2. Item1 \in Item
  BY <1>1, EntryFacts DEF SplitInv
<1>3. StaleEntry \in Entry /\ NewEntry \in Entry
  BY <1>2 DEF Entry, StaleEntry, NewEntry
<1>4. MarkEntryStale => SetRow(StaleEntry)
  BY DEF MarkEntryStale, StaleEntry
<1>5. RecordTask => SetRow(NewEntry)
  BY DEF RecordTask, NewEntry
<1> QED
  BY <1>1, <1>3, <1>4, <1>5

(* What the write of the node behind the merge does. *)
LEMMA NextWritten ==
  ASSUME SplitInv, NEW c \in Context, WriteNext(c)
  PROVE  /\ h.rev \in Revision /\ h.step = "calls" /\ call[c].step = "write" /\ call[c].list \in Results
         /\ \/ next' = next
            \/ next' = [next EXCEPT ![h.rev] = [task |-> call[c].start, inputs |-> call[c].list]]
         /\ next' \in [Revision -> NextState]
         /\ lossy' = lossy \/ lossy' = lossy \cup {h.rev}
         /\ h.rev \notin lossy' => ~Late(c) /\ next'[h.rev].inputs = call[c].list
         /\ sent' \subseteq NodeUpdate
<1> DEFINE state == [task |-> call[c].start, inputs |-> call[c].list]
           u == [rev |-> h.rev, at |-> None, state |-> state]
<1>1. /\ h.rev \in Revision /\ next \in [Revision -> NextState] /\ sent \subseteq NodeUpdate
      /\ call[c].start \in BOOLEAN /\ call[c].list \in Results
  BY HandlerTypes DEF SplitInv, SplitTypeOK, CallRec
<1>2. state \in NextState /\ state.inputs = call[c].list
  BY <1>1 DEF NextState
<1>3. u \in NodeUpdate /\ u.rev = h.rev
  <2> HIDE DEF state
  <2> QED
    BY <1>1, <1>2 DEF NodeUpdate
<1>4. \/ /\ Send(u) /\ next' = [next EXCEPT ![h.rev] = state]
         /\ lossy' = IF Late(c) THEN lossy \cup {h.rev} ELSE lossy
      \/ Drop(u, next[h.rev] = state /\ ~Late(c)) /\ next' = next
  BY DEF WriteNext, Behind
<1>5. h.step = "calls" /\ call[c].step = "write"
  BY DEF WriteNext, CallAt
<1>6. /\ next' = next \/ next' = [next EXCEPT ![h.rev] = state]
      /\ next' \in [Revision -> NextState]
      /\ lossy' = lossy \/ lossy' = lossy \cup {h.rev}
      /\ h.rev \notin lossy' => ~Late(c) /\ next'[h.rev] = state
      /\ sent' \subseteq NodeUpdate
  <2> HIDE DEF state, u
  <2>1. CASE /\ Send(u) /\ next' = [next EXCEPT ![h.rev] = state]
             /\ lossy' = IF Late(c) THEN lossy \cup {h.rev} ELSE lossy
    BY <1>1, <1>2, <1>3, <2>1 DEF Send
  <2>2. CASE Drop(u, next[h.rev] = state /\ ~Late(c)) /\ next' = next
    <3>1. sent' = sent /\ lossy' = IF next[h.rev] = state /\ ~Late(c) THEN lossy ELSE lossy \cup {h.rev}
      BY <1>3, <2>2 DEF Drop
    <3> QED
      BY <1>1, <2>2, <3>1
  <2> QED
    BY <1>4, <2>1, <2>2
<1> QED
  BY <1>1, <1>2, <1>5, <1>6

(* What a fork gives the new revision. *)
LEMMA Forked ==
  ASSUME SplitInv, Fork
  PROVE  /\ active \in Revision /\ active \in Nat /\ active + 1 \in Revision /\ active' = active + 1
         /\ UNCHANGED <<auto, output, events, handled, h, call, sent>> /\ Trouble
         /\ rows' = [rows EXCEPT ![active + 1] = rows[active]]
         /\ next' = [next EXCEPT ![active + 1] = next[active]]
         /\ waves' = [waves EXCEPT ![active + 1] = waves[active]]
         /\ heard' = [heard EXCEPT ![active + 1] = heard[active]]
         /\ acc' = acc \/ acc' = [acc EXCEPT ![active + 1] = acc[active]]
         /\ lossy' = lossy \/ lossy' = lossy \cup {active + 1}
         /\ active + 1 \notin lossy' => /\ acc' = [acc EXCEPT ![active + 1] = acc[active]]
                                        /\ active \notin lossy /\ (h = Idle \/ h.rev # active)
<1>1. active \in Revision /\ active \in Nat /\ active + 1 \in Revision
  BY SplitAssumption DEF SplitInv, SplitTypeOK, Fork, NewRevision, Revision
<1> QED
  BY <1>1 DEF Fork, NewRevision, loopVars

LEMMA StoresStayTyped ==
  ASSUME SplitInv, [SplitNext]_splitVars
  PROVE  /\ auto' \in BOOLEAN /\ active' \in Revision /\ lossy' \in SUBSET Revision
         /\ trouble' \in 0..MaxTrouble
         /\ rows' \in [Revision -> [Context -> Entry]]
         /\ next' \in [Revision -> NextState] /\ sent' \subseteq NodeUpdate
<1>1. /\ auto \in BOOLEAN /\ active \in Revision /\ lossy \in SUBSET Revision /\ h.rev \in Revision
      /\ trouble \in 0..MaxTrouble /\ MaxTrouble \in Nat /\ sent \subseteq NodeUpdate
      /\ rows \in [Revision -> [Context -> Entry]]
      /\ next \in [Revision -> NextState]
  BY HandlerTypes, SplitAssumption DEF SplitInv, SplitTypeOK
<1>2. CASE Fork
  <2>1. active + 1 \in Revision /\ active' \in Revision /\ auto' = auto /\ sent' = sent
    BY <1>2, Forked
  <2>2. lossy' \in SUBSET Revision
    BY <1>1, <1>2, <2>1, Forked
  <2>3. rows' \in [Revision -> [Context -> Entry]] /\ next' \in [Revision -> NextState]
    <3>1. /\ rows' = [rows EXCEPT ![active + 1] = rows[active]]
          /\ next' = [next EXCEPT ![active + 1] = next[active]]
      BY <1>2, Forked
    <3> QED
      BY <1>1, <2>1, <3>1
  <2>4. trouble' \in 0..MaxTrouble
    BY <1>1, <1>2, Forked DEF Trouble
  <2> QED
    BY <1>1, <2>1, <2>2, <2>3, <2>4
<1>3. CASE MarkEntryStale \/ RecordTask
  <2>1. PICK e \in Entry : SetRow(e) /\ h.step \in {"fan", "record"} /\ h.todo # {}
    BY <1>3, EntryWritten
  <2>2. /\ Context1 \in Context /\ sent' \subseteq NodeUpdate
        /\ lossy' = lossy \/ lossy' = lossy \cup {h.rev}
        /\ rows' = rows \/ rows' = [rows EXCEPT ![h.rev] = [rows[h.rev] EXCEPT ![Context1] = e]]
    BY <2>1, RowWritten
  <2>3. rows' \in [Revision -> [Context -> Entry]] /\ lossy' \in SUBSET Revision
    BY <1>1, <2>2
  <2>4. UNCHANGED <<auto, active, trouble, next>>
    BY <1>3 DEF MarkEntryStale, RecordTask
  <2> QED
    BY <1>1, <2>2, <2>3, <2>4
<1>4. ASSUME NEW c \in Context, WriteNext(c)
      PROVE  /\ auto' \in BOOLEAN /\ active' \in Revision /\ lossy' \in SUBSET Revision
             /\ trouble' \in 0..MaxTrouble
             /\ rows' \in [Revision -> [Context -> Entry]]
             /\ next' \in [Revision -> NextState] /\ sent' \subseteq NodeUpdate
  <2>1. /\ next' \in [Revision -> NextState] /\ sent' \subseteq NodeUpdate
        /\ lossy' = lossy \/ lossy' = lossy \cup {h.rev}
    BY <1>4, NextWritten
  <2>2. UNCHANGED <<auto, active, rows, trouble>>
    BY <1>4 DEF WriteNext
  <2> QED
    BY <1>1, <2>1, <2>2
<1>5. CASE TakeList \/ CreateTask
  BY <1>1, <1>5 DEF TakeList, CreateTask, nodeVars
<1>6. CASE GiveList \/ ProcessEnds \/ \E t \in Item : Work(t) \/ WorkAgain(t)
  BY <1>1, <1>6 DEF GiveList, ProcessEnds, Work, WorkAgain, FinishTask, Trouble, nodeVars
<1>7. CASE \/ SkipEntry \/ TakeResult \/ CommitOffset \/ ReadPage \/ UNCHANGED splitVars
           \/ \E c \in Context : Merge(c) \/ SkipNext(c) \/ Forward(c)
  <2>1. UNCHANGED <<auto, active, lossy, rows, next, trouble, sent>>
    BY <1>7 DEF SkipEntry, TakeResult, CommitOffset, ReadPage, Merge, SkipNext, Forward,
         nodeVars, loopVars, histVars, splitVars
  <2> QED
    BY <1>1, <2>1
<1> QED
  BY <1>2, <1>3, <1>4, <1>5, <1>6, <1>7 DEF SplitNext, LoopNext, CallNext

LEMMA AccStaysTyped ==
  ASSUME SplitInv, [SplitNext]_splitVars
  PROVE  acc' \in [Revision -> Results]
<1>1. acc \in [Revision -> Results]
  BY DEF SplitInv, SplitTypeOK
<1>2. ASSUME NEW c \in Context, Merge(c) PROVE acc' \in [Revision -> Results]
  <2>1. acc[h.rev] \in Results /\ c.key \in AnyKey /\ h.value \in Output
    BY <1>1, <1>2, HandlerTypes, ContextFacts DEF Merge, CallAt
  <2>2. WithKey(acc[h.rev], c.key, h.value) \in Results
    BY <2>1, WithKeyFacts
  <2> QED
    BY <1>1, <1>2, <2>2 DEF Merge
<1>4. CASE Fork
  <2>1. active \in Revision /\ (acc' = acc \/ acc' = [acc EXCEPT ![active + 1] = acc[active]])
    BY <1>4, Forked
  <2> QED
    BY <1>1, <2>1
<1>3. CASE ~Fork /\ ~\E c \in Context : Merge(c)
  <2>1. UNCHANGED acc
    BY <1>3 DEF SplitNext, LoopNext, CallNext, GiveList, Fork, Work, WorkAgain, FinishTask, TakeList, SkipEntry,
         MarkEntryStale, CreateTask, RecordTask, TakeResult, ReadPage, CommitOffset, ProcessEnds, SkipNext,
         Forward, WriteNext, nodeVars, splitVars, NewRevision, loopVars
  <2> QED
    BY <1>1, <2>1
<1> QED
  BY <1>2, <1>3, <1>4

(* Every step leaves the events alone or appends one: a list, or what a task of  *)
(* the store has just given.                                                     *)
LEMMA EventSteps ==
  ASSUME SplitInv, [SplitNext]_splitVars
  PROVE  \/ events' = events
         \/ \E l \in Lists : Emit(l, None, None) /\ output' = output
         \/ \E t \in Item, v \in Output : Emit(None, t, v) /\ output' = [output EXCEPT ![t] = v]
<1>1. CASE GiveList
  BY <1>1 DEF GiveList, nodeVars
<1>2. ASSUME NEW t \in Item, Work(t) \/ WorkAgain(t)
      PROVE \E u \in Item, v \in Output : Emit(None, u, v) /\ output' = [output EXCEPT ![u] = v]
  BY <1>2 DEF Work, WorkAgain, FinishTask
<1>3. CASE ~GiveList /\ ~\E t \in Item : Work(t) \/ WorkAgain(t)
  BY <1>3 DEF SplitNext, LoopNext, CallNext, Fork, TakeList, SkipEntry, MarkEntryStale, CreateTask, RecordTask,
       TakeResult, ReadPage, CommitOffset, ProcessEnds, Merge, SkipNext, Forward, WriteNext, splitVars,
       NewRevision, loopVars
<1> QED
  BY <1>1, <1>2, <1>3

LEMMA EventsGrow ==
  ASSUME SplitInv, [SplitNext]_splitVars
  PROVE  /\ events' \in Seq(SplitEvent) /\ Len(events) <= Len(events')
         /\ Len(events) \in Nat /\ Len(events') \in Nat
         /\ \A i \in 1..Len(events) : i \in 1..Len(events') /\ events'[i] = events[i]
<1>1. events \in Seq(SplitEvent) /\ Len(events) \in Nat
  BY DEF SplitInv, SplitTypeOK
<1>2. CASE events' = events
  BY <1>1, <1>2
<1>3. ASSUME NEW l \in Lists, Emit(l, None, None)
      PROVE  /\ events' \in Seq(SplitEvent) /\ Len(events') = Len(events) + 1
             /\ \A i \in 1..Len(events) : events'[i] = events[i]
  BY <1>3, EmitFacts DEF SplitInv
<1>4. ASSUME NEW t \in Item, NEW v \in Output, Emit(None, t, v)
      PROVE  /\ events' \in Seq(SplitEvent) /\ Len(events') = Len(events) + 1
             /\ \A i \in 1..Len(events) : events'[i] = events[i]
  BY <1>4, EmitFacts DEF SplitInv
<1>5. CASE /\ events' \in Seq(SplitEvent) /\ Len(events') = Len(events) + 1
           /\ \A i \in 1..Len(events) : events'[i] = events[i]
  BY <1>1, <1>5
<1> QED
  BY <1>2, <1>3, <1>4, <1>5, EventSteps

(* The events committed, and the one to come. *)
LEMMA HandledSteps ==
  ASSUME SplitInv, [SplitNext]_splitVars
  PROVE  /\ handled' = handled \/ CommitOffset
         /\ CommitOffset => /\ handled' = handled + 1 /\ handled < Len(events) /\ events' = events
         /\ handled \in Nat /\ handled' \in 0..Len(events')
<1>1. handled \in Nat /\ handled \in 0..Len(events)
  BY DEF SplitInv, SplitTypeOK
<1>2. CASE CommitOffset
  <2>1. handled < Len(events)
    BY <1>2 DEF SplitInv, HandlerOK, Fans, Completes, CommitOffset
  <2> QED
    BY <1>1, <1>2, <2>1, EventsGrow DEF CommitOffset
<1>3. CASE ~CommitOffset
  <2>1. handled' = handled
    BY <1>3 DEF SplitNext, LoopNext, CallNext, GiveList, Work, WorkAgain, FinishTask, Fork, TakeList, SkipEntry,
         MarkEntryStale, CreateTask, RecordTask, TakeResult, ReadPage, ProcessEnds, Merge, SkipNext, Forward,
         WriteNext, splitVars, NewRevision, loopVars
  <2> QED
    BY <1>1, <1>3, <2>1, EventsGrow
<1> QED
  BY <1>2, <1>3

LEMMA OutputsStayTyped ==
  ASSUME SplitInv, [SplitNext]_splitVars
  PROVE  output' \in [Item -> Output \cup {None, Absent}]
<1>1. output \in [Item -> Output \cup {None, Absent}]
  BY DEF SplitInv, SplitTypeOK
<1>2. CASE CreateTask
  <2>1. Item1 \in Item
    BY <1>2, EntryFacts DEF SplitInv, CreateTask, Fanning
  <2> QED
    BY <1>1, <1>2, <2>1 DEF CreateTask
<1>3. ASSUME NEW t \in Item, Work(t) \/ WorkAgain(t) PROVE output' \in [Item -> Output \cup {None, Absent}]
  BY <1>1, <1>3 DEF Work, WorkAgain, FinishTask
<1>4. CASE ~CreateTask /\ ~\E t \in Item : Work(t) \/ WorkAgain(t)
  <2>1. UNCHANGED output
    BY <1>4 DEF SplitNext, LoopNext, CallNext, GiveList, Fork, TakeList, SkipEntry, MarkEntryStale, RecordTask,
         TakeResult, ReadPage, CommitOffset, ProcessEnds, Merge, SkipNext, Forward, WriteNext, nodeVars,
         splitVars, NewRevision, loopVars
  <2> QED
    BY <1>1, <2>1
<1> QED
  BY <1>2, <1>3, <1>4

(* The lists of a revision only grow, but for those of a fork's, which are its   *)
(* parent's.                                                                     *)
LEMMA WaveSteps ==
  ASSUME SplitInv, [SplitNext]_splitVars
  PROVE  \/ waves' = waves
         \/ Fork /\ waves' = [waves EXCEPT ![active + 1] = waves[active]]
         \/ TakeList /\ waves' = [waves EXCEPT ![active] = Append(waves[active], Event1.list)]
<1>1. CASE TakeList
  <2>1. waves \in [Revision -> Seq(Lists)] /\ active \in Revision
    BY DEF SplitInv, SplitTypeOK
  <2>2. CASE waves[active] # <<>> /\ LastOf(waves[active]) = Event1.list
    <3>1. waves' = [waves EXCEPT ![active] = waves[active]]
      BY <1>1, <2>2 DEF TakeList
    <3> QED
      BY <2>1, <3>1
  <2>3. CASE ~(waves[active] # <<>> /\ LastOf(waves[active]) = Event1.list)
    BY <1>1, <2>3 DEF TakeList
  <2> QED
    BY <2>2, <2>3
<1>2. CASE Fork
  BY <1>2 DEF Fork, NewRevision, loopVars
<1>3. CASE ~TakeList /\ ~Fork
  BY <1>3 DEF SplitNext, LoopNext, CallNext, GiveList, Work, WorkAgain, FinishTask, SkipEntry, MarkEntryStale,
       CreateTask, RecordTask, TakeResult, ReadPage, CommitOffset, ProcessEnds, Merge, SkipNext, Forward,
       WriteNext, histVars, splitVars, loopVars
<1> QED
  BY <1>1, <1>2, <1>3

LEMMA TakenList ==
  ASSUME SplitInv, TakeList
  PROVE  Event1.list \in Lists /\ handled + 1 \in 1..Len(events) /\ h = Idle /\ Event1.task = None
<1>1. handled + 1 \in 1..Len(events) /\ events \in Seq(SplitEvent)
  BY DEF SplitInv, SplitTypeOK, TakeList, Free
<1>2. Event1 \in SplitEvent /\ Event1.list # None
  BY <1>1 DEF Event1, TakeList
<1> QED
  BY <1>1, <1>2 DEF SplitEvent, TakeList, Free, SplitInv, EventsOK, Event1

LEMMA WavesStayTyped ==
  ASSUME SplitInv, [SplitNext]_splitVars
  PROVE  waves' \in [Revision -> Seq(Lists)]
<1>1. waves \in [Revision -> Seq(Lists)] /\ active \in Revision
  BY DEF SplitInv, SplitTypeOK
<1>2. CASE TakeList /\ waves' = [waves EXCEPT ![active] = Append(waves[active], Event1.list)]
  <2>1. Append(waves[active], Event1.list) \in Seq(Lists)
    BY <1>1, <1>2, TakenList
  <2> QED
    BY <1>1, <1>2, <2>1
<1>3. CASE waves' = waves \/ (Fork /\ waves' = [waves EXCEPT ![active + 1] = waves[active]])
  BY <1>1, <1>3
<1> QED
  BY <1>2, <1>3, WaveSteps

LEMMA HeardSteps ==
  ASSUME SplitInv, [SplitNext]_splitVars
  PROVE  \/ heard' = heard
         \/ Fork /\ heard' = [heard EXCEPT ![active + 1] = heard[active]]
         \/ /\ CommitOffset /\ h.step = "calls" /\ h.task \in Item /\ h.value \in Output
            /\ heard' = [heard EXCEPT ![h.rev] = [heard[h.rev] EXCEPT ![h.task] = h.value]]
<1>1. CASE CommitOffset
  <2>1. h.step = "fan" => h.task = None
    BY DEF SplitInv, HandlerOK, Fans
  <2>2. h.step = "calls" => h.task \in Item /\ h.value \in Output
    BY DEF SplitInv, HandlerOK, Completes
  <2>3. CASE h.task = None
    BY <1>1, <2>3 DEF CommitOffset
  <2>4. CASE h.task # None
    <3>1. heard' = [heard EXCEPT ![h.rev] = [heard[h.rev] EXCEPT ![h.task] = h.value]]
      BY <1>1, <2>4 DEF CommitOffset
    <3> QED
      BY <1>1, <2>1, <2>2, <2>4, <3>1 DEF CommitOffset
  <2> QED
    BY <2>3, <2>4
<1>3. CASE Fork
  BY <1>3, Forked
<1>2. CASE ~CommitOffset /\ ~Fork
  BY <1>2 DEF SplitNext, LoopNext, CallNext, GiveList, Work, WorkAgain, FinishTask, Fork, TakeList, SkipEntry,
       MarkEntryStale, CreateTask, RecordTask, TakeResult, ReadPage, ProcessEnds, Merge, SkipNext, Forward,
       WriteNext, histVars, splitVars, NewRevision, loopVars
<1> QED
  BY <1>1, <1>2, <1>3

LEMMA SplitTypeStep ==
  ASSUME SplitInv, [SplitNext]_splitVars
  PROVE  SplitTypeOK'
<1>1. heard' \in [Revision -> [Item -> Output \cup {None}]]
  <2>1. heard \in [Revision -> [Item -> Output \cup {None}]]
    BY DEF SplitInv, SplitTypeOK
  <2>2. Fork => active \in Revision
    BY Forked
  <2> QED
    BY <2>1, <2>2, HeardSteps
<1>2. handled' \in 0..Len(events')
  BY HandledSteps
<1> QED
  BY <1>1, <1>2, EventsGrow, HandlerStaysTyped, CallsStayTyped, StoresStayTyped, AccStaysTyped, OutputsStayTyped,
     WavesStayTyped DEF SplitTypeOK
-----------------------------------------------------------------------------
(* Events. *)

LEMMA EventTypes ==
  ASSUME SplitTypeOK, NEW i \in 1..Len(events)
  PROVE  /\ events[i].list \in Lists \cup {None} /\ events[i].task \in Item \cup {None}
         /\ events[i].value \in Output \cup {None}
<1>1. events[i] \in SplitEvent
  BY DEF SplitTypeOK
<1> QED
  BY <1>1 DEF SplitEvent

LEMMA SaidGrows ==
  ASSUME SplitInv, [SplitNext]_splitVars, NEW t
  PROVE  Said(t) \subseteq Said(t)'
<1>1. DOMAIN events = 1..Len(events) /\ DOMAIN events' = 1..Len(events')
  BY EventsGrow DEF SplitInv, SplitTypeOK
<1>2. ASSUME NEW v \in Said(t) PROVE v \in Said(t)'
  <2>1. PICK i \in 1..Len(events) : events[i].task = t /\ events[i].value = v
    BY <1>1, <1>2 DEF Said
  <2>2. i \in 1..Len(events') /\ events'[i].task = t /\ events'[i].value = v
    BY <2>1, EventsGrow
  <2> QED
    BY <1>1, <2>2 DEF Said
<1> QED
  BY <1>2

LEMMA EventsStep ==
  ASSUME SplitInv, [SplitNext]_splitVars
  PROVE  EventsOK'
<1> DEFINE old == Len(events)
<1>1. /\ old \in Nat /\ DOMAIN events = 1..old /\ DOMAIN events' = 1..Len(events')
      /\ \A i \in 1..old : events'[i] = events[i]
  BY EventsGrow DEF SplitInv, SplitTypeOK
<1>2. output \in [Item -> Output \cup {None, Absent}] /\ heard \in [Revision -> [Item -> Output \cup {None}]]
  BY DEF SplitInv, SplitTypeOK
<1>3. /\ \A i \in 1..old : events[i].list # None <=> events[i].task = None
      /\ \A i \in 1..old : events[i].task # None => events[i].task \in Item /\ output[events[i].task] \in Output
      /\ \A t \in Item : output[t] \in Output => output[t] \in Said(t)
      /\ \A r \in Revision : \A t \in Item : heard[r][t] # None => output[t] \in Output
  <2>1. \A i \in 1..old : events[i].task \in Item \cup {None}
    BY EventTypes DEF SplitInv
  <2> QED
    BY <2>1 DEF SplitInv, EventsOK
<1>4. \A t \in Item : output[t] \in Output => output'[t] \in Output
  <2>1. CASE CreateTask
    <3>1. Item1 \in Item
      BY <2>1, EntryFacts DEF SplitInv, CreateTask, Fanning
    <3> QED
      BY <1>2, <2>1, <3>1, NullsDiffer DEF CreateTask
  <2>2. ASSUME NEW u \in Item, Work(u) \/ WorkAgain(u) PROVE \A t \in Item : output[t] \in Output => output'[t] \in Output
    BY <1>2, <2>2 DEF Work, WorkAgain, FinishTask
  <2>3. CASE ~CreateTask /\ ~\E u \in Item : Work(u) \/ WorkAgain(u)
    <3>1. UNCHANGED output
      BY <2>3 DEF SplitNext, LoopNext, CallNext, GiveList, Fork, TakeList, SkipEntry, MarkEntryStale,
           RecordTask, TakeResult, ReadPage, CommitOffset, ProcessEnds, Merge, SkipNext, Forward, WriteNext,
           nodeVars, splitVars, NewRevision, loopVars
    <3> QED
      BY <3>1
  <2> QED
    BY <2>1, <2>2, <2>3
<1>5. /\ \A i \in 1..Len(events') : events'[i].list # None <=> events'[i].task = None
      /\ \A i \in 1..Len(events') : events'[i].task # None => output'[events'[i].task] \in Output
  <2>1. CASE events' = events
    BY <1>3, <1>4, <2>1
  <2>2. ASSUME NEW l \in Lists, Emit(l, None, None)
        PROVE  /\ \A i \in 1..Len(events') : events'[i].list # None <=> events'[i].task = None
               /\ \A i \in 1..Len(events') : events'[i].task # None => output'[events'[i].task] \in Output
    <3>1. /\ Len(events') = old + 1 /\ \A i \in 1..old : events'[i] = events[i]
          /\ events'[old + 1].list = l /\ events'[old + 1].task = None
      BY <2>2, EmitFacts DEF SplitInv
    <3> HIDE DEF old
    <3>2. \A i \in 1..Len(events') : i \in 1..old \/ i = old + 1
      BY <1>1, <3>1
    <3> QED
      BY <1>3, <1>4, <3>1, <3>2, NullsDiffer
  <2>3. ASSUME NEW t \in Item, NEW v \in Output, Emit(None, t, v), output' = [output EXCEPT ![t] = v]
        PROVE  /\ \A i \in 1..Len(events') : events'[i].list # None <=> events'[i].task = None
               /\ \A i \in 1..Len(events') : events'[i].task # None => output'[events'[i].task] \in Output
    <3>1. /\ Len(events') = old + 1 /\ \A i \in 1..old : events'[i] = events[i]
          /\ events'[old + 1].list = None /\ events'[old + 1].task = t
      BY <2>3, EmitFacts DEF SplitInv
    <3>2. output'[t] \in Output
      BY <1>2, <2>3
    <3> HIDE DEF old
    <3>3. \A i \in 1..Len(events') : i \in 1..old \/ i = old + 1
      BY <1>1, <3>1
    <3> QED
      BY <1>3, <1>4, <3>1, <3>2, <3>3, NullsDiffer
  <2> QED
    BY <2>1, <2>2, <2>3, EventSteps
<1>6. \A t \in Item : output'[t] \in Output => output'[t] \in Said(t)'
  <2> SUFFICES ASSUME NEW t \in Item, output'[t] \in Output PROVE output'[t] \in Said(t)'
    OBVIOUS
  <2>1. CASE output[t] = output'[t]
    BY <1>3, <2>1, SaidGrows
  <2>2. ASSUME NEW u \in Item, NEW v \in Output, Emit(None, u, v), output' = [output EXCEPT ![u] = v],
               output[t] # output'[t]
        PROVE  output'[t] \in Said(t)'
    <3>1. u = t /\ output'[t] = v
      BY <1>2, <2>2
    <3>2. Len(events') = old + 1 /\ events'[old + 1].task = t /\ events'[old + 1].value = v
      BY <2>2, <3>1, EmitFacts DEF SplitInv
    <3>3. old + 1 \in DOMAIN events'
      BY <1>1, <3>2
    <3> QED
      BY <3>1, <3>2, <3>3 DEF Said
  <2>3. CASE CreateTask
    <3>1. Item1 \in Item
      BY <2>3, EntryFacts DEF SplitInv, CreateTask, Fanning
    <3>2. output[t] = output'[t]
      BY <1>2, <2>3, <3>1, NullsDiffer DEF CreateTask
    <3> QED
      BY <2>1, <3>2
  <2>4. ASSUME NEW u \in Item, Work(u) \/ WorkAgain(u) PROVE output'[t] \in Said(t)'
    <3>1. PICK v \in Output : Emit(None, u, v) /\ output' = [output EXCEPT ![u] = v]
      BY <2>4 DEF Work, WorkAgain, FinishTask
    <3> QED
      BY <2>1, <2>2, <3>1
  <2>5. CASE ~CreateTask /\ ~\E u \in Item : Work(u) \/ WorkAgain(u)
    <3>1. UNCHANGED output
      BY <2>5 DEF SplitNext, LoopNext, CallNext, GiveList, Fork, TakeList, SkipEntry, MarkEntryStale,
           RecordTask, TakeResult, ReadPage, CommitOffset, ProcessEnds, Merge, SkipNext, Forward, WriteNext,
           nodeVars, splitVars, NewRevision, loopVars
    <3> QED
      BY <2>1, <3>1
  <2> QED
    BY <2>3, <2>4, <2>5
<1>7. \A r \in Revision : \A t \in Item : heard'[r][t] # None => output'[t] \in Output
  <2>1. CASE heard' = heard
    BY <1>3, <1>4, <2>1
  <2>2. CASE /\ CommitOffset /\ h.step = "calls" /\ h.task \in Item /\ h.value \in Output
             /\ heard' = [heard EXCEPT ![h.rev] = [heard[h.rev] EXCEPT ![h.task] = h.value]]
    <3>1. Event1.task = h.task /\ handled + 1 \in 1..old
      BY <1>1, <2>2, HandledSteps DEF SplitInv, HandlerOK, Completes
    <3>2. output[h.task] \in Output
      BY <1>3, <2>2, <3>1, NullsDiffer DEF Event1
    <3> QED
      BY <1>2, <1>3, <1>4, <2>2, <3>2
  <2>3. CASE Fork /\ heard' = [heard EXCEPT ![active + 1] = heard[active]]
    <3>1. active \in Revision
      BY <2>3, Forked
    <3>2. \A r \in Revision : heard'[r] = heard[r] \/ heard'[r] = heard[active]
      BY <1>2, <2>3
    <3> QED
      BY <1>3, <1>4, <3>1, <3>2
  <2> QED
    BY <2>1, <2>2, <2>3, HeardSteps
<1> QED
  BY <1>5, <1>6, <1>7 DEF EventsOK
-----------------------------------------------------------------------------
(* Lists, and results said of their items. *)

(* Which revisions a step leaves in the set of the lossy ones. *)
LEMMA LossySteps ==
  ASSUME SplitInv, [SplitNext]_splitVars
  PROVE  lossy \subseteq lossy'
<1>1. CASE Fork
  BY <1>1, Forked
<1>2. CASE TakeList \/ CreateTask
  BY <1>2 DEF TakeList, CreateTask
<1>3. ASSUME NEW c \in Context, WriteNext(c) PROVE lossy \subseteq lossy'
  BY <1>3, NextWritten
<1>4. CASE MarkEntryStale \/ RecordTask
  <2>1. PICK e \in Entry : SetRow(e) /\ h.step \in {"fan", "record"} /\ h.todo # {}
    BY <1>4, EntryWritten
  <2> QED
    BY <2>1, RowWritten
<1>5. CASE \/ GiveList \/ ProcessEnds \/ SkipEntry \/ TakeResult \/ ReadPage \/ CommitOffset
           \/ (\E t \in Item : Work(t) \/ WorkAgain(t)) \/ UNCHANGED splitVars
           \/ \E c \in Context : Merge(c) \/ SkipNext(c) \/ Forward(c)
  <2>1. UNCHANGED lossy
    BY <1>5 DEF GiveList, Work, WorkAgain, FinishTask, SkipEntry, TakeResult, ReadPage, CommitOffset,
       ProcessEnds, Merge, SkipNext, Forward, histVars, splitVars
  <2> QED
    BY <2>1
<1> QED
  BY <1>1, <1>2, <1>3, <1>4, <1>5 DEF SplitNext, LoopNext, CallNext

LEMMA AutoStays ==
  ASSUME [SplitNext]_splitVars
  PROVE  auto' = auto
  BY DEF SplitNext, LoopNext, CallNext, GiveList, Work, WorkAgain, FinishTask, Fork, TakeList, CreateTask,
       SkipEntry, MarkEntryStale, RecordTask, TakeResult, ReadPage, CommitOffset, ProcessEnds, Merge, SkipNext,
       Forward, WriteNext, nodeVars, splitVars, NewRevision, loopVars

LEMMA ActiveSteps ==
  ASSUME SplitInv, [SplitNext]_splitVars
  PROVE  \/ active' = active
         \/ Fork /\ active' = active + 1 /\ active + 1 \in Revision
<1>1. CASE Fork
  BY <1>1, SplitAssumption DEF SplitInv, SplitTypeOK, Fork, Revision, NewRevision, loopVars
<1>2. CASE ~Fork
  BY <1>2 DEF SplitNext, LoopNext, CallNext, GiveList, Work, WorkAgain, FinishTask, TakeList, CreateTask,
       SkipEntry, MarkEntryStale, RecordTask, TakeResult, ReadPage, CommitOffset, ProcessEnds, Merge, SkipNext,
       Forward, WriteNext, nodeVars, splitVars, loopVars
<1> QED
  BY <1>1, <1>2

LEMMA WavesGrow ==
  ASSUME SplitInv, [SplitNext]_splitVars, NEW r \in Revision, ~Fork \/ r # active + 1
  PROVE  /\ Len(waves[r]) \in Nat /\ Len(waves'[r]) \in Nat /\ Len(waves[r]) <= Len(waves'[r])
         /\ \A i \in 1..Len(waves[r]) : i \in 1..Len(waves'[r]) /\ waves'[r][i] = waves[r][i]
         /\ waves[r] # <<>> => waves'[r] # <<>>
         /\ r # active \/ ~TakeList => waves'[r] = waves[r]
<1>1. waves \in [Revision -> Seq(Lists)] /\ active \in Revision /\ waves[r] \in Seq(Lists)
  BY DEF SplitInv, SplitTypeOK
<1>2. CASE waves'[r] = waves[r]
  BY <1>1, <1>2
<1>3. CASE TakeList /\ r = active /\ waves'[r] = Append(waves[r], Event1.list)
  <2>1. Event1.list \in Lists
    BY <1>3, TakenList
  <2> PICK s, w, l : s = waves[r] /\ w = waves'[r] /\ l = Event1.list
    OBVIOUS
  <2>2. s \in Seq(Lists) /\ l \in Lists /\ w = Append(s, l)
    BY <1>1, <1>3, <2>1
  <2>3. /\ Len(s) \in Nat /\ Len(w) = Len(s) + 1 /\ w # <<>>
        /\ \A i \in 1..Len(s) : w[i] = s[i]
    BY <2>2
  <2>4. Len(s) <= Len(w) /\ Len(w) \in Nat /\ \A i \in 1..Len(s) : i \in 1..Len(w)
    BY <2>3
  <2> QED
    BY <1>3, <2>3, <2>4
<1> QED
  BY <1>1, <1>2, <1>3, WaveSteps

LEMMA WaveTypes ==
  ASSUME SplitTypeOK, NEW r \in Revision
  PROVE  /\ waves[r] \in Seq(Lists) /\ Len(waves[r]) \in Nat
         /\ \A i \in 1..Len(waves[r]) : waves[r][i] \in Lists
         /\ waves[r] # <<>> => /\ Len(waves[r]) \in 1..Len(waves[r]) /\ WaveOf(r) \in Lists
                               /\ WaveOf(r) = waves[r][Len(waves[r])] /\ Wave(r) = WaveOf(r).item
  BY DEF SplitTypeOK, WaveOf, LastOf, Wave

LEMMA WavesStep ==
  ASSUME SplitInv, [SplitNext]_splitVars
  PROVE  WavesOK'
<1>1. waves \in [Revision -> Seq(Lists)] /\ active \in Revision
  BY DEF SplitInv, SplitTypeOK
<1> SUFFICES ASSUME NEW r \in Revision, r \notin lossy', NEW i \in 1..Len(waves'[r])
             PROVE  /\ Shape(waves'[r][i]) = Shape(LastOf(waves'[r]))
                    /\ ~auto => waves'[r][i] = LastOf(waves'[r])
  BY AutoStays DEF WavesOK, WaveOf
<1>2. ASSUME NEW q \in Revision, q \notin lossy, waves'[r] = waves[q]
      PROVE  /\ Shape(waves'[r][i]) = Shape(LastOf(waves'[r]))
             /\ ~auto => waves'[r][i] = LastOf(waves'[r])
  BY <1>2 DEF SplitInv, WavesOK, WaveOf
<1>3. CASE waves' = waves
  BY <1>2, <1>3, LossySteps
<1>4. CASE Fork /\ waves' = [waves EXCEPT ![active + 1] = waves[active]]
  <2>1. r = active + 1 => active \notin lossy
    BY <1>4, Forked
  <2>2. waves'[r] = IF r = active + 1 THEN waves[active] ELSE waves[r]
    BY <1>1, <1>4
  <2> QED
    BY <1>1, <1>2, <2>1, <2>2, LossySteps
<1>5. CASE TakeList /\ waves' = [waves EXCEPT ![active] = Append(waves[active], Event1.list)]
  <2>1. CASE r # active
    <3>1. waves'[r] = waves[r]
      BY <1>1, <1>5, <2>1
    <3> QED
      BY <1>2, <3>1, LossySteps
  <2>2. CASE r = active
    <3> PICK s, l : s = waves[r] /\ l = Event1.list
      OBVIOUS
    <3>1. s \in Seq(Lists) /\ l \in Lists /\ waves'[r] = Append(s, l) /\ r \notin lossy
      BY <1>1, <1>5, <2>2, TakenList, LossySteps
    <3>2. Len(Append(s, l)) = Len(s) + 1 /\ LastOf(Append(s, l)) = l /\ Len(s) \in Nat
      BY <3>1 DEF LastOf
    <3>3. CASE i = Len(s) + 1
      <4>1. waves'[r][i] = l
        BY <3>1, <3>2, <3>3
      <4> QED
        BY <3>1, <3>2, <4>1
    <3>4. CASE i # Len(s) + 1
      <4>1. i \in 1..Len(s) /\ waves'[r][i] = s[i] /\ s # <<>>
        BY <3>1, <3>2, <3>4
      <4>2. Shape(s[i]) = Shape(LastOf(s)) /\ (~auto => s[i] = LastOf(s))
        BY <3>1, <4>1 DEF SplitInv, WavesOK, WaveOf
      <4>3. ~Clashes(r, l)
        BY <1>5, <2>2, <3>1 DEF TakeList
      <4>4. LastOf(s) = l \/ (Shape(LastOf(s)) = Shape(l) /\ auto)
        BY <4>1, <4>3 DEF Clashes
      <4> QED
        BY <3>1, <3>2, <4>1, <4>2, <4>4
    <3> QED
      BY <3>3, <3>4
  <2> QED
    BY <2>1, <2>2
<1> QED
  BY <1>3, <1>4, <1>5, WaveSteps

LEMMA SourceStays ==
  ASSUME SplitInv, [SplitNext]_splitVars, NEW r \in Revision, NEW k, NEW v, Source(r, k, v),
         ~Fork \/ r # active + 1
  PROVE  Source(r, k, v)'
<1>1. PICK i \in 1..Len(waves[r]) : k \in DOMAIN waves[r][i].item /\ v \in Said(waves[r][i].item[k])
  BY DEF Source
<1>2. i \in 1..Len(waves'[r]) /\ waves'[r][i] = waves[r][i]
  BY WavesGrow
<1>3. v \in Said(waves[r][i].item[k])'
  BY <1>1, <1>2, SaidGrows
<1> QED
  BY <1>1, <1>2, <1>3 DEF Source
-----------------------------------------------------------------------------
(* The handler. *)

LEMMA EventStays ==
  ASSUME SplitInv, [SplitNext]_splitVars, handled < Len(events), handled' = handled
  PROVE  Event1' = Event1 /\ handled' < Len(events')
<1>1. handled + 1 \in 1..Len(events) /\ Len(events) <= Len(events') /\ Len(events') \in Nat
  BY EventsGrow, HandledSteps
<1>2. events'[handled + 1] = events[handled + 1]
  BY <1>1, EventsGrow
<1> QED
  BY <1>1, <1>2, HandledSteps DEF Event1

LEMMA HandlerLeft ==
  ASSUME SplitInv, [SplitNext]_splitVars,
         \/ GiveList \/ Fork \/ (\E t \in Item : Work(t) \/ WorkAgain(t))
         \/ (\E c \in Context : CallNext(c)) \/ UNCHANGED splitVars
  PROVE  h' = h /\ rows'[h.rev] = rows[h.rev] /\ waves'[h.rev] = waves[h.rev] /\ handled' = handled
<1>1. rows \in [Revision -> [Context -> Entry]] /\ waves \in [Revision -> Seq(Lists)] /\ active \in Revision
  BY DEF SplitInv, SplitTypeOK
<1>2. CASE Fork
  <2>1. h.rev # active + 1 /\ h.rev \in Revision
    BY <1>1, HandlerTypes DEF SplitInv, HandlerOK, Revision
  <2> QED
    BY <1>1, <1>2, <2>1 DEF Fork, NewRevision, loopVars
<1>3. CASE GiveList \/ (\E t \in Item : Work(t) \/ WorkAgain(t))
  BY <1>3 DEF GiveList, Work, WorkAgain, FinishTask, nodeVars
<1>4. CASE (\E c \in Context : CallNext(c)) \/ UNCHANGED splitVars
  BY <1>4 DEF CallNext, Merge, SkipNext, Forward, WriteNext, nodeVars, histVars, splitVars, loopVars
<1> QED
  BY <1>2, <1>3, <1>4

LEMMA HandlerBehind ==
  ASSUME SplitInv, [SplitNext]_splitVars
  PROVE  /\ h.rev <= active' /\ 1 <= active' /\ active <= active'
         /\ h # Idle /\ h.rev # active' => active' \in lossy'
<1>1. active \in Nat /\ h.rev \in Nat /\ h.rev <= active /\ 1 <= active
  BY HandlerTypes DEF SplitInv, SplitTypeOK, HandlerOK, Revision
<1>2. h # Idle /\ h.rev # active => active \in lossy
  BY DEF SplitInv, HandlerOK
<1>3. CASE active' = active
  BY <1>1, <1>2, <1>3, LossySteps
<1>4. CASE Fork /\ active' = active + 1
  BY <1>1, <1>2, <1>4 DEF Fork, NewRevision, loopVars
<1> QED
  BY <1>3, <1>4, ActiveSteps

LEMMA HandlerStep ==
  ASSUME SplitInv, [SplitNext]_splitVars
  PROVE  HandlerOK'
<1>1. h \in HandlerRec /\ active \in Revision /\ lossy \subseteq lossy' /\ handled \in Nat
  BY LossySteps, HandledSteps DEF SplitInv, SplitTypeOK
<1>2. CASE h' = Idle
  BY <1>2, IdleType, HandlerBehind DEF HandlerOK
<1>3. ASSUME \/ GiveList \/ Fork \/ (\E t \in Item : Work(t) \/ WorkAgain(t))
             \/ (\E c \in Context : CallNext(c)) \/ UNCHANGED splitVars
      PROVE  HandlerOK'
  <2>1. h' = h /\ rows'[h.rev] = rows[h.rev] /\ waves'[h.rev] = waves[h.rev] /\ handled' = handled
    BY <1>3, HandlerLeft
  <2>2. h.step \in {"fan", "record"} => Fans'
    <3> HAVE h.step \in {"fan", "record"}
    <3>1. Fans
      BY DEF SplitInv, HandlerOK
    <3>2. Event1' = Event1 /\ handled' < Len(events')
      BY <2>1, <3>1, EventStays DEF Fans
    <3> QED
      BY <2>1, <3>1, <3>2 DEF Fans, WaveOf
  <2>3. h.step \in {"pages", "calls"} => Completes'
    <3> HAVE h.step \in {"pages", "calls"}
    <3>1. Completes
      BY DEF SplitInv, HandlerOK
    <3>2. Event1' = Event1 /\ handled' < Len(events')
      BY <2>1, <3>1, EventStays DEF Completes
    <3>3. (h.value \in Said(h.task))'
      <4> PICK t, v : t = h.task /\ v = h.value
        OBVIOUS
      <4>1. v \in Said(t)'
        BY <3>1, SaidGrows DEF Completes
      <4> QED
        BY <2>1, <4>1
    <3>4. RecordsOf(h.rev, h.task)' = RecordsOf(h.rev, h.task)
      BY <2>1 DEF RecordsOf
    <3> QED
      BY <2>1, <3>1, <3>2, <3>3, <3>4 DEF Completes
  <2>4. h.step = "idle" => h' = Idle
    BY <2>1 DEF SplitInv, HandlerOK
  <2> QED
    BY <2>1, <2>2, <2>3, <2>4, HandlerBehind DEF HandlerOK
<1>4. CASE TakeList
  <2>1. active' = active /\ handled' = handled /\ handled < Len(events)
    BY <1>4 DEF TakeList, Free, nodeVars
  <2>2. Event1' = Event1 /\ handled' < Len(events')
    BY <2>1, EventStays
  <2>3. Event1.list \in Lists
    BY <1>4, TakenList
  <2>4. /\ h'.step = "fan" /\ h'.rev = active /\ h'.list = Event1.list /\ h'.todo = DOMAIN Event1.list.item
        /\ h'.task = None /\ h'.unread = {}
    BY <1>4 DEF TakeList, Idle
  <2>5. waves'[active] # <<>> /\ WaveOf(active)' = Event1.list
    <3>1. waves[active] \in Seq(Lists)
      BY <1>1 DEF SplitInv, SplitTypeOK
    <3> PICK s, l : s = waves[active] /\ l = Event1.list
      OBVIOUS
    <3>2. waves'[active] = IF s # <<>> /\ LastOf(s) = l THEN s ELSE Append(s, l)
      BY <1>1, <1>4 DEF TakeList, SplitInv, SplitTypeOK
    <3>3. Append(s, l) # <<>> /\ LastOf(Append(s, l)) = l
      BY <2>3, <3>1 DEF LastOf
    <3> QED
      BY <2>1, <3>2, <3>3 DEF WaveOf
  <2>6. Fans'
    BY <2>1, <2>2, <2>3, <2>4, <2>5 DEF Fans, WaveOf
  <2> QED
    BY <2>1, <2>4, <2>6, HandlerBehind DEF HandlerOK
<1>5. CASE SkipEntry \/ MarkEntryStale \/ CreateTask \/ RecordTask
  <2>1. /\ waves' = waves /\ handled' = handled /\ h.step \in {"fan", "record"} /\ h.todo # {}
        /\ h' = NextEntry \/ (CreateTask /\ h' = [h EXCEPT !.step = "record"])
    BY <1>5 DEF SkipEntry, MarkEntryStale, CreateTask, RecordTask, Fanning, histVars, SplitInv, HandlerOK, Fans
  <2>2. Fans
    BY <2>1 DEF SplitInv, HandlerOK
  <2>3. Event1' = Event1 /\ handled' < Len(events')
    BY <2>1, <2>2, EventStays DEF Fans
  <2>4. /\ h'.rev = h.rev /\ h'.list = h.list /\ h'.todo \subseteq h.todo /\ h'.task = h.task
        /\ h'.unread = h.unread /\ h'.step \in {"fan", "record"} /\ (h'.step = "record" => h'.todo = h.todo)
    BY <1>1, <2>1 DEF NextEntry, HandlerRec
  <2>5. Fans'
    BY <2>1, <2>2, <2>3, <2>4 DEF Fans, WaveOf
  <2>6. h # Idle /\ h' # Idle
    BY <2>1, <2>4, IdleType
  <2> QED
    BY <2>4, <2>5, <2>6, HandlerBehind DEF HandlerOK
<1>6. CASE TakeResult
  <2>1. active' = active /\ handled' = handled /\ handled < Len(events) /\ rows' = rows
    BY <1>6 DEF TakeResult, Free, nodeVars
  <2>2. Event1' = Event1 /\ handled' < Len(events')
    BY <2>1, EventStays
  <2>3. /\ h'.step = "pages" /\ h'.rev = active /\ h'.task = Event1.task
        /\ h'.value = output[Event1.task] /\ h'.unread = RecordsOf(active, Event1.task)
    BY <1>6 DEF TakeResult, Idle
  <2>4. handled + 1 \in 1..Len(events) /\ Event1.task # None /\ Event1 = events[handled + 1]
    BY <1>6, <2>1, HandledSteps, EventsGrow DEF TakeResult, Event1
  <2>5. Event1.task \in Item
    BY <2>4, EventTypes DEF SplitInv
  <2>6. output[Event1.task] \in Output /\ output[Event1.task] \in Said(Event1.task)
    BY <2>4, <2>5 DEF SplitInv, EventsOK
  <2>7. output[Event1.task] \in Said(Event1.task)'
    <3> PICK t, v : t = Event1.task /\ v = output[Event1.task]
      OBVIOUS
    <3>1. v \in Said(t)'
      BY <2>6, SaidGrows
    <3> QED
      BY <2>2, <3>1
  <2>8. RecordsOf(active, Event1.task)' = RecordsOf(active, Event1.task)
    BY <2>1, <2>2 DEF RecordsOf
  <2>9. Completes'
    BY <2>1, <2>2, <2>3, <2>5, <2>6, <2>7, <2>8 DEF Completes, RecordsOf
  <2> QED
    BY <2>1, <2>3, <2>9, HandlerBehind DEF HandlerOK
<1>7. CASE ReadPage
  <2>1. handled' = handled /\ rows' = rows /\ h.step = "pages"
    BY <1>7 DEF ReadPage, nodeVars
  <2>2. Completes
    BY <2>1 DEF SplitInv, HandlerOK
  <2>3. Event1' = Event1 /\ handled' < Len(events')
    BY <2>1, <2>2, EventStays DEF Completes
  <2>4. PICK P \in SUBSET h.unread :
          h' = [h EXCEPT !.unread = h.unread \ P, !.step = IF h.unread = P THEN "calls" ELSE "pages"]
    BY <1>7 DEF ReadPage
  <2>5. /\ h'.rev = h.rev /\ h'.task = h.task /\ h'.value = h.value /\ h'.unread \subseteq h.unread
        /\ h'.step \in {"pages", "calls"} /\ (h'.step = "calls" => h'.unread = {})
    BY <1>1, <2>4 DEF HandlerRec
  <2>6. (h.value \in Said(h.task))'
    <3> PICK t, v : t = h.task /\ v = h.value
      OBVIOUS
    <3>1. v \in Said(t)'
      BY <2>2, SaidGrows DEF Completes
    <3> QED
      BY <2>5, <3>1
  <2>7. (h.unread \subseteq RecordsOf(h.rev, h.task))'
    BY <2>1, <2>2, <2>5 DEF Completes, RecordsOf
  <2>8. Completes'
    BY <2>1, <2>2, <2>3, <2>5, <2>6, <2>7 DEF Completes
  <2>9. h # Idle /\ h' # Idle
    BY <2>1, <2>5, IdleType
  <2> QED
    BY <2>5, <2>8, <2>9, HandlerBehind DEF HandlerOK
<1>8. CASE CommitOffset \/ ProcessEnds
  BY <1>2, <1>8 DEF CommitOffset, ProcessEnds
<1> QED
  BY <1>3, <1>4, <1>5, <1>6, <1>7, <1>8 DEF SplitNext, LoopNext
-----------------------------------------------------------------------------
(* Rows and what has come back of them. *)

LEMMA ForkMoves ==
  ASSUME SplitInv, Fork
  PROVE  active' # active
<1>1. active \in Nat
  BY DEF SplitInv, SplitTypeOK, Revision
<1> QED
  BY <1>1 DEF Fork, NewRevision, loopVars

LEMMA RowSteps ==
  ASSUME SplitInv, [SplitNext]_splitVars
  PROVE  \/ rows' = rows
         \/ Fork /\ rows' = [rows EXCEPT ![active + 1] = rows[active]]
         \/ /\ RecordTask /\ Item1 \in Item /\ Context1 \in Context
            /\ rows' = [rows EXCEPT ![h.rev] = [rows[h.rev] EXCEPT
                          ![Context1] = [task |-> Item1, inputs |-> Item1]]]
         \/ /\ MarkEntryStale /\ Item1 \in Item /\ Context1 \in Context
            /\ rows' = [rows EXCEPT ![h.rev] = [rows[h.rev] EXCEPT
                          ![Context1] = [task |-> None, inputs |-> Item1]]]
<1>1. CASE Fork
  BY <1>1, Forked
<1>2. CASE MarkEntryStale \/ RecordTask
  <2>1. PICK e \in Entry :
          /\ SetRow(e) /\ h.step \in {"fan", "record"} /\ h.todo # {}
          /\ (e = StaleEntry /\ MarkEntryStale) \/ (e = NewEntry /\ RecordTask)
    BY <1>2, EntryWritten
  <2>2. /\ Item1 \in Item /\ Context1 \in Context
        /\ rows' = rows \/ rows' = [rows EXCEPT ![h.rev] = [rows[h.rev] EXCEPT ![Context1] = e]]
    BY <2>1, RowWritten
  <2> QED
    BY <2>1, <2>2 DEF StaleEntry, NewEntry
<1>4. CASE ~Fork /\ ~RecordTask /\ ~MarkEntryStale
  BY <1>4 DEF SplitNext, LoopNext, CallNext, GiveList, Work, WorkAgain, FinishTask, TakeList, CreateTask,
       SkipEntry, TakeResult, ReadPage, CommitOffset, ProcessEnds,
       Merge, SkipNext, Forward, WriteNext, nodeVars, splitVars
<1> QED
  BY <1>1, <1>2, <1>4

RowGood(r, c, s) ==
  s.task # None => s.inputs = s.task /\ \E i \in 1..Len(waves[r]) : InList(waves[r][i], c, s.task)

LEMMA RowsStep ==
  ASSUME SplitInv, [SplitNext]_splitVars
  PROVE  RowsOK'
<1>1. rows \in [Revision -> [Context -> Entry]] /\ waves \in [Revision -> Seq(Lists)] /\ active \in Revision
  BY DEF SplitInv, SplitTypeOK
<1>2. \A r \in Revision : \A c \in Context : RowGood(r, c, rows[r][c])
  BY DEF SplitInv, RowsOK, RowGood
<1> SUFFICES ASSUME NEW r \in Revision, NEW c \in Context, rows'[r][c].task # None
             PROVE  /\ rows'[r][c].inputs = rows'[r][c].task
                    /\ \E i \in 1..Len(waves'[r]) : InList(waves'[r][i], c, rows'[r][c].task)
  BY DEF RowsOK
<1>3. ASSUME ~Fork \/ r # active + 1, NEW s, RowGood(r, c, s), s.task # None
      PROVE  s.inputs = s.task /\ \E i \in 1..Len(waves'[r]) : InList(waves'[r][i], c, s.task)
  <2>1. PICK i \in 1..Len(waves[r]) : InList(waves[r][i], c, s.task)
    BY <1>3 DEF RowGood
  <2>2. i \in 1..Len(waves'[r]) /\ waves'[r][i] = waves[r][i]
    BY <1>3, WavesGrow
  <2> QED
    BY <1>3, <2>1, <2>2 DEF RowGood
<1>4. CASE ~Fork /\ rows'[r][c] = rows[r][c]
  <2> PICK s : s = rows[r][c]
    OBVIOUS
  <2> QED
    BY <1>2, <1>3, <1>4
<1>5. CASE Fork /\ rows' = [rows EXCEPT ![active + 1] = rows[active]]
  <2>1. CASE r = active + 1
    <3>1. rows'[r][c] = rows[active][c] /\ waves'[r] = waves[active]
      BY <1>1, <1>5, <2>1 DEF Fork, NewRevision, loopVars
    <3>2. RowGood(active, c, rows[active][c])
      BY <1>1, <1>2
    <3> QED
      BY <3>1, <3>2 DEF RowGood
  <2>2. CASE r # active + 1
    <3> PICK s : s = rows[r][c]
      OBVIOUS
    <3>1. rows'[r][c] = s
      BY <1>1, <1>5, <2>2
    <3> QED
      BY <1>2, <1>3, <2>2, <3>1
  <2> QED
    BY <2>1, <2>2
<1>6. CASE /\ RecordTask /\ Item1 \in Item /\ Context1 \in Context
           /\ rows' = [rows EXCEPT ![h.rev] = [rows[h.rev] EXCEPT
                          ![Context1] = [task |-> Item1, inputs |-> Item1]]]
  <2>1. waves' = waves /\ h.rev \in Revision /\ h.step = "record" /\ ~Fork
    BY <1>6, HandlerTypes, ForkMoves DEF RecordTask, histVars
  <2>2. CASE r = h.rev /\ c = Context1
    <3>1. rows'[r][c].task = Item1 /\ rows'[r][c].inputs = Item1
      BY <1>1, <1>6, <2>1, <2>2
    <3>2. waves[r] # <<>> /\ WaveOf(r) = h.list /\ h.todo # {}
      BY <2>1, <2>2 DEF SplitInv, HandlerOK, Fans
    <3>3. Len(waves[r]) \in 1..Len(waves[r]) /\ waves[r][Len(waves[r])] = h.list
      BY <3>2, WaveTypes DEF SplitInv
    <3>4. c.key = Key1 /\ Key1 \in DOMAIN h.list.item
      BY <2>1, <2>2, <3>2, EntryFacts DEF SplitInv
    <3>5. InList(h.list, c, Item1)
      BY <2>2, <3>4 DEF InList, Item1, Context1
    <3> QED
      BY <2>1, <3>1, <3>3, <3>5
  <2>3. CASE ~(r = h.rev /\ c = Context1)
    <3>1. rows'[r][c] = rows[r][c]
      BY <1>1, <1>6, <2>1, <2>3
    <3> QED
      BY <1>4, <2>1, <3>1
  <2> QED
    BY <2>2, <2>3
<1>7. CASE /\ MarkEntryStale /\ Item1 \in Item /\ Context1 \in Context
           /\ rows' = [rows EXCEPT ![h.rev] = [rows[h.rev] EXCEPT
                          ![Context1] = [task |-> None, inputs |-> Item1]]]
  <2>1. h.rev \in Revision /\ ~Fork
    BY <1>7, HandlerTypes, ForkMoves DEF MarkEntryStale
  <2>2. CASE r = h.rev /\ c = Context1
    <3>1. rows'[r][c].task = None
      BY <1>1, <1>7, <2>1, <2>2
    <3> QED
      BY <3>1
  <2>3. CASE ~(r = h.rev /\ c = Context1)
    <3>1. rows'[r][c] = rows[r][c]
      BY <1>1, <1>7, <2>1, <2>3
    <3> QED
      BY <1>4, <2>1, <3>1
  <2> QED
    BY <2>2, <2>3
<1>8. CASE rows' = rows /\ ~Fork
  BY <1>4, <1>8
<1>9. Fork => rows' = [rows EXCEPT ![active + 1] = rows[active]]
  BY Forked
<1> QED
  BY <1>5, <1>6, <1>7, <1>8, <1>9, RowSteps

(* In a revision that lost nothing, a row with a task is one of the last list's. *)
LEMMA RowFacts ==
  ASSUME SplitInv, NEW r \in Revision \ lossy, NEW c \in Context, rows[r][c].task # None
  PROVE  /\ waves[r] # <<>> /\ WaveOf(r) \in Lists /\ Wave(r) = WaveOf(r).item
         /\ c.key \in DOMAIN Wave(r) /\ c = ElementContext(WaveOf(r), c.key)
         /\ c.shape.keys = DOMAIN Wave(r) /\ c.shape = Shape(WaveOf(r))
         /\ rows[r][c].inputs = rows[r][c].task /\ rows[r][c].task \in Item
         /\ Len(waves[r]) = 1 \/ ~auto => rows[r][c].task = Wave(r)[c.key]
         /\ \A v \in Said(rows[r][c].task) : Source(r, c.key, v)
<1>1. PICK i \in 1..Len(waves[r]) : InList(waves[r][i], c, rows[r][c].task)
  BY DEF SplitInv, RowsOK
<1>2. /\ waves[r] # <<>> /\ WaveOf(r) \in Lists /\ WaveOf(r) = waves[r][Len(waves[r])]
      /\ Wave(r) = WaveOf(r).item /\ waves[r][i] \in Lists /\ Len(waves[r]) \in Nat
  <2>1. waves[r] \in Seq(Lists) /\ waves[r] # <<>>
    BY <1>1, WaveTypes DEF SplitInv
  <2> QED
    BY <2>1, WaveTypes DEF SplitInv
<1>3. Shape(waves[r][i]) = Shape(WaveOf(r)) /\ (~auto => waves[r][i] = WaveOf(r))
  BY DEF SplitInv, WavesOK
<1>4. DOMAIN waves[r][i].item = DOMAIN Wave(r)
  BY <1>2, <1>3, ContextFacts
<1>5. c.key \in DOMAIN Wave(r) /\ c = ElementContext(WaveOf(r), c.key)
  BY <1>1, <1>3, <1>4 DEF InList, ElementContext
<1>6. c.shape = Shape(WaveOf(r)) /\ c.shape.keys = DOMAIN Wave(r)
  BY <1>2, <1>5, ContextFacts
<1>7. rows[r][c].inputs = rows[r][c].task
  BY DEF SplitInv, RowsOK
<1>8. rows[r][c].task = waves[r][i].item[c.key] /\ c.key \in DOMAIN waves[r][i].item
  BY <1>1 DEF InList
<1>9. rows[r][c].task \in Item
  BY <1>2, <1>8, ContextFacts
<1>10. Len(waves[r]) = 1 \/ ~auto => rows[r][c].task = Wave(r)[c.key]
  <2>1. Len(waves[r]) = 1 => waves[r][i] = WaveOf(r)
    BY <1>2
  <2> QED
    BY <1>2, <1>3, <1>8, <2>1
<1>11. \A v \in Said(rows[r][c].task) : Source(r, c.key, v)
  BY <1>8 DEF Source
<1> QED
  BY <1>2, <1>5, <1>6, <1>7, <1>9, <1>10, <1>11

LEMMA AccSteps ==
  ASSUME SplitInv, [SplitNext]_splitVars
  PROVE  \/ acc' = acc
         \/ Fork /\ acc' = [acc EXCEPT ![active + 1] = acc[active]]
         \/ \E c \in Context :
              /\ Merge(c) /\ acc' = [acc EXCEPT ![h.rev] = WithKey(acc[h.rev], c.key, h.value)]
<1>1. ASSUME NEW c \in Context, Merge(c)
      PROVE acc' = [acc EXCEPT ![h.rev] = WithKey(acc[h.rev], c.key, h.value)]
  BY <1>1 DEF Merge
<1>2. CASE ~Fork /\ ~\E c \in Context : Merge(c)
  BY <1>2 DEF SplitNext, LoopNext, CallNext, GiveList, Work, WorkAgain, FinishTask, TakeList,
       SkipEntry, MarkEntryStale, CreateTask, RecordTask, TakeResult, ReadPage, CommitOffset, ProcessEnds,
       SkipNext, Forward, WriteNext, nodeVars, splitVars
<1>3. CASE Fork
  BY <1>3, Forked
<1> QED
  BY <1>1, <1>2, <1>3

(* What a call adds to the accumulator. *)
LEMMA MergeFacts ==
  ASSUME SplitInv, NEW c \in Context, Merge(c)
  PROVE  /\ h.step = "calls" /\ call[c].step = "merge" /\ h.rev \in Revision /\ h.rev <= active
         /\ handled < Len(events) /\ Event1.task = h.task /\ h.task \in Item /\ h.value \in Output
         /\ rows[h.rev][c].task = h.task /\ h.value \in Said(rows[h.rev][c].task)
         /\ rows[h.rev][c].task # None
         /\ DOMAIN acc'[h.rev] = DOMAIN acc[h.rev] \cup {c.key}
         /\ acc'[h.rev][c.key] = h.value
         /\ acc'[h.rev] = WithKey(acc[h.rev], c.key, h.value)
         /\ \A j \in DOMAIN acc[h.rev] : j # c.key => acc'[h.rev][j] = acc[h.rev][j]
         /\ \A r \in Revision \ {h.rev} : acc'[r] = acc[r]
<1>1. h.step = "calls" /\ call[c].step = "merge"
  BY DEF Merge, CallAt
<1>2. /\ handled < Len(events) /\ Event1.task = h.task /\ h.task \in Item /\ h.value \in Output
      /\ h.value \in Said(h.task) /\ h.rev <= active
  BY <1>1 DEF SplitInv, HandlerOK, Completes
<1>3. rows[h.rev][c].task = h.task
  BY <1>1 DEF SplitInv, CallsOK
<1>4. acc \in [Revision -> Results] /\ h.rev \in Revision
  BY HandlerTypes DEF SplitInv, SplitTypeOK
<1>5. acc' = [acc EXCEPT ![h.rev] = WithKey(acc[h.rev], c.key, h.value)]
  BY DEF Merge
<1>6. c.key \in AnyKey
  BY ContextFacts
<1>7. acc'[h.rev] = WithKey(acc[h.rev], c.key, h.value) /\ \A r \in Revision \ {h.rev} : acc'[r] = acc[r]
  BY <1>4, <1>5
<1>8. /\ DOMAIN WithKey(acc[h.rev], c.key, h.value) = DOMAIN acc[h.rev] \cup {c.key}
      /\ WithKey(acc[h.rev], c.key, h.value)[c.key] = h.value
      /\ \A j \in DOMAIN acc[h.rev] : j # c.key => WithKey(acc[h.rev], c.key, h.value)[j] = acc[h.rev][j]
  <2> PICK f, k, v : f = acc[h.rev] /\ k = c.key /\ v = h.value
    OBVIOUS
  <2>1. f \in Results /\ k \in AnyKey /\ v \in Output
    BY <1>2, <1>4, <1>6
  <2>2. /\ DOMAIN WithKey(f, k, v) = DOMAIN f \cup {k} /\ WithKey(f, k, v)[k] = v
        /\ \A j \in DOMAIN f : j # k => WithKey(f, k, v)[j] = f[j]
    BY ONLY <2>1, WithKeyFacts
  <2> QED
    BY <2>2
<1> QED
  BY <1>1, <1>2, <1>3, <1>4, <1>7, <1>8, NullsDiffer

LEMMA AccStep ==
  ASSUME SplitInv, [SplitNext]_splitVars
  PROVE  AccOK'
<1>1. /\ acc \in [Revision -> Results] /\ active \in Nat /\ h.rev \in Revision
      /\ heard \in [Revision -> [Item -> Output \cup {None}]]
      /\ \A r \in Revision : r \in Nat
  BY HandlerTypes DEF SplitInv, SplitTypeOK, Revision
<1>2. \A r \in Revision : r > active' => acc'[r] = Nothing /\ \A t \in Item : heard'[r][t] = None
  <2> SUFFICES ASSUME NEW r \in Revision, r > active'
               PROVE  acc'[r] = Nothing /\ \A t \in Item : heard'[r][t] = None
    OBVIOUS
  <2>1. r > active /\ r # h.rev
    <3>1. active' \in Nat /\ active <= active' /\ h.rev <= active
      BY <1>1, HandlerBehind, ActiveSteps DEF SplitInv, HandlerOK
    <3>2. r \in Nat /\ h.rev \in Nat
      BY <1>1
    <3> QED
      BY ONLY <3>1, <3>2, <1>1, r > active'
  <2>2. acc[r] = Nothing /\ \A t \in Item : heard[r][t] = None
    BY <2>1 DEF SplitInv, AccOK
  <2>5. Fork => r # active + 1
    <3> HAVE Fork
    <3>1. active' = active + 1 /\ active \in Nat /\ r \in Nat
      BY <1>1, Forked
    <3> QED
      BY <3>1
  <2>3. acc'[r] = acc[r]
    BY <1>1, <2>1, <2>5, AccSteps
  <2>4. heard'[r] = heard[r]
    BY <1>1, <2>1, <2>5, HeardSteps
  <2> QED
    BY <2>2, <2>3, <2>4
<1>3. ASSUME NEW r \in Revision, r \notin lossy', NEW k \in DOMAIN acc'[r], NEW v, v = acc'[r][k]
      PROVE  Source(r, k, v)'
  <2>1. r \notin lossy
    BY <1>3, LossySteps
  <2>2. CASE Fork /\ r = active + 1
    <3>1. /\ acc'[r] = acc[active] /\ active \notin lossy /\ active \in Revision
          /\ waves'[r] = waves[active] /\ events' = events
      <4>1. /\ acc' = [acc EXCEPT ![active + 1] = acc[active]] /\ active \notin lossy
            /\ active \in Revision /\ events' = events
            /\ waves' = [waves EXCEPT ![active + 1] = waves[active]]
        BY <1>3, <2>2, Forked
      <4>2. waves \in [Revision -> Seq(Lists)]
        BY DEF SplitInv, SplitTypeOK
      <4> QED
        BY <1>1, <2>2, <4>1, <4>2
    <3>2. Source(active, k, v)
      BY <1>3, <3>1 DEF SplitInv, AccOK
    <3> QED
      BY <3>1, <3>2 DEF Source, Said
  <2>3. CASE (~Fork \/ r # active + 1) /\ Source(r, k, v)
    BY <2>3, SourceStays
  <2>4. CASE (~Fork \/ r # active + 1) /\ acc'[r] = acc[r]
    <3>1. Source(r, k, v)
      BY <1>3, <2>1, <2>4 DEF SplitInv, AccOK
    <3> QED
      BY <2>3, <2>4, <3>1
  <2>5. ASSUME NEW c \in Context, Merge(c), r = h.rev PROVE Source(r, k, v)'
    <3>1. ~Fork
      BY <2>5, ForkMoves DEF Merge
    <3>2. /\ rows[r][c].task # None /\ h.value \in Said(rows[r][c].task)
          /\ DOMAIN acc'[r] = DOMAIN acc[r] \cup {c.key} /\ acc'[r][c.key] = h.value
          /\ \A j \in DOMAIN acc[r] : j # c.key => acc'[r][j] = acc[r][j]
      BY <2>5, MergeFacts
    <3>3. CASE k = c.key
      <4>1. Source(r, k, v)
        BY <1>3, <2>1, <3>2, <3>3, RowFacts
      <4> QED
        BY <2>3, <3>1, <4>1
    <3>4. CASE k # c.key
      <4>1. Source(r, k, v)
        BY <1>3, <2>1, <3>2, <3>4 DEF SplitInv, AccOK
      <4> QED
        BY <2>3, <3>1, <4>1
    <3> QED
      BY <3>3, <3>4
  <2>6. ASSUME NEW c \in Context, Merge(c), r # h.rev PROVE Source(r, k, v)'
    <3>1. ~Fork /\ acc'[r] = acc[r]
      BY <2>6, ForkMoves, MergeFacts DEF Merge
    <3> QED
      BY <2>4, <3>1
  <2>7. acc' = acc \/ (\E c \in Context : Merge(c))
          \/ (Fork /\ acc' = [acc EXCEPT ![active + 1] = acc[active]])
    BY AccSteps
  <2>8. CASE Fork /\ r # active + 1
    <3>1. acc'[r] = acc[r]
      BY <1>1, <2>8, Forked
    <3> QED
      BY <2>4, <2>8, <3>1
  <2> QED
    BY <2>2, <2>4, <2>5, <2>6, <2>7, <2>8
<1>4. \A r \in Revision \ lossy' : \A k \in DOMAIN acc'[r] : \A v : v = acc'[r][k] => Source(r, k, v)'
  BY <1>3
<1> QED
  BY <1>2, <1>4 DEF AccOK, Source
-----------------------------------------------------------------------------
(* The calls for the records. *)

LEMMA CompleteFacts ==
  ASSUME NEW c \in Context, NEW f, DOMAIN f \subseteq c.shape.keys
  PROVE  Complete(c, f) <=> DOMAIN f = c.shape.keys
<1>1. IsFiniteSet(c.shape.keys)
  BY ContextFacts
<1>2. Cardinality(DOMAIN f) = Cardinality(c.shape.keys) => DOMAIN f = c.shape.keys
  BY <1>1, FS_Subset
<1> QED
  BY <1>2 DEF Complete

(* A call passes on what it merged just when no key is missing. *)
LEMMA MergeFits ==
  ASSUME SplitInv, NEW c \in Context, Merge(c), h.rev \notin lossy, NEW l, l = acc'[h.rev]
  PROVE  /\ c.key \in DOMAIN Wave(h.rev)
         /\ Complete(c, l) => Fits(h.rev, l)
         /\ ~Complete(c, l) => DOMAIN l # DOMAIN Wave(h.rev)
<1> PICK r : r = h.rev
  OBVIOUS
<1>1. /\ r \in Revision \ lossy /\ rows[r][c].task # None
      /\ h.value \in Said(rows[r][c].task)
      /\ DOMAIN l = DOMAIN acc[r] \cup {c.key} /\ l[c.key] = h.value
      /\ \A j \in DOMAIN acc[r] : j # c.key => l[j] = acc[r][j]
  BY MergeFacts
<1>2. c.key \in DOMAIN Wave(r) /\ c.shape.keys = DOMAIN Wave(r) /\ Source(r, c.key, h.value)
  <2> PICK v : v = h.value
    OBVIOUS
  <2>1. Source(r, c.key, v)
    BY <1>1, RowFacts
  <2> QED
    BY <1>1, <2>1, RowFacts
<1>3. \A j \in DOMAIN acc[r] : Source(r, j, acc[r][j])
  BY <1>1 DEF SplitInv, AccOK
<1>4. \A j \in DOMAIN acc[r] : j \in DOMAIN Wave(r)
  <2> TAKE j \in DOMAIN acc[r]
  <2>1. PICK i \in 1..Len(waves[r]) : j \in DOMAIN waves[r][i].item
    BY <1>3 DEF Source
  <2>2. Shape(waves[r][i]) = Shape(WaveOf(r)) /\ waves[r][i] \in Lists
    BY <1>1, WaveTypes DEF SplitInv, WavesOK
  <2>3. Wave(r) = WaveOf(r).item
    BY DEF Wave, WaveOf
  <2> QED
    BY <2>1, <2>2, <2>3, ContextFacts
<1>5. \A j \in DOMAIN l : Source(r, j, l[j])
  <2> TAKE j \in DOMAIN l
  <2>1. CASE j = c.key
    BY <1>1, <1>2, <2>1
  <2>2. CASE j # c.key
    BY <1>1, <1>3, <2>2
  <2> QED
    BY <2>1, <2>2
<1>6. DOMAIN l \subseteq c.shape.keys
  BY <1>1, <1>2, <1>4
<1>7. Complete(c, l) <=> DOMAIN l = DOMAIN Wave(r)
  BY <1>2, <1>6, CompleteFacts
<1> QED
  BY <1>2, <1>5, <1>7 DEF Fits

LEMMA FitsStays ==
  ASSUME SplitInv, [SplitNext]_splitVars, NEW r \in Revision, NEW l, Fits(r, l),
         waves'[r] = waves[r], ~Fork \/ r # active + 1
  PROVE  Fits(r, l)'
<1>1. Wave(r)' = Wave(r)
  BY DEF Wave
<1>2. \A k \in DOMAIN l : \A v : v = l[k] => Source(r, k, v)'
  BY SourceStays DEF Fits
<1> QED
  BY <1>1, <1>2 DEF Fits

LEMMA NoCalls ==
  ASSUME SplitInv
  PROVE  /\ h.step \in {"idle", "fan", "record"} => \A c \in Context : call[c].step = "none"
         /\ h.step = "pages" => \A c \in Context : call[c].step \in {"none", "merge"}
  BY DEF SplitInv, CallsOK, SplitTypeOK, CallRec

(* What one call does leaves the others alone. *)
LEMMA CallSteps ==
  ASSUME SplitInv, NEW c \in Context, CallNext(c)
  PROVE  /\ h' = h /\ rows' = rows /\ waves' = waves /\ h.step = "calls" /\ call[c].step # "none"
         /\ \A d \in Context \ {c} : call'[d] = call[d]
         /\ \/ call'[c] = NoCall
            \/ /\ Merge(c) /\ call'[c].step = "look" /\ call'[c].list = acc'[h.rev]
               /\ Complete(c, acc'[h.rev])
            \/ /\ Forward(c) /\ call[c].step = "look" /\ call'[c].step = "write"
               /\ call'[c].list = call[c].list
<1>1. call \in [Context -> CallRec]
  BY DEF SplitInv, SplitTypeOK
<1>2. CASE Merge(c)
  <2> PICK results : results = WithKey(acc[h.rev], c.key, h.value)
    OBVIOUS
  <2>1. results = acc'[h.rev]
    BY <1>2, MergeFacts
  <2>2. IF Complete(c, results)
        THEN call' = [call EXCEPT ![c] = [step |-> "look", list |-> results, start |-> FALSE]]
        ELSE call' = [call EXCEPT ![c] = NoCall]
    BY <1>2 DEF Merge, EndCall
  <2>3. h' = h /\ rows' = rows /\ waves' = waves /\ h.step = "calls" /\ call[c].step # "none"
    BY <1>2 DEF Merge, CallAt, histVars
  <2> QED
    BY <1>1, <1>2, <2>1, <2>2, <2>3
<1>3. CASE SkipNext(c) \/ WriteNext(c)
  BY <1>1, <1>3 DEF SkipNext, WriteNext, EndCall, CallAt, nodeVars, histVars
<1>4. CASE Forward(c)
  <2>1. call' = [call EXCEPT ![c] = [call[c] EXCEPT !.step = "write", !.start = ~Behind.task \/ auto]]
    BY <1>4 DEF Forward
  <2>2. call'[c].step = "write" /\ call'[c].list = call[c].list /\ \A d \in Context \ {c} : call'[d] = call[d]
    BY <1>1, <2>1 DEF CallRec
  <2> QED
    BY <1>4, <2>2 DEF Forward, CallAt, nodeVars, histVars
<1> QED
  BY <1>2, <1>3, <1>4 DEF CallNext

CallGood(c) ==
  /\ call[c].step # "none" => h.step \in {"pages", "calls"} /\ rows[h.rev][c].task = h.task
  /\ call[c].step \in {"look", "write"} =>
       h.step = "calls" /\ (h.rev \notin lossy => Fits(h.rev, call[c].list))

LEMMA CallsStep ==
  ASSUME SplitInv, [SplitNext]_splitVars
  PROVE  CallsOK'
<1> SUFFICES ASSUME NEW c \in Context PROVE CallGood(c)'
  BY DEF CallsOK, CallGood
<1>1. CallGood(c) /\ call[c] \in CallRec
  BY DEF SplitInv, CallsOK, CallGood, SplitTypeOK
<1>2. h.rev \in Revision /\ h.rev <= active /\ h.rev # active + 1
  BY HandlerTypes DEF SplitInv, HandlerOK, SplitTypeOK, Revision
<1>3. CASE call'[c].step = "none"
  BY <1>3 DEF CallGood
<1>4. ASSUME h' = h, rows'[h.rev] = rows[h.rev], waves'[h.rev] = waves[h.rev],
             call'[c].step # "none" => call[c].step # "none",
             call'[c].step \in {"look", "write"} =>
               h.step = "calls" /\ (h.rev \notin lossy => Fits(h.rev, call'[c].list))
      PROVE  CallGood(c)'
  <2>1. call'[c].step # "none" => h'.step \in {"pages", "calls"} /\ rows'[h'.rev][c].task = h'.task
    BY <1>1, <1>4 DEF CallGood
  <2>2. ASSUME call'[c].step \in {"look", "write"}, h'.rev \notin lossy'
        PROVE  Fits(h.rev, call[c].list)'
    <3> PICK r, l : r = h.rev /\ l = call'[c].list
      OBVIOUS
    <3>1. Fits(r, l) /\ r \in Revision /\ waves'[r] = waves[r]
      BY <1>2, <1>4, <2>2, LossySteps
    <3>2. Fits(r, l)'
      BY <1>2, <3>1, FitsStays
    <3> QED
      BY <1>4, <3>2
  <2> QED
    BY <1>4, <2>1, <2>2 DEF CallGood
<1>5. CASE ~ReadPage /\ ~ProcessEnds /\ ~\E d \in Context : CallNext(d)
  <2>1. call' = call
    BY <1>5 DEF SplitNext, LoopNext, GiveList, Fork, Work, WorkAgain, FinishTask, TakeList, SkipEntry,
         MarkEntryStale, CreateTask, RecordTask, TakeResult, CommitOffset, splitVars, NewRevision, loopVars
  <2>2. CASE h.step \in {"idle", "fan", "record"}
    BY <1>3, <2>1, <2>2, NoCalls
  <2>3. CASE CommitOffset
    BY <1>3, <2>1, <2>3, NoCalls DEF CommitOffset
  <2>4. CASE GiveList \/ Fork \/ (\E t \in Item : Work(t) \/ WorkAgain(t)) \/ UNCHANGED splitVars
    <3>1. h' = h /\ rows'[h.rev] = rows[h.rev] /\ waves'[h.rev] = waves[h.rev]
      BY <2>4, HandlerLeft
    <3> QED
      BY <1>1, <1>4, <2>1, <3>1 DEF CallGood
  <2>5. TakeList \/ TakeResult => h.step = "idle"
    BY IdleType DEF TakeList, TakeResult, Free
  <2>6. SkipEntry \/ MarkEntryStale \/ CreateTask \/ RecordTask => h.step \in {"fan", "record"}
    BY DEF SkipEntry, MarkEntryStale, CreateTask, RecordTask, Fanning
  <2> QED
    BY <1>5, <2>2, <2>3, <2>4, <2>5, <2>6 DEF SplitNext, LoopNext
<1>6. ASSUME NEW d \in Context, CallNext(d) PROVE CallGood(c)'
  <2>1. h' = h /\ rows' = rows /\ waves' = waves /\ h.step = "calls"
    BY <1>6, CallSteps
  <2>2. CASE c # d
    <3>1. call'[c] = call[c]
      BY <1>6, <2>2, CallSteps
    <3> QED
      BY <1>1, <1>4, <2>1, <3>1 DEF CallGood
  <2>3. CASE c = d
    <3>1. call[c].step # "none"
      BY <1>6, <2>3, CallSteps
    <3>2. CASE call'[c] = NoCall
      BY <1>3, <3>2 DEF NoCall
    <3>3. CASE Merge(c) /\ call'[c].list = acc'[h.rev] /\ Complete(c, acc'[h.rev])
      <4>1. h.rev \notin lossy => Fits(h.rev, call'[c].list)
        BY <3>3, MergeFits
      <4> QED
        BY <1>4, <2>1, <3>1, <4>1
    <3>4. CASE call[c].step = "look" /\ call'[c].list = call[c].list
      BY <1>1, <1>4, <2>1, <3>1, <3>4 DEF CallGood
    <3> QED
      BY <1>6, <2>3, <3>2, <3>3, <3>4, CallSteps
  <2> QED
    BY <2>2, <2>3
<1>7. CASE ReadPage
  <2>1. PICK P \in SUBSET h.unread : call' = [d \in Context |-> IF d \in P THEN [NoCall EXCEPT !.step = "merge"] ELSE call[d]]
    BY <1>7 DEF ReadPage
  <2>2. h.step = "pages" /\ rows' = rows /\ h'.rev = h.rev /\ h'.task = h.task /\ h'.step \in {"pages", "calls"}
    BY <1>7 DEF ReadPage, nodeVars, SplitInv, SplitTypeOK, HandlerRec
  <2>3. call[c].step \in {"none", "merge"}
    BY <2>2, NoCalls
  <2>4. c \in P => rows[h.rev][c].task = h.task
    BY <2>1, <2>2 DEF SplitInv, HandlerOK, Completes, RecordsOf
  <2>5. call'[c].step \in {"none", "merge"} /\ (call'[c].step # "none" => rows[h.rev][c].task = h.task)
    <3>1. CASE c \in P
      BY <2>1, <2>4, <3>1 DEF NoCall
    <3>2. CASE c \notin P
      BY <1>1, <2>1, <2>3, <3>2 DEF CallGood
    <3> QED
      BY <3>1, <3>2
  <2> QED
    BY <2>2, <2>5 DEF CallGood
<1>8. CASE ProcessEnds
  BY <1>3, <1>8 DEF ProcessEnds, NoCall
<1> QED
  BY <1>5, <1>6, <1>7, <1>8
-----------------------------------------------------------------------------
(* A revision that lost nothing. *)

LEMMA Still ==
  ASSUME SplitInv, [SplitNext]_splitVars, ~Fork, active' \notin lossy'
  PROVE  /\ active' = active /\ active \in Revision /\ active \notin lossy
         /\ Live /\ (h # Idle => h.rev = active)
         /\ waves[active] \in Seq(Lists) /\ (~TakeList => waves'[active] = waves[active])
         /\ (~RecordTask /\ ~MarkEntryStale => rows' = rows)
         /\ (~CommitOffset => handled' = handled /\ heard' = heard)
<1>1. active' = active /\ active \notin lossy /\ active \in Revision
  BY ActiveSteps, LossySteps DEF SplitInv, SplitTypeOK
<1>2. Live /\ (h # Idle => h.rev = active)
  BY <1>1 DEF SplitInv, LiveOK, HandlerOK
<1>3. waves[active] \in Seq(Lists) /\ (~TakeList => waves'[active] = waves[active])
  BY <1>1, WavesGrow, WaveTypes DEF SplitInv
<1> QED
  BY <1>1, <1>2, <1>3, RowSteps, HandledSteps, HeardSteps

LEMMA StaysToCome ==
  ASSUME SplitInv, [SplitNext]_splitVars, NEW t, ComesAgain(t), ~CommitOffset \/ Event1.task # t
  PROVE  ComesAgain(t)'
<1>1. PICK i \in handled + 1..Len(events) : events[i].task = t
  BY DEF ComesAgain
<1>2. handled \in Nat /\ handled' \in Nat /\ Len(events) \in Nat /\ Len(events') \in Nat
  BY HandledSteps, EventsGrow
<1>3. i \in 1..Len(events) /\ i \in Nat /\ i >= handled + 1
  BY <1>2
<1>4. i \in 1..Len(events') /\ events'[i].task = t
  BY <1>1, <1>3, EventsGrow
<1>5. i >= handled' + 1
  <2>1. CASE CommitOffset
    <3>1. i # handled + 1
      BY <1>1, <2>1 DEF Event1
    <3>2. handled' = handled + 1
      BY <2>1, HandledSteps
    <3> QED
      BY ONLY <1>2, <1>3, <3>1, <3>2
  <2>2. CASE ~CommitOffset
    <3>1. handled' = handled
      BY <2>2, HandledSteps
    <3> QED
      BY ONLY <1>3, <3>1
  <2> QED
    BY <2>1, <2>2
<1>6. i \in handled' + 1..Len(events')
  <2> PICK m \in Nat, n \in Nat : m = handled' /\ n = Len(events')
    BY ONLY <1>2
  <2>1. i \in Nat /\ i >= m + 1 /\ i \in 1..n
    BY ONLY m = handled', n = Len(events'), <1>3, <1>4, <1>5
  <2>2. i \in m + 1..n
    BY ONLY m \in Nat, n \in Nat, <2>1
  <2> QED
    BY ONLY m = handled', n = Len(events'), <2>2
<1> QED
  BY <1>4, <1>6 DEF ComesAgain

(* The event at hand is one that comes. *)
LEMMA EventToCome ==
  ASSUME SplitInv, [SplitNext]_splitVars, h.step \in {"pages", "calls"}, ~CommitOffset, NEW t, t = h.task
  PROVE  ComesAgain(t)'
<1>1. handled < Len(events) /\ Event1.task = t
  BY DEF SplitInv, HandlerOK, Completes
<1>2. handled + 1 \in handled + 1..Len(events)
  BY <1>1, HandledSteps, EventsGrow
<1>3. ComesAgain(t)
  BY <1>1, <1>2 DEF ComesAgain, Event1
<1> QED
  BY <1>3, StaysToCome

LEMMA ForkLive ==
  ASSUME SplitInv, [SplitNext]_splitVars, Fork, active' \notin lossy'
  PROVE  Live'
<1>1. /\ active' = active + 1 /\ active + 1 \in Revision /\ active \in Revision /\ active \in Nat
      /\ active \notin lossy /\ (h = Idle \/ h.rev # active)
  BY Forked
<1>2. h = Idle /\ h.step = "idle" /\ Live
  BY <1>1, IdleType DEF SplitInv, HandlerOK, LiveOK
<1>3. /\ rows'[active + 1] = rows[active] /\ next'[active + 1] = next[active]
      /\ waves'[active + 1] = waves[active] /\ heard'[active + 1] = heard[active]
      /\ acc'[active + 1] = acc[active]
      /\ handled' = handled /\ events' = events /\ h' = h /\ call' = call
  <2>1. /\ rows \in [Revision -> [Context -> Entry]] /\ next \in [Revision -> NextState]
        /\ waves \in [Revision -> Seq(Lists)] /\ heard \in [Revision -> [Item -> Output \cup {None}]]
        /\ acc \in [Revision -> Results]
    BY DEF SplitInv, SplitTypeOK
  <2>2. /\ rows' = [rows EXCEPT ![active + 1] = rows[active]]
        /\ next' = [next EXCEPT ![active + 1] = next[active]]
        /\ waves' = [waves EXCEPT ![active + 1] = waves[active]]
        /\ heard' = [heard EXCEPT ![active + 1] = heard[active]]
        /\ acc' = [acc EXCEPT ![active + 1] = acc[active]]
        /\ handled' = handled /\ events' = events /\ h' = h /\ call' = call
    BY <1>1, Forked
  <2> QED
    BY <1>1, <2>1, <2>2
<1>4. \A t : ComesAgain(t) => ComesAgain(t)'
  BY <1>3 DEF ComesAgain
<1>5. Wave(active)' = Wave(active) /\ WaveOf(active)' = WaveOf(active)
  BY <1>1, <1>3 DEF Wave, WaveOf
<1>6. Fanned'
  <2>1. Fanned
    BY <1>2 DEF Live
  <2> QED
    BY <1>1, <1>2, <1>3, <1>5, <2>1 DEF Fanned, ListAgain, Event1
<1>7. HeardOfRows'
  BY <1>1, <1>2, <1>3, <1>4 DEF Live, HeardOfRows, Has
<1>8. HeardOfNext' /\ HeardOfTask'
  BY <1>2, <1>3 DEF HeardOfNext, HeardOfTask
<1>9. HeardOfKeys'
  <2>1. HeardOfKeys
    BY <1>2 DEF Live
  <2> QED
    BY <1>1, <1>3, <1>4, <1>5, <2>1 DEF HeardOfKeys
<1>10. Full' <=> Full
  BY <1>1, <1>3, <1>5 DEF Full
<1>11. PassedOnlyFull'
  BY <1>1, <1>2, <1>3, <1>10 DEF Live, PassedOnlyFull
<1>12. FullIsPassed'
  <2>1. Full => next[active].inputs = acc[active] \/ InFlight \/ Redo
    BY <1>2 DEF Live, FullIsPassed
  <2>2. InFlight => InFlight'
    BY <1>1, <1>3 DEF InFlight
  <2>3. Redo => Redo'
    BY <1>1, <1>2, <1>3 DEF Redo, Event1
  <2> QED
    BY <1>1, <1>3, <1>10, <2>1, <2>2, <2>3 DEF FullIsPassed
<1> QED
  BY <1>6, <1>7, <1>8, <1>9, <1>11, <1>12 DEF Live

LEMMA LiveConjuncts ==
  ASSUME SplitInv, active \notin lossy
  PROVE  /\ Fanned /\ HeardOfRows /\ HeardOfNext /\ HeardOfTask /\ HeardOfKeys
         /\ PassedOnlyFull /\ FullIsPassed
  BY DEF SplitInv, LiveOK, Live

LEMMA NewList ==
  ASSUME SplitInv, [SplitNext]_splitVars, TakeList, active' \notin lossy'
  PROVE  /\ WaveOf(active)' = Event1.list /\ Wave(active)' = Event1.list.item /\ Event1.list \in Lists
         /\ h' # Idle /\ h'.step = "fan" /\ h'.todo = DOMAIN Event1.list.item
         /\ h'.unread = {} /\ waves'[active] # <<>>
         /\ waves[active] # <<>> => Shape(WaveOf(active)) = Shape(Event1.list)
         /\ Len(waves'[active]) = 1 => waves'[active] = waves[active] \/ waves[active] = <<>>
<1>1. HandlerOK' /\ WavesOK'
  BY HandlerStep, WavesStep
<1>2. h'.step = "fan" /\ h'.rev = active /\ active' = active /\ h'.todo = DOMAIN Event1.list.item /\ h'.list = Event1.list
  BY DEF TakeList, Idle, nodeVars
<1>3. Fans' /\ h' # Idle
  BY <1>1, <1>2, IdleType DEF HandlerOK
<1>4. WaveOf(active)' = Event1.list /\ waves'[active] # <<>> /\ h'.unread = {} /\ Event1.list \in Lists
  BY <1>2, <1>3, TakenList DEF Fans
<1>5. Wave(active)' = Event1.list.item
  BY <1>4 DEF Wave, WaveOf
<1>6. waves[active] # <<>> => Shape(WaveOf(active)) = Shape(Event1.list)
  <2> HAVE waves[active] # <<>>
  <2>1. ~Fork /\ active \in Revision
    BY <1>2, ForkMoves DEF SplitInv, SplitTypeOK
  <2>2. /\ 1 \in 1..Len(waves[active]) /\ 1 \in 1..Len(waves'[active]) /\ waves'[active][1] = waves[active][1]
    <3>1. waves[active] \in Seq(Lists) /\ 1 \in 1..Len(waves[active])
      BY <2>1, WaveTypes DEF SplitInv
    <3> QED
      BY <2>1, <3>1, WavesGrow
  <2>3. Shape(waves[active][1]) = Shape(WaveOf(active))
    BY <1>2, <2>1, <2>2, LossySteps DEF SplitInv, WavesOK
  <2>4. Shape(waves'[active][1]) = Shape(WaveOf(active)')
    BY <1>1, <1>2, <2>1, <2>2 DEF WavesOK
  <2> QED
    BY <1>2, <1>4, <2>2, <2>3, <2>4
<1>7. Len(waves'[active]) = 1 => waves'[active] = waves[active] \/ waves[active] = <<>>
  <2>1. active \in Revision /\ waves \in [Revision -> Seq(Lists)]
    BY DEF SplitInv, SplitTypeOK
  <2>2. CASE waves' = [waves EXCEPT ![active] = Append(waves[active], Event1.list)]
    <3> PICK s, l : s = waves[active] /\ l = Event1.list
      OBVIOUS
    <3>1. s \in Seq(Lists) /\ l \in Lists /\ waves'[active] = Append(s, l)
      BY <1>4, <2>1, <2>2
    <3>2. Len(Append(s, l)) = Len(s) + 1 /\ Len(s) \in Nat /\ (Len(s) = 0 => s = <<>>)
      BY <3>1
    <3>3. Len(Append(s, l)) = 1 => s = <<>>
      BY <3>2
    <3> QED
      BY <3>1, <3>3
  <2>3. ~Fork
    BY <1>2, ForkMoves
  <2>4. waves' = waves \/ waves' = [waves EXCEPT ![active] = Append(waves[active], Event1.list)]
    BY <2>3, WaveSteps
  <2> QED
    BY <2>2, <2>4
<1> QED
  BY <1>2, <1>3, <1>4, <1>5, <1>6, <1>7

(* The step of an entry is in the list that was taken last. *)
LEMMA EntryIsOfWave ==
  ASSUME SplitInv, h.step \in {"fan", "record"}, active \notin lossy
  PROVE  /\ h.rev = active /\ waves[active] # <<>> /\ WaveOf(active) = h.list /\ Wave(active) = h.list.item
         /\ Event1.list = h.list /\ handled < Len(events)
<1>1. Fans /\ h.rev = active
  BY IdleType DEF SplitInv, HandlerOK
<1> QED
  BY <1>1 DEF Fans, Wave, WaveOf

LEMMA EntrySteps ==
  ASSUME SplitInv, [SplitNext]_splitVars, SkipEntry \/ MarkEntryStale \/ CreateTask \/ RecordTask,
         active' \notin lossy'
  PROVE  /\ h.step \in {"fan", "record"} /\ h.todo # {} /\ active' = active
         /\ waves' = waves /\ handled' = handled /\ heard' = heard /\ acc' = acc /\ next' = next
         /\ call' = call /\ h' # Idle /\ h'.step \in {"fan", "record"} /\ h'.unread = {}
         /\ h'.todo = h.todo \/ (~CreateTask /\ h'.todo = h.todo \ {Key1})
         /\ h'.rev = h.rev /\ h'.list = h.list
         /\ ~MarkEntryStale
         /\ rows' = rows \/ RecordTask
         /\ CreateTask \/ rows'[active][Context1].task = Item1
         /\ \A c \in Context : c # Context1 => rows'[active][c] = rows[active][c]
<1>1. h.step \in {"fan", "record"} /\ h.todo # {} /\ h \in HandlerRec
  BY DEF SkipEntry, MarkEntryStale, CreateTask, RecordTask, Fanning, SplitInv, HandlerOK, Fans, SplitTypeOK
<1>2. /\ active' = active /\ waves' = waves /\ handled' = handled /\ heard' = heard /\ acc' = acc
      /\ next' = next /\ call' = call
  BY DEF SkipEntry, MarkEntryStale, CreateTask, RecordTask, nodeVars, histVars
<1>3. active \notin lossy /\ active \in Revision /\ rows \in [Revision -> [Context -> Entry]]
  BY <1>2, LossySteps DEF SplitInv, SplitTypeOK
<1>4. /\ h.rev = active /\ WaveOf(active) = h.list /\ Wave(active) = h.list.item
  BY <1>1, <1>3, EntryIsOfWave
<1>5. /\ Key1 \in h.todo /\ Key1 \in DOMAIN h.list.item /\ Item1 \in Item /\ Context1 \in Context
      /\ Context1.key = Key1
  BY <1>1, EntryFacts DEF SplitInv
<1>6. h'.step \in {"fan", "record"} /\ h'.unread = {} /\ h' # Idle /\ h'.rev = h.rev /\ h'.list = h.list
      /\ (h'.todo = h.todo \/ (~CreateTask /\ h'.todo = h.todo \ {Key1}))
  <2>1. h.unread = {}
    BY <1>1 DEF SplitInv, HandlerOK, Fans
  <2>2. h' = [h EXCEPT !.step = "record"] \/ (~CreateTask /\ h' = NextEntry)
    <3>1. CASE CreateTask
      BY <3>1 DEF CreateTask
    <3>2. CASE ~CreateTask
      BY <3>2 DEF SkipEntry, MarkEntryStale, RecordTask
    <3> QED
      BY <3>1, <3>2
  <2> QED
    BY <1>1, <2>1, <2>2, IdleType DEF NextEntry, HandlerRec
<1>7. rows[active][Context1].task # None => rows[active][Context1].inputs = rows[active][Context1].task
        /\ (~auto => rows[active][Context1].task = Item1)
  <2> HAVE rows[active][Context1].task # None
  <2>1. /\ rows[active][Context1].inputs = rows[active][Context1].task
        /\ ~auto => rows[active][Context1].task = Wave(active)[Context1.key]
    BY <1>3, <1>5, RowFacts
  <2> QED
    BY <1>4, <1>5, <2>1 DEF Item1
<1>8. Row1 = rows[active][Context1]
  BY <1>4 DEF Row1
<1>9. ~MarkEntryStale
  BY <1>7, <1>8 DEF MarkEntryStale
<1>10. CASE SkipEntry
  <2>1. rows' = rows /\ rows[active][Context1].task = Item1
    BY <1>7, <1>8, <1>10 DEF SkipEntry, nodeVars
  <2> QED
    BY <1>1, <1>2, <1>4, <1>6, <1>9, <2>1
<1>11. CASE CreateTask
  <2>1. rows' = rows
    BY <1>11 DEF CreateTask
  <2> QED
    BY <1>1, <1>2, <1>4, <1>6, <1>9, <1>11, <2>1
<1>12. CASE RecordTask
  <2>1. rows' = [rows EXCEPT ![active] = [rows[active] EXCEPT ![Context1] = [task |-> Item1, inputs |-> Item1]]]
    <3>1. PICK e \in Entry :
            /\ SetRow(e) /\ h.step \in {"fan", "record"} /\ h.todo # {}
            /\ (e = StaleEntry /\ MarkEntryStale) \/ (e = NewEntry /\ RecordTask)
      BY <1>12, EntryWritten
    <3>2. rows' = [rows EXCEPT ![active] = [rows[active] EXCEPT ![Context1] = e]]
      BY <1>2, <1>4, <3>1, RowWritten
    <3> QED
      BY <1>9, <3>1, <3>2 DEF NewEntry
  <2>2. rows'[active][Context1].task = Item1 /\ \A c \in Context : c # Context1 => rows'[active][c] = rows[active][c]
    BY <1>3, <1>5, <2>1
  <2> QED
    BY <1>1, <1>2, <1>4, <1>6, <1>9, <1>12, <2>2
<1> QED
  BY <1>9, <1>10, <1>11, <1>12

LEMMA FannedStep ==
  ASSUME SplitInv, [SplitNext]_splitVars, ~Fork, active' \notin lossy'
  PROVE  Fanned'
<1>1. /\ active' = active /\ active \in Revision /\ active \notin lossy
      /\ Fanned /\ (h # Idle => h.rev = active)
      /\ (~TakeList => waves'[active] = waves[active])
      /\ (~RecordTask /\ ~MarkEntryStale => rows' = rows)
      /\ (~CommitOffset => handled' = handled)
  BY Still, LiveConjuncts
<1> DEFINE Row(k) == ElementContext(WaveOf(active), k)
<1>2. CASE TakeList
  BY <1>1, <1>2, NewList DEF Fanned
<1>3. ASSUME waves[active] # <<>>, NEW k \in DOMAIN Wave(active)
      PROVE  /\ \/ rows[active][Row(k)].task = Wave(active)[k]
                \/ h.step \in {"fan", "record"} /\ k \in h.todo
                \/ ListAgain
             /\ Row(k) \in Context /\ Row(k).key = k
  <2>1. WaveOf(active) \in Lists /\ Wave(active) = WaveOf(active).item
    BY <1>1, <1>3, WaveTypes DEF SplitInv
  <2> QED
    BY <1>1, <1>3, <2>1, ContextFacts DEF Fanned
<1>4. ASSUME waves'[active] = waves[active],
             waves[active] # <<>> =>
               \A k \in DOMAIN Wave(active) :
                 \/ rows'[active][Row(k)].task = Wave(active)[k]
                 \/ h'.step \in {"fan", "record"} /\ k \in h'.todo
                 \/ ListAgain'
      PROVE  Fanned'
  BY <1>1, <1>4 DEF Fanned, Wave, WaveOf
<1>5. CASE SkipEntry \/ MarkEntryStale \/ CreateTask \/ RecordTask
  <2>1. /\ h'.step \in {"fan", "record"} /\ (h'.todo = h.todo \/ (~CreateTask /\ h'.todo = h.todo \ {Key1}))
        /\ h.step \in {"fan", "record"} /\ h.todo # {} /\ waves' = waves
        /\ CreateTask \/ rows'[active][Context1].task = Item1
        /\ \A c \in Context : c # Context1 => rows'[active][c] = rows[active][c]
    BY <1>1, <1>5, EntrySteps
  <2>2. WaveOf(active) = h.list /\ Wave(active) = h.list.item /\ h # Idle
    BY <1>1, <2>1, EntryIsOfWave, IdleType
  <2>3. ASSUME waves[active] # <<>>, NEW k \in DOMAIN Wave(active)
        PROVE  rows'[active][Row(k)].task = Wave(active)[k] \/ k \in h'.todo
    <3>1. /\ rows[active][Row(k)].task = Wave(active)[k] \/ k \in h.todo
          /\ Row(k) \in Context /\ Row(k).key = k
      BY <1>3, <2>2, <2>3 DEF ListAgain
    <3>2. Context1.key = Key1 /\ Key1 \in h.todo
      BY <2>1, EntryFacts DEF SplitInv
    <3>3. CASE k = Key1
      <4>1. Row(k) = Context1 /\ Wave(active)[k] = Item1
        BY <2>2, <3>3 DEF Context1, Item1
      <4> QED
        BY <2>1, <3>2, <3>3, <4>1
    <3>4. CASE k # Key1
      <4>1. Row(k) # Context1
        BY <3>1, <3>2, <3>4
      <4>2. rows'[active][Row(k)] = rows[active][Row(k)]
        BY <2>1, <3>1, <4>1
      <4> QED
        BY <2>1, <3>1, <3>4, <4>2
    <3> QED
      BY <3>3, <3>4
  <2> QED
    BY <1>4, <2>1, <2>3
<1>6. CASE TakeResult \/ ReadPage \/ CommitOffset
  <2>1. waves' = waves /\ rows' = rows
    BY <1>6 DEF TakeResult, ReadPage, CommitOffset, nodeVars, histVars
  <2>2. ASSUME waves[active] # <<>>, NEW k \in DOMAIN Wave(active)
        PROVE  rows'[active][Row(k)].task = Wave(active)[k]
    <3>1. \/ rows[active][Row(k)].task = Wave(active)[k]
          \/ h.step \in {"fan", "record"} /\ k \in h.todo
          \/ ListAgain
      BY <1>3, <2>2
    <3>2. ListAgain => ~TakeResult
      <4>1. ListAgain => Event1.list \in Lists /\ handled + 1 \in 1..Len(events)
        BY <1>1, <2>2, WaveTypes, HandledSteps, EventsGrow DEF ListAgain, SplitInv
      <4>2. ListAgain => Event1.task = None
        BY <4>1, NullsDiffer DEF SplitInv, EventsOK, Event1
      <4> QED
        BY <4>2 DEF TakeResult
    <3>3. ListAgain => ~ReadPage /\ ~CommitOffset
      BY IdleType DEF ListAgain, ReadPage, CommitOffset
    <3>4. ~(h.step \in {"fan", "record"} /\ k \in h.todo)
      BY <1>6, IdleType DEF TakeResult, ReadPage, CommitOffset, Free
    <3> QED
      BY <1>6, <2>1, <3>1, <3>2, <3>3, <3>4
  <2> QED
    BY <1>4, <2>1, <2>2
<1>7. CASE ProcessEnds
  <2>1. waves' = waves /\ rows' = rows /\ h' = Idle /\ h # Idle /\ handled' = handled
    BY <1>7 DEF ProcessEnds, nodeVars
  <2>2. ASSUME waves[active] # <<>>, NEW k \in DOMAIN Wave(active)
        PROVE  rows'[active][Row(k)].task = Wave(active)[k] \/ ListAgain'
    <3>1. rows[active][Row(k)].task = Wave(active)[k] \/ h.step \in {"fan", "record"}
      BY <1>3, <2>1, <2>2 DEF ListAgain
    <3>2. h.step \in {"fan", "record"} => ListAgain'
      <4> HAVE h.step \in {"fan", "record"}
      <4>1. WaveOf(active) = h.list /\ Event1.list = h.list /\ handled < Len(events)
        BY <1>1, EntryIsOfWave
      <4>2. Event1' = Event1 /\ handled' < Len(events')
        BY <1>1, <2>1, <4>1, EventStays
      <4>3. WaveOf(active)' = WaveOf(active)
        BY <1>1, <2>1 DEF WaveOf
      <4> QED
        BY <1>1, <2>1, <4>1, <4>2, <4>3 DEF ListAgain
    <3> QED
      BY <2>1, <3>1, <3>2
  <2> QED
    BY <1>4, <2>1, <2>2
<1>8. CASE GiveList \/ (\E t \in Item : Work(t) \/ WorkAgain(t)) \/ (\E c \in Context : CallNext(c)) \/ UNCHANGED splitVars
  <2>1. h' = h /\ handled' = handled
    BY <1>8, HandlerLeft
  <2>2. rows' = rows /\ waves' = waves
    BY <1>8 DEF GiveList, Work, WorkAgain, FinishTask, CallNext, Merge, SkipNext, Forward, WriteNext, nodeVars,
         histVars, splitVars, loopVars
  <2>3. ListAgain => ListAgain'
    <3>1. WaveOf(active)' = WaveOf(active)
      BY <1>1, <2>2 DEF WaveOf
    <3> QED
      BY <1>1, <2>1, <3>1, EventStays DEF ListAgain
  <2> QED
    BY <1>3, <1>4, <2>1, <2>2, <2>3
<1> QED
  BY <1>2, <1>5, <1>6, <1>7, <1>8 DEF SplitNext, LoopNext

(* The steps that leave the handler to what it is doing. *)
LEMMA QuietSteps ==
  ASSUME SplitInv, [SplitNext]_splitVars,
         GiveList \/ (\E t \in Item : Work(t) \/ WorkAgain(t)) \/ UNCHANGED splitVars
  PROVE  UNCHANGED <<auto, active, rows, acc, next, handled, h, call, waves, heard, lossy>>
  BY DEF GiveList, Work, WorkAgain, FinishTask, nodeVars, histVars, splitVars, loopVars

LEMMA HeardOfRowsStep ==
  ASSUME SplitInv, [SplitNext]_splitVars, ~Fork, active' \notin lossy'
  PROVE  HeardOfRows'
<1>1. /\ active' = active /\ active \in Revision /\ active \notin lossy
      /\ HeardOfRows /\ (h # Idle => h.rev = active)
      /\ (~RecordTask /\ ~MarkEntryStale => rows' = rows)
  BY Still, LiveConjuncts
<1> SUFFICES ASSUME NEW c \in Context, NEW t \in Item, rows'[active][c].task = t, heard'[active][t] # None
             PROVE  ComesAgain(t)' \/ (c.key \in DOMAIN acc'[active] /\ acc'[active][c.key] = heard'[active][t])
  BY <1>1 DEF HeardOfRows, Has
<1>2. rows[active][c].task = t /\ heard[active][t] # None =>
        ComesAgain(t) \/ (c.key \in DOMAIN acc[active] /\ acc[active][c.key] = heard[active][t])
  BY <1>1 DEF HeardOfRows, Has
<1>3. CASE rows' = rows /\ acc' = acc /\ heard' = heard /\ ~CommitOffset
  BY <1>2, <1>3, StaysToCome
<1>4. CASE CommitOffset
  <2>1. rows' = rows /\ acc' = acc /\ h # Idle
    BY <1>4, IdleType DEF CommitOffset, nodeVars
  <2>2. CASE heard' = heard /\ Event1.task # t
    BY <1>2, <2>1, <2>2, StaysToCome
  <2>3. CASE h.step = "fan"
    <3>1. handled + 1 \in 1..Len(events) /\ Event1.list \in Lists
      BY <2>3, EventsGrow, HandledSteps DEF SplitInv, HandlerOK, Fans
    <3>2. Event1.task = None
      BY <3>1, NullsDiffer DEF SplitInv, EventsOK, Event1
    <3>3. heard' = heard
      BY <2>3, HeardSteps
    <3> QED
      BY <2>2, <3>2, <3>3, NullsDiffer
  <2>4. CASE h.step = "calls"
    <3>1. /\ Event1.task = h.task /\ h.task \in Item /\ h.unread = {}
          /\ \A d \in Context : call[d].step = "none"
      BY <1>4, <2>4 DEF SplitInv, HandlerOK, Completes, CommitOffset
    <3>2. heard' = [heard EXCEPT ![active] = [heard[active] EXCEPT ![h.task] = h.value]]
      BY <1>1, <1>4, <2>1, <3>1, NullsDiffer DEF CommitOffset
    <3>3. heard \in [Revision -> [Item -> Output \cup {None}]]
      BY DEF SplitInv, SplitTypeOK
    <3>4. CASE t = h.task
      <4>1. heard'[active][t] = h.value
        BY <1>1, <3>1, <3>2, <3>3, <3>4
      <4>2. HeardOfTask
        BY <1>1, LiveConjuncts
      <4>3. Has(c.key, h.value)
        BY <2>1, <2>4, <3>1, <3>4, <4>2 DEF HeardOfTask
      <4> QED
        BY <2>1, <4>1, <4>3 DEF Has
    <3>5. CASE t # h.task
      <4>1. heard'[active][t] = heard[active][t]
        BY <1>1, <3>1, <3>2, <3>3, <3>5
      <4> QED
        BY <1>2, <2>1, <3>1, <3>5, <4>1, StaysToCome
    <3> QED
      BY <3>4, <3>5
  <2> QED
    BY <1>4, <2>3, <2>4 DEF CommitOffset
<1>5. ASSUME NEW d \in Context, Merge(d) PROVE ComesAgain(t)' \/ (c.key \in DOMAIN acc'[active] /\ acc'[active][c.key] = heard'[active][t])
  <2>1. rows' = rows /\ heard' = heard /\ h.step = "calls" /\ handled' = handled
    BY <1>5 DEF Merge, CallAt, histVars
  <2>2. ~CommitOffset /\ h # Idle
    BY <2>1, HandledSteps, IdleType
  <2>3. /\ rows[active][d].task = h.task /\ h.task \in Item
        /\ DOMAIN acc'[active] = DOMAIN acc[active] \cup {d.key}
        /\ \A j \in DOMAIN acc[active] : j # d.key => acc'[active][j] = acc[active][j]
    BY <1>1, <1>5, <2>2, MergeFacts
  <2>4. CASE c.key = d.key
    <3>1. c = ElementContext(WaveOf(active), c.key) /\ d = ElementContext(WaveOf(active), d.key)
      BY <1>1, <2>1, <2>3, NullsDiffer, RowFacts
    <3>2. t = h.task
      BY <2>1, <2>3, <2>4, <3>1
    <3> QED
      BY <2>1, <2>2, <3>2, EventToCome
  <2>5. CASE c.key # d.key
    BY <1>2, <2>1, <2>2, <2>3, <2>5, StaysToCome
  <2> QED
    BY <2>4, <2>5
<1>6. CASE SkipEntry \/ MarkEntryStale \/ CreateTask \/ RecordTask
  <2>1. /\ acc' = acc /\ heard' = heard /\ handled' = handled /\ (rows' = rows \/ RecordTask)
        /\ \A d \in Context : d # Context1 => rows'[active][d] = rows[active][d]
        /\ CreateTask \/ rows'[active][Context1].task = Item1
    BY <1>1, <1>6, EntrySteps
  <2>2. ~CommitOffset
    BY <2>1, HandledSteps
  <2>3. CASE RecordTask /\ c = Context1
    <3>1. h.step = "record" /\ t = Item1
      <4>1. ~CreateTask
        BY <2>3 DEF RecordTask, CreateTask, Fanning
      <4> QED
        BY <2>1, <2>3, <4>1 DEF RecordTask
    <3>2. HeardOfNext
      BY <1>1, LiveConjuncts
    <3>3. ComesAgain(t)
      BY <2>1, <3>1, <3>2 DEF HeardOfNext
    <3> QED
      BY <2>2, <3>3, StaysToCome
  <2>4. CASE ~(RecordTask /\ c = Context1)
    <3>1. rows'[active][c] = rows[active][c]
      BY <2>1, <2>4
    <3> QED
      BY <1>2, <2>1, <2>2, <3>1, StaysToCome
  <2> QED
    BY <2>3, <2>4
<1>7. CASE TakeList \/ TakeResult \/ ReadPage \/ ProcessEnds \/ \E d \in Context : SkipNext(d) \/ Forward(d) \/ WriteNext(d)
  <2>1. rows' = rows /\ acc' = acc /\ heard' = heard /\ handled' = handled
    BY <1>7 DEF TakeList, TakeResult, ReadPage, ProcessEnds, SkipNext, Forward, WriteNext, nodeVars, histVars
  <2> QED
    BY <1>3, <2>1, HandledSteps
<1>8. CASE GiveList \/ (\E u \in Item : Work(u) \/ WorkAgain(u)) \/ UNCHANGED splitVars
  BY <1>3, <1>8, QuietSteps, HandledSteps
<1> QED
  BY <1>4, <1>5, <1>6, <1>7, <1>8 DEF SplitNext, LoopNext, CallNext

LEMMA HeardOfNextStep ==
  ASSUME SplitInv, [SplitNext]_splitVars, ~Fork, active' \notin lossy'
  PROVE  HeardOfNext'
<1>1. /\ active' = active /\ active \notin lossy /\ HeardOfNext /\ (h # Idle => h.rev = active)
  BY Still, LiveConjuncts
<1> SUFFICES ASSUME h'.step = "record" PROVE (heard[active][Item1] # None => ComesAgain(Item1))'
  BY DEF HeardOfNext
<1>2. ASSUME h'.list = h.list, h'.todo = h.todo, heard' = heard, ~CommitOffset,
             heard[active][Item1] # None => ComesAgain(Item1)
      PROVE  (heard[active][Item1] # None => ComesAgain(Item1))'
  <2> PICK t : t = Item1
    OBVIOUS
  <2>1. Item1' = t
    BY <1>2 DEF Item1, Key1
  <2>2. heard[active][t] # None => ComesAgain(t)'
    BY <1>2, StaysToCome
  <2> QED
    BY <1>1, <1>2, <2>1, <2>2 DEF ComesAgain
<1>3. CASE CreateTask
  <2>1. /\ h.step \in {"fan", "record"} /\ h.todo # {} /\ heard' = heard /\ handled' = handled
        /\ h'.list = h.list
    BY <1>1, <1>3, EntrySteps
  <2>2. h'.todo = h.todo /\ h.rev = active /\ (output[Item1] \in Output => ComesAgain(Item1))
    <3>1. h \in HandlerRec /\ h # Idle
      BY <2>1, IdleType DEF SplitInv, SplitTypeOK
    <3> QED
      BY <1>1, <1>3, <3>1 DEF CreateTask, HandlerRec
  <2>3. Item1 \in Item
    BY <2>1, EntryFacts DEF SplitInv
  <2>4. heard[active][Item1] # None => output[Item1] \in Output
    BY <2>3 DEF SplitInv, EventsOK, SplitTypeOK
  <2> QED
    BY <1>2, <2>1, <2>2, <2>4, HandledSteps
<1>4. CASE SkipEntry \/ MarkEntryStale \/ RecordTask \/ TakeList \/ TakeResult \/ CommitOffset \/ ProcessEnds
  <2>1. h \in HandlerRec
    BY DEF SplitInv, SplitTypeOK
  <2>2. h'.step # "record"
    BY <1>4, <2>1, IdleType DEF SkipEntry, MarkEntryStale, RecordTask, TakeList, TakeResult, CommitOffset, ProcessEnds,
         NextEntry, Idle, HandlerRec
  <2> QED
    BY <2>2
<1>5. CASE ReadPage
  <2>1. h \in HandlerRec
    BY DEF SplitInv, SplitTypeOK
  <2>2. h'.step # "record"
    BY <1>5, <2>1 DEF ReadPage, HandlerRec
  <2> QED
    BY <2>2
<1>6. CASE GiveList \/ (\E u \in Item : Work(u) \/ WorkAgain(u)) \/ UNCHANGED splitVars
  BY <1>1, <1>2, <1>6, QuietSteps, HandledSteps DEF HeardOfNext
<1>7. CASE \E c \in Context : CallNext(c)
  <2>1. h' = h /\ h.step = "calls"
    BY <1>7, CallSteps
  <2> QED
    BY <2>1
<1> QED
  BY <1>3, <1>4, <1>5, <1>6, <1>7 DEF SplitNext, LoopNext

LEMMA HeardOfTaskStep ==
  ASSUME SplitInv, [SplitNext]_splitVars, ~Fork, active' \notin lossy'
  PROVE  HeardOfTask'
<1>1. /\ active' = active /\ active \notin lossy /\ HeardOfTask /\ (h # Idle => h.rev = active)
      /\ active \in Revision
  BY Still, LiveConjuncts
<1> SUFFICES ASSUME h'.step \in {"pages", "calls"}, NEW c \in Context, rows'[active][c].task = h'.task
             PROVE  \/ c \in h'.unread \/ call'[c].step = "merge"
                    \/ c.key \in DOMAIN acc'[active] /\ acc'[active][c.key] = h'.value
  BY <1>1 DEF HeardOfTask, Has
<1>2. h.step \in {"pages", "calls"} /\ rows[active][c].task = h.task =>
        \/ c \in h.unread \/ call[c].step = "merge"
        \/ c.key \in DOMAIN acc[active] /\ acc[active][c.key] = h.value
  BY <1>1 DEF HeardOfTask, Has
<1>3. h \in HandlerRec /\ call \in [Context -> CallRec]
  BY DEF SplitInv, SplitTypeOK
<1>4. CASE TakeList \/ SkipEntry \/ MarkEntryStale \/ CreateTask \/ RecordTask \/ CommitOffset \/ ProcessEnds
  <2>1. h'.step \notin {"pages", "calls"}
    BY <1>3, <1>4, IdleType DEF SkipEntry, MarkEntryStale, RecordTask, CreateTask, TakeList, CommitOffset, ProcessEnds,
         NextEntry, Idle, HandlerRec
  <2> QED
    BY <2>1
<1>5. CASE TakeResult
  <2>1. rows' = rows /\ h'.task = Event1.task /\ h'.unread = RecordsOf(active, Event1.task)
    BY <1>5 DEF TakeResult, Idle, nodeVars
  <2> QED
    BY <2>1 DEF RecordsOf
<1>6. CASE ReadPage
  <2>1. PICK P \in SUBSET h.unread :
          /\ h' = [h EXCEPT !.unread = h.unread \ P, !.step = IF h.unread = P THEN "calls" ELSE "pages"]
          /\ call' = [d \in Context |-> IF d \in P THEN [NoCall EXCEPT !.step = "merge"] ELSE call[d]]
    BY <1>6 DEF ReadPage
  <2>2. h'.unread = h.unread \ P /\ h'.task = h.task /\ h'.value = h.value
    BY <1>3, <2>1 DEF HandlerRec
  <2>3. rows' = rows /\ acc' = acc /\ h.step = "pages"
    BY <1>6 DEF ReadPage, nodeVars
  <2>4. c \in P => call'[c].step = "merge"
    BY <2>1 DEF NoCall
  <2>5. c \notin P => call'[c] = call[c]
    BY <2>1
  <2> QED
    BY <1>2, <2>2, <2>3, <2>4, <2>5
<1>7. CASE GiveList \/ (\E u \in Item : Work(u) \/ WorkAgain(u)) \/ UNCHANGED splitVars
  BY <1>2, <1>7, QuietSteps
<1>8. ASSUME NEW d \in Context, CallNext(d)
      PROVE  \/ call'[c].step = "merge"
             \/ c.key \in DOMAIN acc'[active] /\ acc'[active][c.key] = h'.value
  <2>1. h' = h /\ rows' = rows /\ h.step = "calls" /\ \A e \in Context \ {d} : call'[e] = call[e]
    BY <1>8, CallSteps
  <2>2. h.rev = active /\ h.unread = {}
    BY <1>1, <2>1, IdleType DEF SplitInv, HandlerOK, Completes
  <2>3. call[c].step = "merge" \/ (c.key \in DOMAIN acc[active] /\ acc[active][c.key] = h.value)
    BY <1>2, <2>1, <2>2
  <2>4. CASE Merge(d)
    <3>1. /\ DOMAIN acc'[active] = DOMAIN acc[active] \cup {d.key} /\ acc'[active][d.key] = h.value
          /\ \A j \in DOMAIN acc[active] : j # d.key => acc'[active][j] = acc[active][j]
      BY <2>2, <2>4, MergeFacts
    <3>2. CASE c = d
      BY <2>1, <3>1, <3>2
    <3>3. CASE c # d
      BY <2>1, <2>3, <3>1, <3>3
    <3> QED
      BY <3>2, <3>3
  <2>5. CASE SkipNext(d) \/ Forward(d) \/ WriteNext(d)
    <3>1. acc' = acc /\ call[d].step # "merge"
      BY <2>5 DEF SkipNext, Forward, WriteNext, CallAt, nodeVars
    <3> QED
      BY <2>1, <2>3, <3>1
  <2> QED
    BY <1>8, <2>4, <2>5 DEF CallNext
<1> QED
  BY <1>4, <1>5, <1>6, <1>7, <1>8 DEF SplitNext, LoopNext

LEMMA HeardOfKeysStep ==
  ASSUME SplitInv, [SplitNext]_splitVars, ~Fork, active' \notin lossy'
  PROVE  HeardOfKeys'
<1>1. /\ active' = active /\ active \notin lossy /\ HeardOfKeys /\ (h # Idle => h.rev = active)
      /\ active \in Revision
      /\ (~TakeList => waves'[active] = waves[active])
  BY Still, LiveConjuncts
<1> SUFFICES ASSUME Len(waves'[active]) = 1, NEW k \in DOMAIN acc'[active]
             PROVE  heard'[active][Wave(active)'[k]] # None \/ ComesAgain(Wave(active)[k])'
  BY <1>1 DEF HeardOfKeys
<1>2. CASE waves'[active] = <<>> \/ waves[active] = <<>>
  <2>1. waves[active] = <<>> => acc[active] = acc'[active] /\ DOMAIN acc[active] = {}
    <3> HAVE waves[active] = <<>>
    <3>1. \A r \in Revision \ lossy : \A j \in DOMAIN acc[r] : Source(r, j, acc[r][j])
      BY DEF SplitInv, AccOK
    <3>2. DOMAIN acc[active] = {}
      <4>1. 1..Len(waves[active]) = {}
        OBVIOUS
      <4>2. \A j \in DOMAIN acc[active] : \E i \in 1..Len(waves[active]) : TRUE
        BY <1>1, <3>1 DEF Source
      <4> QED
        BY <4>1, <4>2
    <3>3. ~\E c \in Context : Merge(c) /\ h.rev = active
      BY <1>1, MergeFacts, RowFacts
    <3>4. acc \in [Revision -> Results] /\ h.rev \in Revision
      BY HandlerTypes DEF SplitInv, SplitTypeOK
    <3>5. acc'[active] = acc[active]
      BY <1>1, <3>3, <3>4, AccSteps
    <3> QED
      BY <3>2, <3>5
  <2>2. waves'[active] # <<>>
    OBVIOUS
  <2> QED
    BY <1>2, <2>1, <2>2
<1>3. CASE waves'[active] = waves[active] /\ waves[active] # <<>>
  <2>1. Wave(active)' = Wave(active)
    BY <1>1, <1>3 DEF Wave
  <2> PICK t : t = Wave(active)[k]
    OBVIOUS
  <2>2. k \in DOMAIN acc[active] => heard[active][t] # None \/ ComesAgain(t)
    BY <1>1, <1>3 DEF HeardOfKeys
  <2> SUFFICES heard'[active][t] # None \/ ComesAgain(t)'
    BY <2>1
  <2>3. k \in DOMAIN acc[active] => t \in Item
    <3> HAVE k \in DOMAIN acc[active]
    <3>1. PICK i \in 1..Len(waves[active]) : k \in DOMAIN waves[active][i].item
      BY <1>1 DEF SplitInv, AccOK, Source
    <3>2. i = Len(waves[active]) /\ waves[active][i] \in Lists
      BY <1>1, <1>3, <3>1, WaveTypes DEF SplitInv
    <3>3. t = waves[active][i].item[k]
      BY <3>2 DEF Wave, LastOf
    <3> QED
      BY <3>1, <3>2, <3>3, ContextFacts
  <2>4. t \in Item /\ heard[active][t] # None => heard'[active][t] # None
    <3>1. heard \in [Revision -> [Item -> Output \cup {None}]]
      BY DEF SplitInv, SplitTypeOK
    <3> QED
      BY <1>1, <3>1, NullsDiffer, HeardSteps, HandlerTypes
  <2>5. CASE k \in DOMAIN acc[active] /\ ComesAgain(t)
    <3>1. CASE ~CommitOffset \/ Event1.task # t
      BY <2>5, <3>1, StaysToCome
    <3>2. CASE CommitOffset /\ Event1.task = t
      <4>1. t \in Item
        BY <2>5, <2>3
      <4>2. h.step = "calls" /\ h.rev = active
        <5>1. ASSUME h.step = "fan" PROVE FALSE
          <6>1. handled + 1 \in 1..Len(events) /\ Event1.list \in Lists
            BY <5>1, EventsGrow, HandledSteps DEF SplitInv, HandlerOK, Fans
          <6> QED
            BY <3>2, <4>1, <6>1, NullsDiffer DEF SplitInv, EventsOK, Event1
        <5> QED
          BY <1>1, <3>2, <5>1, IdleType DEF CommitOffset
      <4>3. h.task = t /\ h.value \in Output
        BY <3>2, <4>2 DEF SplitInv, HandlerOK, Completes
      <4>4. heard' = [heard EXCEPT ![active] = [heard[active] EXCEPT ![t] = h.value]]
        BY <3>2, <4>1, <4>2, <4>3, NullsDiffer DEF CommitOffset
      <4>5. heard \in [Revision -> [Item -> Output \cup {None}]]
        BY DEF SplitInv, SplitTypeOK
      <4>6. heard'[active][t] = h.value
        BY <1>1, <4>1, <4>4, <4>5
      <4> QED
        BY <4>3, <4>6, NullsDiffer
    <3> QED
      BY <3>1, <3>2
  <2>6. CASE k \notin DOMAIN acc[active]
    <3>1. acc'[active] # acc[active] /\ acc \in [Revision -> Results] /\ h.rev \in Revision
      BY <2>6, HandlerTypes DEF SplitInv, SplitTypeOK
    <3>2. PICK c \in Context : Merge(c) /\ h.rev = active
      BY <1>1, <3>1, AccSteps
    <3>3. /\ rows[active][c].task = h.task /\ rows[active][c].task # None /\ h.step = "calls"
          /\ DOMAIN acc'[active] = DOMAIN acc[active] \cup {c.key}
      BY <3>2, MergeFacts
    <3>4. rows[active][c].task = Wave(active)[c.key]
      BY <1>1, <1>3, <3>3, RowFacts
    <3>5. t = h.task
      BY <2>6, <3>3, <3>4
    <3>6. ~CommitOffset
      BY <3>2, HandledSteps DEF Merge
    <3> QED
      BY <3>3, <3>5, <3>6, EventToCome
  <2> QED
    BY <2>2, <2>4, <2>5, <2>6, <2>3
<1>4. CASE waves'[active] # waves[active] /\ waves[active] # <<>>
  <2>1. TakeList
    BY <1>1, <1>4
  <2> QED
    BY <1>4, <2>1, NewList
<1> QED
  BY <1>2, <1>3, <1>4

LEMMA NextSteps ==
  ASSUME SplitInv, [SplitNext]_splitVars, ~Fork
  PROVE  \/ next' = next
         \/ \E c \in Context :
              /\ WriteNext(c)
              /\ next' = [next EXCEPT ![h.rev] = [task |-> call[c].start, inputs |-> call[c].list]]
<1>1. ASSUME NEW c \in Context, WriteNext(c)
      PROVE  \/ next' = next
             \/ next' = [next EXCEPT ![h.rev] = [task |-> call[c].start, inputs |-> call[c].list]]
  BY <1>1, NextWritten
<1>2. CASE ~\E c \in Context : WriteNext(c)
  BY <1>2 DEF SplitNext, LoopNext, CallNext, GiveList, Work, WorkAgain, FinishTask, TakeList,
       SkipEntry, MarkEntryStale, CreateTask, RecordTask, TakeResult, ReadPage, CommitOffset, ProcessEnds,
       Merge, SkipNext, Forward, nodeVars, splitVars
<1> QED
  BY <1>1, <1>2

LEMMA NothingBefore ==
  ASSUME SplitInv, active \notin lossy, waves[active] = <<>>
  PROVE  DOMAIN acc[active] = {}
<1>1. \A j \in DOMAIN acc[active] : \E i \in 1..Len(waves[active]) : TRUE
  BY DEF SplitInv, AccOK, Source, SplitTypeOK
<1>2. 1..Len(waves[active]) = {}
  OBVIOUS
<1> QED
  BY <1>1, <1>2

(* Fullness changes with the last key only. *)
LEMMA FullSteps ==
  ASSUME SplitInv, [SplitNext]_splitVars, ~Fork, active' \notin lossy'
  PROVE  /\ Full => Full'
         /\ Full' => Full \/ \E c \in Context : Merge(c) /\ h.rev = active
         /\ acc'[active] = acc[active] \/ \E c \in Context : Merge(c) /\ h.rev = active
<1>1. /\ active' = active /\ active \notin lossy /\ active \in Revision
      /\ (~TakeList => waves'[active] = waves[active]) /\ (h # Idle => h.rev = active)
  BY Still
<1>2. CASE TakeList
  <2>1. acc' = acc
    BY <1>2 DEF TakeList, nodeVars
  <2>2. waves[active] = <<>> => DOMAIN acc[active] = {}
    BY <1>1, NothingBefore
  <2>3. waves[active] # <<>> => DOMAIN Wave(active)' = DOMAIN Wave(active)
    <3> HAVE waves[active] # <<>>
    <3>1. /\ Shape(WaveOf(active)) = Shape(Event1.list) /\ WaveOf(active)' = Event1.list
          /\ Wave(active)' = Event1.list.item
      BY <1>2, NewList
    <3>2. Wave(active) = WaveOf(active).item
      BY DEF Wave, WaveOf
    <3>3. Shape(WaveOf(active)).keys = DOMAIN Wave(active) /\ Shape(Event1.list).keys = DOMAIN Event1.list.item
      BY <3>2, ContextFacts
    <3> QED
      BY <3>1, <3>3
  <2>4. waves'[active] # <<>>
    BY <1>2, NewList
  <2> QED
    BY <1>1, <2>1, <2>2, <2>3, <2>4 DEF Full
<1>3. ASSUME NEW c \in Context, Merge(c)
      PROVE  (Full => Full') /\ h.rev = active
  <2>1. h.rev = active
    BY <1>1, <1>3, MergeFacts, IdleType
  <2>2. DOMAIN acc'[active] = DOMAIN acc[active] \cup {c.key}
    BY <1>3, <2>1, MergeFacts
  <2>3. c.key \in DOMAIN Wave(active)
    BY <1>1, <1>3, <2>1, MergeFits
  <2>4. waves' = waves
    BY <1>3 DEF Merge, histVars
  <2> QED
    BY <1>1, <2>1, <2>2, <2>3, <2>4 DEF Full, Wave
<1>4. CASE ~TakeList /\ ~\E c \in Context : Merge(c)
  <2>1. acc' = acc
    BY <1>4, AccSteps
  <2> QED
    BY <1>1, <1>4, <2>1 DEF Full, Wave
<1> QED
  BY <1>2, <1>3, <1>4

(* A list that is passed on whole, in a revision that lost nothing. *)
LEMMA CallIsFull ==
  ASSUME SplitInv, active \notin lossy, NEW d \in Context,
         call[d].step \in {"look", "write"}, call[d].list = acc[active]
  PROVE  Full
<1>1. h.step = "calls" /\ rows[h.rev][d].task = h.task /\ (h.rev \notin lossy => Fits(h.rev, call[d].list))
  BY DEF SplitInv, CallsOK
<1>2. h.rev = active /\ h.task \in Item /\ active \in Revision
  BY <1>1, IdleType DEF SplitInv, HandlerOK, Completes, SplitTypeOK
<1>3. waves[active] # <<>> /\ d.key \in DOMAIN Wave(active)
  BY <1>1, <1>2, NullsDiffer, RowFacts
<1>4. DOMAIN acc[active] = DOMAIN Wave(active)
  BY <1>1, <1>2 DEF Fits
<1> QED
  BY <1>3, <1>4 DEF Full

(* The call that writes passes on the last results, or another still will. *)
LEMMA WriterFacts ==
  ASSUME SplitInv, [SplitNext]_splitVars, NEW c \in Context, WriteNext(c), active' \notin lossy'
  PROVE  /\ h.rev = active /\ Full
         /\ next'[active].inputs = call[c].list
         /\ \/ call[c].list = acc[active]
            \/ \E d \in Context \ {c} : call[d].step \in {"look", "write"} /\ call[d].list = acc[active]
<1>1. active' = active /\ h.step = "calls" /\ call[c].step = "write"
  BY DEF WriteNext, CallAt
<1>2. active \notin lossy /\ active \in Revision
  BY <1>1, LossySteps DEF SplitInv, SplitTypeOK
<1>3. h.rev = active
  BY <1>1, <1>2, IdleType DEF SplitInv, HandlerOK
<1>4. ~Late(c) /\ next'[active].inputs = call[c].list
  BY <1>1, <1>3, NextWritten
<1>5. \/ call[c].list = acc[active]
      \/ \E d \in Context \ {c} : call[d].step \in {"look", "write"} /\ call[d].list = acc[active]
  BY <1>3, <1>4 DEF Late
<1>6. Full
  BY <1>1, <1>2, <1>5, CallIsFull
<1> QED
  BY <1>3, <1>4, <1>5, <1>6

LEMMA PassedOnlyFullStep ==
  ASSUME SplitInv, [SplitNext]_splitVars, ~Fork, active' \notin lossy'
  PROVE  PassedOnlyFull'
<1>1. active' = active /\ PassedOnlyFull /\ active \notin lossy
  BY Still, LiveConjuncts
<1>2. CASE next' = next
  BY <1>1, <1>2, FullSteps DEF PassedOnlyFull
<1>3. ASSUME NEW c \in Context, WriteNext(c) PROVE PassedOnlyFull'
  BY <1>3, WriterFacts, FullSteps DEF PassedOnlyFull
<1> QED
  BY <1>2, <1>3, NextSteps

LEMMA FullIsPassedStep ==
  ASSUME SplitInv, [SplitNext]_splitVars, ~Fork, active' \notin lossy'
  PROVE  FullIsPassed'
<1>1. /\ active' = active /\ active \in Revision /\ active \notin lossy /\ (h # Idle => h.rev = active)
      /\ FullIsPassed /\ (~RecordTask /\ ~MarkEntryStale => rows' = rows)
      /\ (~CommitOffset => handled' = handled)
  BY Still, LiveConjuncts
<1>2. h \in HandlerRec /\ call \in [Context -> CallRec] /\ next \in [Revision -> NextState]
  BY DEF SplitInv, SplitTypeOK
<1> SUFFICES ASSUME Full' PROVE next'[active].inputs = acc'[active] \/ InFlight' \/ Redo'
  BY <1>1 DEF FullIsPassed
<1>3. ASSUME NEW c \in Context, Merge(c) PROVE InFlight'
  <2>1. h.rev = active
    BY <1>1, <1>3, MergeFacts, IdleType
  <2>2. DOMAIN acc'[active] = DOMAIN Wave(active)'
    BY <1>1 DEF Full
  <2>3. Wave(active)' = Wave(active)
    BY <1>1, <1>3 DEF Wave, Merge, histVars
  <2> PICK l : l = acc'[active]
    OBVIOUS
  <2>4. Complete(c, l)
    BY <1>1, <1>3, <2>1, <2>2, <2>3, MergeFits
  <2>5. call'[c].step = "look" /\ call'[c].list = acc'[active]
    <3>1. call' = [call EXCEPT ![c] = [step |-> "look", list |-> l, start |-> FALSE]]
      <4>1. l = WithKey(acc[h.rev], c.key, h.value)
        BY <1>3, <2>1, MergeFacts
      <4> QED
        BY <1>3, <2>4, <4>1 DEF Merge
    <3> QED
      BY <1>2, <3>1
  <2> QED
    BY <1>1, <2>5 DEF InFlight
<1>4. CASE ~\E c \in Context : Merge(c)
  <2>1. Full /\ acc'[active] = acc[active]
    BY <1>4, FullSteps
  <2>2. next[active].inputs = acc[active] \/ InFlight \/ Redo
    BY <1>1, <2>1 DEF FullIsPassed
  <2>3. CASE TakeList \/ SkipEntry \/ MarkEntryStale \/ CreateTask \/ RecordTask
    <3>1. next' = next
      BY <2>3 DEF TakeList, SkipEntry, MarkEntryStale, CreateTask, RecordTask, nodeVars
    <3>2. h.step \in {"idle", "fan", "record"}
      BY <2>3, IdleType DEF TakeList, SkipEntry, MarkEntryStale, CreateTask, RecordTask, Free, Fanning
    <3>3. ~InFlight
      BY <3>2, NoCalls DEF InFlight
    <3>4. ~Redo
      <4>1. CASE h = Idle
        <5>1. TakeList
          BY <2>3, <4>1, IdleType DEF SkipEntry, MarkEntryStale, CreateTask, RecordTask, Fanning
        <5> QED
          BY <4>1, <5>1, TakenList DEF Redo
      <4>2. CASE h # Idle
        <5>1. h.unread = {} /\ \A c \in Context : call[c].step = "none"
          BY <3>2, <4>2, NoCalls DEF SplitInv, HandlerOK, Fans
        <5> QED
          BY <4>2, <5>1 DEF Redo
      <4> QED
        BY <4>1, <4>2
    <3> QED
      BY <2>1, <2>2, <3>1, <3>3, <3>4
  <2>4. CASE TakeResult
    <3>1. next' = next /\ h = Idle /\ rows' = rows /\ h'.unread = RecordsOf(active, Event1.task) /\ h'.step = "pages"
      BY <2>4 DEF TakeResult, Free, Idle, nodeVars
    <3>2. ~InFlight
      BY <3>1, IdleType, NoCalls DEF InFlight
    <3>3. Redo => h'.unread # {}
      BY <3>1 DEF Redo, RecordsOf
    <3> QED
      BY <2>1, <2>2, <3>1, <3>2, <3>3, IdleType DEF Redo
  <2>5. CASE ReadPage
    <3>1. next' = next /\ h.step = "pages" /\ h # Idle
      BY <2>5, IdleType DEF ReadPage, nodeVars
    <3>2. ~InFlight
      BY <3>1, NoCalls DEF InFlight
    <3>3. PICK P \in SUBSET h.unread :
          /\ h' = [h EXCEPT !.unread = h.unread \ P, !.step = IF h.unread = P THEN "calls" ELSE "pages"]
          /\ call' = [d \in Context |-> IF d \in P THEN [NoCall EXCEPT !.step = "merge"] ELSE call[d]]
      BY <2>5 DEF ReadPage
    <3>4. h'.unread = h.unread \ P /\ h' # Idle
      <4>1. h'.unread = h.unread \ P /\ h'.step # "idle"
        BY <1>2, <3>3 DEF HandlerRec
      <4> QED
        BY <4>1, IdleType
    <3>5. \A d \in Context : d \in P => call'[d].step = "merge"
      BY <3>3 DEF NoCall
    <3>6. \A d \in Context : d \notin P => call'[d] = call[d]
      BY <3>3
    <3>7. P \subseteq Context
      BY <1>2 DEF HandlerRec
    <3>8. Redo => Redo'
      <4> HAVE Redo
      <4>1. h.unread # {} \/ \E d \in Context : call[d].step = "merge"
        BY <3>1 DEF Redo
      <4>2. h'.unread # {} \/ \E d \in Context : call'[d].step = "merge"
        BY <3>4, <3>5, <3>6, <3>7, <4>1
      <4> QED
        BY <3>4, <4>2 DEF Redo
    <3> QED
      BY <2>1, <2>2, <3>1, <3>2, <3>8
  <2>6. CASE CommitOffset
    <3>1. next' = next /\ h # Idle /\ h.unread = {}
      BY <2>6, IdleType DEF CommitOffset, nodeVars, SplitInv, HandlerOK, Fans, Completes
    <3>2. \A c \in Context : call[c].step = "none"
      BY <2>6, NoCalls DEF CommitOffset
    <3>3. ~InFlight /\ ~Redo
      BY <3>1, <3>2 DEF InFlight, Redo
    <3> QED
      BY <2>1, <2>2, <3>1, <3>3
  <2>7. CASE ProcessEnds
    <3>1. next' = next /\ h # Idle /\ h' = Idle /\ rows' = rows /\ handled' = handled
      BY <2>7 DEF ProcessEnds, nodeVars
    <3>2. ASSUME NEW c \in Context, rows[active][c].task = h.task, h.step \in {"pages", "calls"} PROVE Redo'
      <4>1. handled < Len(events) /\ Event1.task = h.task /\ h.task \in Item
        BY <3>2 DEF SplitInv, HandlerOK, Completes
      <4>2. Event1' = Event1 /\ handled' < Len(events')
        BY <3>1, <4>1, EventStays
      <4> QED
        BY <1>1, <3>1, <3>2, <4>1, <4>2, NullsDiffer DEF Redo
    <3>3. \A c \in Context : call[c].step # "none" => h.step \in {"pages", "calls"} /\ rows[active][c].task = h.task
      BY <1>1, <3>1 DEF SplitInv, CallsOK
    <3>4. InFlight => Redo'
      BY <3>2, <3>3 DEF InFlight
    <3>5. Redo => Redo'
      <4> HAVE Redo
      <4>1. CASE h.unread # {}
        <5>1. h.step \in {"pages", "calls"}
          BY <1>2, <3>1, <4>1 DEF SplitInv, HandlerOK, Fans, HandlerRec
        <5>2. h.unread \subseteq RecordsOf(active, h.task)
          BY <1>1, <3>1, <5>1 DEF SplitInv, HandlerOK, Completes
        <5> QED
          BY <3>2, <4>1, <5>1, <5>2 DEF RecordsOf
      <4>2. CASE \E c \in Context : call[c].step = "merge"
        BY <3>2, <3>3, <4>2
      <4> QED
        BY <3>1, <4>1, <4>2 DEF Redo
    <3> QED
      BY <2>1, <2>2, <3>1, <3>4, <3>5
  <2>8. CASE GiveList \/ (\E t \in Item : Work(t) \/ WorkAgain(t)) \/ UNCHANGED splitVars
    <3>1. UNCHANGED <<rows, acc, next, handled, h, call>>
      BY <2>8, QuietSteps
    <3>2. InFlight => InFlight'
      BY <1>1, <3>1 DEF InFlight
    <3>3. Redo => Redo'
      BY <1>1, <3>1, EventStays DEF Redo
    <3> QED
      BY <2>2, <3>1, <3>2, <3>3
  <2>9. ASSUME NEW c \in Context, SkipNext(c) \/ Forward(c) \/ WriteNext(c)
        PROVE  next'[active].inputs = acc'[active] \/ InFlight' \/ Redo'
    <3>1. /\ h' = h /\ h # Idle /\ h.rev = active /\ acc' = acc
          /\ \A d \in Context \ {c} : call'[d] = call[d]
          /\ call[c].step \in {"look", "write"}
      BY <1>1, <2>9, CallSteps, IdleType DEF CallNext, SkipNext, Forward, WriteNext, CallAt, nodeVars
    <3>2. Redo => Redo'
      <4> HAVE Redo
      <4>1. h.unread # {} \/ \E d \in Context \ {c} : call[d].step = "merge"
        BY <3>1 DEF Redo
      <4> QED
        BY <3>1, <4>1 DEF Redo
    <3>3. (\E d \in Context \ {c} : call[d].step \in {"look", "write"} /\ call[d].list = acc[active]) => InFlight'
      BY <1>1, <3>1 DEF InFlight
    <3>4. CASE SkipNext(c)
      <4>1. next' = next /\ next[active].inputs = call[c].list
        BY <3>1, <3>4 DEF SkipNext, Behind, nodeVars
      <4> QED
        BY <2>2, <3>1, <3>2, <3>3, <4>1 DEF InFlight
    <3>5. CASE Forward(c)
      <4>1. next' = next /\ call'[c].step = "write" /\ call'[c].list = call[c].list
        <5>1. call' = [call EXCEPT ![c] = [call[c] EXCEPT !.step = "write", !.start = ~Behind.task \/ auto]]
          BY <3>5 DEF Forward
        <5> QED
          BY <1>2, <3>5, <5>1 DEF Forward, nodeVars, CallRec
      <4>2. InFlight => InFlight'
        BY <1>1, <3>1, <4>1 DEF InFlight
      <4> QED
        BY <2>2, <3>1, <3>2, <4>1, <4>2
    <3>6. CASE WriteNext(c)
      BY <3>1, <3>3, <3>6, WriterFacts
    <3> QED
      BY <2>9, <3>4, <3>5, <3>6
  <2> QED
    BY <1>4, <2>3, <2>4, <2>5, <2>6, <2>7, <2>8, <2>9 DEF SplitNext, LoopNext, CallNext
<1> QED
  BY <1>3, <1>4

LEMMA LiveStep ==
  ASSUME SplitInv, [SplitNext]_splitVars
  PROVE  LiveOK'
<1> SUFFICES ASSUME active' \notin lossy' PROVE Live'
  BY DEF LiveOK
<1>1. CASE Fork
  BY <1>1, ForkLive
<1>2. CASE ~Fork
  BY <1>2, FannedStep, HeardOfRowsStep, HeardOfNextStep, HeardOfTaskStep, HeardOfKeysStep,
     PassedOnlyFullStep, FullIsPassedStep DEF Live
<1> QED
  BY <1>1, <1>2
-----------------------------------------------------------------------------
LEMMA SplitStarts ==
  SplitInit => SplitInv
<1> SUFFICES ASSUME SplitInit PROVE SplitInv
  OBVIOUS
<1>1. SplitTypeOK
  BY TypeInit
<1>2. /\ events = <<>> /\ Len(events) = 0 /\ h = Idle /\ h.rev = 1 /\ h.step = "idle" /\ active = 1 /\ lossy = {}
      /\ \A r \in Revision : /\ waves[r] = <<>> /\ Len(waves[r]) = 0 /\ acc[r] = Nothing /\ next[r].inputs = None
                             /\ \A t \in Item : heard[r][t] = None
                             /\ \A c \in Context : rows[r][c].task = None
      /\ \A c \in Context : call[c].step = "none"
      /\ \A t \in Item : output[t] = Absent
      /\ handled = 0 /\ active \in Revision
  BY <1>1, IdleType DEF SplitInit, NoState, NoCall, SplitTypeOK
<1>3. EventsOK
  <2>1. \A i : i \notin 1..Len(events)
    BY <1>2
  <2>2. \A t \in Item : output[t] \notin Output
    BY <1>2, NullsDiffer
  <2>3. \A r \in Revision : \A t \in Item : heard[r][t] = None
    BY <1>2
  <2> QED
    BY <2>1, <2>2, <2>3 DEF EventsOK
<1>4. WavesOK
  <2>1. \A r \in Revision : \A i : i \notin 1..Len(waves[r])
    BY <1>2
  <2> QED
    BY <2>1 DEF WavesOK
<1>5. HandlerOK
  BY <1>2 DEF HandlerOK
<1>6. CallsOK /\ RowsOK /\ AccOK
  <2>1. \A r \in Revision : DOMAIN acc[r] = {}
    BY <1>2, ResultsFacts
  <2> QED
    BY <1>2, <2>1 DEF CallsOK, RowsOK, AccOK
<1>7. Live
  BY <1>2, NullsDiffer, ResultsFacts DEF Live, Fanned, HeardOfRows, HeardOfNext, HeardOfTask, HeardOfKeys,
     PassedOnlyFull, FullIsPassed, Full
<1> QED
  BY <1>1, <1>3, <1>4, <1>5, <1>6, <1>7 DEF SplitInv, LiveOK

LEMMA SplitSteps ==
  SplitInv /\ [SplitNext]_splitVars => SplitInv'
<1> SUFFICES ASSUME SplitInv, [SplitNext]_splitVars PROVE SplitInv'
  OBVIOUS
<1>1. SplitTypeOK'
  BY SplitTypeStep
<1>2. EventsOK' /\ WavesOK' /\ HandlerOK'
  BY EventsStep, WavesStep, HandlerStep
<1>3. CallsOK' /\ RowsOK' /\ AccOK'
  BY CallsStep, RowsStep, AccStep
<1>4. LiveOK'
  BY LiveStep
<1> QED
  BY <1>1, <1>2, <1>3, <1>4 DEF SplitInv

(* The scheduler keeps the lists, rows, results and calls of split and merge nodes *)
(* in agreement with each other and with the events that are to come.             *)
THEOREM SplitInvariant == SplitSpec => []SplitInv
<1>1. SplitInit => SplitInv
  BY SplitStarts
<1>2. SplitInv /\ [SplitNext]_splitVars => SplitInv'
  BY SplitSteps
<1> QED
  BY <1>1, <1>2, PTL DEF SplitSpec

LEMMA WholeList ==
  SplitInv => MergedListIsWhole
<1> SUFFICES ASSUME SplitInv, Quiet, active \notin lossy, waves[active] # <<>>
             PROVE  IF Whole(active) /\ DOMAIN Wave(active) # {}
                    THEN next[active].inputs = [k \in DOMAIN Wave(active) |-> heard[active][Wave(active)[k]]]
                    ELSE next[active].inputs = None \/ Len(waves[active]) > 1
  BY DEF MergedListIsWhole, SplitInv
<1>1. h = Idle /\ handled = Len(events) /\ Len(events) \in Nat /\ active \in Revision
  BY DEF Quiet, SplitInv, SplitTypeOK
<1>2. ~ListAgain /\ ~Redo /\ ~InFlight /\ \A t : ~ComesAgain(t)
  <2>1. ~(handled < Len(events)) /\ handled + 1..Len(events) = {}
    BY <1>1
  <2> QED
    BY <1>1, <2>1, IdleType, NoCalls DEF ListAgain, Redo, InFlight, ComesAgain
<1>3. /\ WaveOf(active) \in Lists /\ Wave(active) = WaveOf(active).item /\ Len(waves[active]) \in Nat
      /\ Len(waves[active]) >= 1
  BY <1>1, WaveTypes DEF SplitInv
<1>4. ASSUME NEW k \in DOMAIN Wave(active), heard[active][Wave(active)[k]] # None
      PROVE  k \in DOMAIN acc[active] /\ acc[active][k] = heard[active][Wave(active)[k]]
  <2> PICK c : c = ElementContext(WaveOf(active), k)
    OBVIOUS
  <2>1. c \in Context /\ c.key = k /\ Wave(active)[k] \in Item
    BY <1>3, ContextFacts
  <2>2. rows[active][c].task = Wave(active)[k]
    BY <1>1, <1>2, IdleType, LiveConjuncts DEF Fanned
  <2> QED
    BY <1>2, <1>4, <2>1, <2>2, LiveConjuncts DEF HeardOfRows, Has
<1>5. \A k \in DOMAIN acc[active] : k \in DOMAIN Wave(active)
  <2> TAKE k \in DOMAIN acc[active]
  <2>1. PICK i \in 1..Len(waves[active]) : k \in DOMAIN waves[active][i].item
    BY <1>1 DEF SplitInv, AccOK, Source
  <2>2. Shape(waves[active][i]) = Shape(WaveOf(active))
    BY <1>1 DEF SplitInv, WavesOK
  <2> QED
    BY <1>3, <2>1, <2>2, ContextFacts
<1>6. CASE Whole(active) /\ DOMAIN Wave(active) # {}
  <2>1. DOMAIN acc[active] = DOMAIN Wave(active)
    BY <1>4, <1>5, <1>6 DEF Whole
  <2>2. next[active].inputs = acc[active]
    BY <1>2, <1>6, <2>1, LiveConjuncts DEF FullIsPassed, Full
  <2>3. acc[active] \in [DOMAIN acc[active] -> Output]
    BY <1>1, ResultsFacts DEF SplitInv, SplitTypeOK
  <2>4. acc[active] = [k \in DOMAIN Wave(active) |-> heard[active][Wave(active)[k]]]
    BY <1>4, <1>6, <2>1, <2>3 DEF Whole
  <2> QED
    BY <1>6, <2>2, <2>4
<1>7. CASE DOMAIN Wave(active) = {}
  BY <1>7, LiveConjuncts DEF PassedOnlyFull, Full
<1>8. CASE ~Whole(active)
  <2>1. PICK k \in DOMAIN Wave(active) : heard[active][Wave(active)[k]] = None
    BY <1>8 DEF Whole
  <2>2. next[active].inputs # None => k \in DOMAIN acc[active]
    BY LiveConjuncts DEF PassedOnlyFull, Full
  <2>3. Len(waves[active]) = 1 => next[active].inputs = None
    <3> HAVE Len(waves[active]) = 1
    <3>1. HeardOfKeys /\ ~ComesAgain(Wave(active)[k])
      BY <1>2, LiveConjuncts
    <3>2. k \notin DOMAIN acc[active]
      BY <2>1, <3>1 DEF HeardOfKeys
    <3> QED
      BY <2>2, <3>2
  <2>4. Len(waves[active]) # 1 => Len(waves[active]) > 1
    <3>1. \A n \in Nat : n >= 1 /\ n # 1 => n > 1
      OBVIOUS
    <3>2. Len(waves[active]) \in Nat /\ Len(waves[active]) >= 1
      BY <1>3
    <3> QED
      BY <3>1, <3>2
  <2>5. next[active].inputs = None \/ Len(waves[active]) > 1
    BY <2>3, <2>4
  <2> QED
    BY <1>8, <2>5
<1> QED
  BY <1>6, <1>7, <1>8

(* Once every event is handled, the node behind the merge has the list of the    *)
(* latest results, each under the key of its item, and nothing before that.      *)
THEOREM ListIsWhole == SplitSpec => []MergedListIsWhole
<1>1. SplitInv => MergedListIsWhole
  BY WholeList
<1> QED
  BY <1>1, SplitInvariant, PTL

LEMMA KeysStep ==
  ASSUME SplitInv, [SplitNext]_splitVars, NEW r \in Revision,
         next'[r].inputs # next[r].inputs, active' = active, r \notin lossy'
  PROVE  /\ DOMAIN next'[r].inputs = DOMAIN Wave(r)
         /\ \A k \in DOMAIN Wave(r) :
              \E i \in DOMAIN waves[r] : next'[r].inputs[k] \in Said(waves[r][i].item[k])
<1>1. ~Fork /\ r \notin lossy /\ next \in [Revision -> NextState]
  BY ForkMoves, LossySteps DEF SplitInv, SplitTypeOK
<1>2. PICK c \in Context :
        /\ WriteNext(c)
        /\ next' = [next EXCEPT ![h.rev] = [task |-> call[c].start, inputs |-> call[c].list]]
  BY <1>1, NextSteps
<1>3. r = h.rev /\ next'[r].inputs = call[c].list
  BY <1>1, <1>2, HandlerTypes
<1>4. Fits(r, call[c].list)
  BY <1>1, <1>2, <1>3 DEF SplitInv, CallsOK, WriteNext, CallAt
<1>5. DOMAIN waves[r] = 1..Len(waves[r])
  BY DEF SplitInv, SplitTypeOK
<1> QED
  BY <1>3, <1>4, <1>5 DEF Fits, Source

(* Whatever the node behind the merge is given has the keys of the list that was *)
(* split and, under each, a result of an item that was there.                    *)
THEOREM KeysAreKept == SplitSpec => EntriesKeepTheirKeys
<1>1. SplitInv /\ [SplitNext]_splitVars =>
        [\A r \in Revision :
           next'[r].inputs # next[r].inputs /\ active' = active /\ r \notin lossy' =>
             /\ DOMAIN next'[r].inputs = DOMAIN Wave(r)
             /\ \A k \in DOMAIN Wave(r) :
                  \E i \in DOMAIN waves[r] : next'[r].inputs[k] \in Said(waves[r][i].item[k])]_splitVars
  BY KeysStep
<1> QED
  BY <1>1, SplitInvariant, PTL DEF EntriesKeepTheirKeys, SplitSpec
===============================================================================

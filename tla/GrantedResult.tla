---------------------------- MODULE GrantedResult ----------------------------
(***************************************************************************)
(* What the task rows promise, without leases, clocks or processes: a task *)
(* is a cell that one agent at a time is granted; only the agent of the    *)
(* latest grant decides the cell, with a result of its own; the decision   *)
(* is announced in the same step; and only reopening undoes it.            *)
(***************************************************************************)
CONSTANTS Task, Agent, NoAgent, Result, NoResult, Author(_)

VARIABLES
  phase,      \* "open", "granted" or "decided"
  grant,      \* the agent of the latest grant, NoAgent when nobody can use it
  result,     \* the last decision still on record
  announced   \* the last decision announced

gvars == <<phase, grant, result, announced>>

GInit ==
  /\ phase = [t \in Task |-> "open"]
  /\ grant = [t \in Task |-> NoAgent]
  /\ result = [t \in Task |-> NoResult]
  /\ announced = [t \in Task |-> NoResult]

(* A grant of an undecided cell; it may go to somebody who never hears of it. *)
Grant(t, a) ==
  /\ phase[t] # "decided"
  /\ phase' = [phase EXCEPT ![t] = "granted"]
  /\ grant' = [grant EXCEPT ![t] = a]
  /\ UNCHANGED <<result, announced>>

Decide(t, a, r) ==
  /\ phase[t] = "granted"
  /\ grant[t] = a
  /\ Author(r) = a
  /\ phase' = [phase EXCEPT ![t] = "decided"]
  /\ grant' = [grant EXCEPT ![t] = NoAgent]
  /\ result' = [result EXCEPT ![t] = r]
  /\ announced' = [announced EXCEPT ![t] = r]

(* Scheduling or refreshing: nobody holds the cell, its old result may be forgotten. *)
Reopen(t, r) ==
  /\ r \in {result[t], NoResult}
  /\ phase' = [phase EXCEPT ![t] = "open"]
  /\ grant' = [grant EXCEPT ![t] = NoAgent]
  /\ result' = [result EXCEPT ![t] = r]
  /\ UNCHANGED announced

(* An agent gives up, or loses with its process, some of its grants. *)
GiveUp(a, S) ==
  /\ \A t \in S : grant[t] = a
  /\ grant' = [t \in Task |-> IF t \in S THEN NoAgent ELSE grant[t]]
  /\ UNCHANGED <<phase, result, announced>>

GNext ==
  \/ \E t \in Task, a \in Agent \cup {NoAgent} : Grant(t, a)
  \/ \E t \in Task, a \in Agent, r \in Result : Decide(t, a, r)
  \/ \E t \in Task, r \in Result \cup {NoResult} : Reopen(t, r)
  \/ \E a \in Agent, S \in SUBSET Task : GiveUp(a, S)

GSpec == GInit /\ [][GNext]_gvars
=============================================================================

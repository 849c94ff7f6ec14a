---------------------------- MODULE RewindOutcome ----------------------------
(***************************************************************************)
(* What retcon promises about a rewind: one is live at a time, the first   *)
(* answered turn of the branch is its landing, and after it the rewind is  *)
(* announced at most once, as a fork from its landing or as a failure; one *)
(* whose end was crossed by another, or cut off, is spoilt for good.  How  *)
(* the rewind, the answers, the hooks and the queue bring that about is    *)
(* ForkAnchors.                                                            *)
(***************************************************************************)
CONSTANTS
  Rewind,
  NoOutcome, Forked, Failed, Spoilt   \* four different values

VARIABLES stage, landed, outcome

rVars == <<stage, landed, outcome>>

RInit ==
  /\ stage = [r \in Rewind |-> "unused"]
  /\ landed = {}
  /\ outcome = [r \in Rewind |-> NoOutcome]

Over == [r \in Rewind |-> IF stage[r] = "live" THEN "over" ELSE stage[r]]

Used == {r \in Rewind : stage[r] # "unused"}

Spoiled(S) == [r \in Rewind |-> IF r \in S THEN Spoilt ELSE outcome[r]]

(* A rewind ends whatever branch was live. *)
Begin(r) ==
  /\ stage[r] = "unused"
  /\ stage' = [Over EXCEPT ![r] = "live"]
  /\ UNCHANGED <<landed, outcome>>

(* The branch is cleared, compacted, superseded or diverged from. *)
End(S) ==
  /\ stage' = Over
  /\ outcome' = Spoiled(S)
  /\ UNCHANGED landed

Spoil(S) ==
  /\ outcome' = Spoiled(S)
  /\ UNCHANGED <<stage, landed>>

Land(r) ==
  /\ stage[r] # "unused"
  /\ outcome[r] \in {NoOutcome, Spoilt}
  /\ landed' = landed \cup {r}
  /\ UNCHANGED <<stage, outcome>>

(* Announced, on landing or later. *)
Announce(r) ==
  /\ r \in landed
  /\ outcome[r] = NoOutcome
  /\ \E o \in {Forked, Failed} : outcome' = [outcome EXCEPT ![r] = o]
  /\ UNCHANGED <<stage, landed>>

(* Given up before it landed. *)
Abort(r, S) ==
  /\ stage[r] = "live"
  /\ r \notin landed
  /\ outcome[r] = NoOutcome
  /\ stage' = Over
  /\ outcome' = [Spoiled(S) EXCEPT ![r] = Failed]
  /\ UNCHANGED landed

RNext ==
  \/ \E r \in Rewind : Begin(r) \/ Land(r) \/ Announce(r)
  \/ \E S \in SUBSET Used : End(S) \/ Spoil(S) \/ \E r \in Rewind \ S : Abort(r, S)

RSpec == RInit /\ [][RNext]_rVars
=============================================================================

---------------------------- MODULE MCForkAnchors ----------------------------
EXTENDS ForkAnchors, TLC

(* For the counterexample of ForkAnchorsListing.cfg: the daemon stays up. *)
StaysUp == ~Restart

(* Bound: a behaviour is followed while there is an anchor nothing has struck. *)
SomeUnstruck == struck # Anchor

Symmetry == Permutations(Anchor)
=============================================================================

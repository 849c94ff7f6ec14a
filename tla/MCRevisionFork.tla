--------------------------- MODULE MCRevisionFork ---------------------------
(* Model-checking definitions of RevisionFork: a chain of two nodes. *)
EXTENDS RevisionFork, TLC
CONSTANTS a, b, v1, v2

Chain == (a :> {b}) @@ (b :> {Output})
Returned == (a :> {v2}) @@ (b :> {v1, Error})
Symmetry == Permutations(Caller)
=============================================================================

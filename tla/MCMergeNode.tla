----------------------------- MODULE MCMergeNode -----------------------------
(* Model-checking definitions of MergeNode: the pipeline's input fills one slot, *)
(* two nodes that may share a task fill the others.  One of them also gives a    *)
(* meta value, so it may complete the inputs alone and the other may not.        *)
EXTENDS MergeNode, TLC
CONSTANTS input, a, b, x, y, m, z, v1, v2

Wiring == (input :> {x}) @@ (a :> {y, m}) @@ (b :> {z})
=============================================================================

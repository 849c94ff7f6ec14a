----------------------------- MODULE MCSplitMerge -----------------------------
(* Model-checking definitions of SplitMerge: two equal items and one more, the  *)
(* same shape with other items, and an object.                                   *)
EXTENDS SplitMerge
CONSTANTS i1, i2, v1, v2

Arrays == {[array |-> TRUE, item |-> <<i1, i1>>], [array |-> TRUE, item |-> <<i1, i2>>]}
Objects == {[array |-> FALSE, item |-> [k \in {2, 3} |-> IF k = 2 THEN i2 ELSE i1]]}
AllLists == Arrays \cup Objects
=============================================================================

-------------------------- MODULE MCSessionBinding --------------------------
EXTENDS SessionBinding, TLC

CONSTANTS t1, t2, c1, c2, a, b

ModelTransports == {t1, t2}
ModelConversations == {c1, c2}
ModelEarlier == {c1}
ModelActors == {a, b}
ModelFaults == {"restart", "hook_lost", "overtaken"}
OnlyReturn == {"return"}
Symmetry == Permutations(ModelTransports) \cup Permutations(ModelActors)
=============================================================================

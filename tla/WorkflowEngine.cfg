SPECIFICATION FairSpec
CONSTANTS
  Engine = {e1, e2}
  TTL = 2
  MaxRevision = 2
  MaxFault = 1
  Nobody = Nobody
INVARIANTS StartsAreSeparate SomebodyKnows
PROPERTY WorkflowEnds
CHECK_DEADLOCK FALSE
CONSTRAINT Followed

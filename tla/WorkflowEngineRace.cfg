SPECIFICATION FairSpec
CONSTANTS
  Engine = {e1}
  TTL = 2
  MaxRevision = 2
  MaxFault = 0
  Nobody = Nobody
PROPERTY EventBusTakesOver
CHECK_DEADLOCK FALSE

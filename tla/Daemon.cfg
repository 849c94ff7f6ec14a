SPECIFICATION LiveSpec
CONSTANTS
  Commands = {1, 2, 3}
  MaxDaemons = 3
  Ports = {1, 2}
  DefaultPort = 1
  Plans <- MCPlans
INVARIANTS SchemaFitsTheServer
PROPERTIES OverlooksNobody CommandEnds
CHECK_DEADLOCK FALSE

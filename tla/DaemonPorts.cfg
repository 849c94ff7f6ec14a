SPECIFICATION Spec
CONSTANTS
  Commands = {1, 2, 3}
  MaxDaemons = 3
  Ports = {1, 2}
  DefaultPort = 1
  Plans <- MCPlans
INVARIANTS PortsKeepApart
CHECK_DEADLOCK FALSE

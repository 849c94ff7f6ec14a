SPECIFICATION Spec
CONSTANTS
  Commands = {1, 2}
  MaxDaemons = 2
  Ports = {1, 2}
  DefaultPort = 1
  Plans <- Racing
INVARIANTS EnsuredUpstream
CHECK_DEADLOCK FALSE

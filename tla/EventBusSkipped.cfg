CONSTANTS
  Request = {r1, r2}
  Engine = {e1}
  MaxOp = 1
  MaxClock = 1
  BatchSize = 2
  MaxFaults = 0
SPECIFICATION Spec
INVARIANT NoEventIsSkipped

CONSTANTS
  Request = {r1, r2, r3}
  Engine = {e1, e2}
  MaxOp = 2
  MaxClock = 1
  BatchSize = 2
  MaxFaults = 1
SPECIFICATION Spec
INVARIANTS TypeOK OffsetCoversHandled RedeliveryNeedsFault
PROPERTY EventIsHandled

CONSTANTS
  a = a
  b = b
  v1 = v1
  v2 = v2
  Results <- Returned
  Targets = {{a, b}}
  Node = {a, b}
  Value = {v1, v2}
  Start = v1
  Root = a
  Output = Output
  Succ <- Chain
  Caller = {c1}
  AutoPropagate = TRUE
  MaxRevision = 3
  MaxEvent = 3
  MaxFault = 0
  NoRow = NoRow
  Null = Null
  Keep = Keep
  Error = Error
  NoCall = NoCall
SPECIFICATION Spec
PROPERTY HistoryIsImmutable
CHECK_DEADLOCK FALSE

CONSTANTS
  a = a
  b = b
  v1 = v1
  v2 = v2
  Results <- Returned
  Targets = {{a, b}}
  Node = {a, b}
  Value = {v1, v2}
  Start = v1
  Root = a
  Output = Output
  Succ <- Chain
  Caller = {c1, c2}
  AutoPropagate = FALSE
  MaxRevision = 3
  MaxEvent = 3
  MaxFault = 1
  NoRow = NoRow
  Null = Null
  Keep = Keep
  Error = Error
  NoCall = NoCall
SYMMETRY Symmetry
SPECIFICATION Spec
INVARIANT RunningNodeHasWork
PROPERTIES SubmissionIsCarried HandlersKeepToTheirRevision
CHECK_DEADLOCK FALSE

SPECIFICATION FairSpec
CONSTANTS
  input = input
  a = a
  b = b
  x = x
  y = y
  m = m
  z = z
  v1 = v1
  v2 = v2
  Slot = {x, y, m, z}
  Meta = {m}
  Source = {input, a, b}
  Feeds <- Wiring
  Boot = {input}
  Together = {{a}, {a, b}}
  Value = {v1, v2}
  AutoPropagate = {TRUE, FALSE}
  MaxRevision = 2
  MaxEvent = 3
  MaxWaiting = 1
  MaxFault = 1
  Null = Null
  NoRow = NoRow
  NoCall = NoCall
INVARIANTS ArrivalsAreKept
PROPERTIES OneArrivalAtATime CallsEnd
CHECK_DEADLOCK FALSE

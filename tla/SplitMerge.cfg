SPECIFICATION FairSplit
CONSTANTS
  i1 = i1
  i2 = i2
  v1 = v1
  v2 = v2
  Item = {i1, i2}
  Output = {v1, v2}
  Lists <- AllLists
  PageSize = 1
  LastRevision = 2
  MaxTrouble = 2
  None = None
  Absent = Absent
INVARIANTS MergedListIsWhole
PROPERTIES EntriesKeepTheirKeys ListComesOut
CHECK_DEADLOCK FALSE

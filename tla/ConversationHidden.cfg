\* With Habits <- Submitted and CONSTRAINT OnePlot instead: the plot with submit_file.
SPECIFICATION ConversationSpec
CONSTANTS
  MaxRevisions = 9
  MaxBookmarks = 2
  MaxBack = 1
  MaxSide = 2
  Habits <- Hidden
CONSTRAINT OneOfEach
INVARIANTS NothingRolledBackReturns
CHECK_DEADLOCK FALSE

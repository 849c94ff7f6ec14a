SPECIFICATION ConversationSpec
CONSTANTS
  MaxRevisions = 6
  MaxBookmarks = 2
  MaxBack = 1
  MaxSide = 1
  Habits <- Probed
INVARIANTS RewindKeepsHistory
CHECK_DEADLOCK FALSE

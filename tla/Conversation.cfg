SPECIFICATION ConversationSpec
CONSTANTS
  MaxRevisions = 6
  MaxBookmarks = 2
  MaxBack = 1
  MaxSide = 1
  Habits <- MCHabits
INVARIANTS ChainsGoBack NothingRolledBackReturns BookmarksGrowFromTheirSpot
CHECK_DEADLOCK FALSE

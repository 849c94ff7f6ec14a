SPECIFICATION Spec
CONSTANTS
  t1 = t1
  t2 = t2
  c1 = c1
  c2 = c2
  a = a
  b = b
  None = None
  Transports <- ModelTransports
  Conversations <- ModelConversations
  Earlier <- ModelEarlier
  Actors <- ModelActors
  MaxRevisions = 2
  Faults <- ModelFaults
SYMMETRY Symmetry
INVARIANTS CleanTakesOnlyItsOwn SessionsStayApart ResumeIsWalkable
PROPERTY ActorSticks
CHECK_DEADLOCK FALSE

CONSTANTS
  Anchor = {a1, a2}
  Agent = {main, sub}
  Main = main
  NoAgent = NoAgent
  NoAnchor = NoAnchor
  NoRevision = NoRevision
  Bare = Bare
  Failed = Failed
  Idle = Idle
  MaxCalls = 2
SYMMETRY Symmetry
CONSTRAINT SomeUnstruck
SPECIFICATION Spec
INVARIANTS TypeOK OneActiveAnchor RewindIsAccountedFor ForkNamesItsLanding
PROPERTY ImplementsRewindOutcome

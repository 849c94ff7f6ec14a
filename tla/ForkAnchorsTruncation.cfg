CONSTANTS
  Anchor = {a1, a2}
  Agent = {main}
  Main = main
  NoAgent = NoAgent
  NoAnchor = NoAnchor
  NoRevision = NoRevision
  Bare = Bare
  Failed = Failed
  Idle = Idle
  MaxCalls = 2
SYMMETRY Symmetry
SPECIFICATION Spec
INVARIANT MissingAnchorIsReleased

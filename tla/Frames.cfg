SPECIFICATION FairSpec
CONSTANTS
  page = page
  outer = outer
  inner = inner
  Root = page
  Frames = {outer, inner}
  Parent <- Nested
  Actors = {a}
  None = None
  MaxChanges = 1
  MaxMounts = 3
  MaxAsks = 1
  MaxReloads = 1
  MaxAttaches = 1
INVARIANTS EachAnswerIsOnce FramesFollow
PROPERTIES FramesAreServed
CHECK_DEADLOCK FALSE

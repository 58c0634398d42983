SPECIFICATION FairSpec
CONSTANTS
  Runs = {sync, async}
  Background = {async}
  Closers = {c1, c2}
INVARIANTS
  RowsFollowRuns
  CloseIsComplete
PROPERTIES
  SpawnsReturn
  CancelledRunsEnd
CHECK_DEADLOCK FALSE

SPECIFICATION Spec
CONSTANTS
  e1 = e1
  e2 = e2
  p1 = p1
  p2 = p2
  ingest = ingest
  Ingest <- ingest
  Events <- TwoEvents
  Invalid <- Second
  Replayers <- TwoReplayers
  LastHour = 1
  Concurrency = 2
  DiskFails = TRUE
  Crashes = TRUE
  MaxTimeouts = 2
  MaxReplays = 2
SYMMETRY ReplayersSymmetric
CHECK_DEADLOCK FALSE
INVARIANTS
  AnsweredIsKept
PROPERTIES
  Contract
  LinesDestroyedOnlyWhenOvertaken

SPECIFICATION Spec
CONSTANTS
  e1 = e1
  e2 = e2
  p1 = p1
  p2 = p2
  ingest = ingest
  Ingest <- ingest
  Events <- TwoEvents
  Invalid <- None
  Replayers <- OneReplayer
  LastHour = 0
  Concurrency = 2
  DiskFails = FALSE
  Crashes = FALSE
  MaxTimeouts = 2
  MaxReplays = 2
CHECK_DEADLOCK FALSE
INVARIANTS
  ReplaySucceeds

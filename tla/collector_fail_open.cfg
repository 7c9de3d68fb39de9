SPECIFICATION FairSpec
CONSTANTS
  e1 = e1
  e2 = e2
  p1 = p1
  p2 = p2
  ingest = ingest
  Ingest <- ingest
  Events <- TwoEvents
  Invalid <- Second
  Replayers <- OneReplayer
  LastHour = 1
  Concurrency = 1
  DiskFails = TRUE
  Crashes = FALSE
  MaxTimeouts = 6
  MaxReplays = 1
CHECK_DEADLOCK FALSE
PROPERTIES
  EveryEventAnswered
  EveryReplayEnds

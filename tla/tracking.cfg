SPECIFICATION FairSpec
CONSTANTS
  t1 = t1
  t2 = t2
  play1 = play1
  play2 = play2
  p1 = p1
  p2 = p2
  Partitions <- TwoPartitions
  Traces <- TwoTraces
  Plays <- TwoPlays
  Sent <- MCSent
  Sessions <- MCSessions
  Answer <- MCAnswer
  Keep <- MCKeep
  Nudges = 1
  Faults <- AllFaults
  MaxFaults = 1
INVARIANTS
  SightingsExact
  OnlyEarlyMissed
PROPERTIES
  AllFound
CHECK_DEADLOCK FALSE

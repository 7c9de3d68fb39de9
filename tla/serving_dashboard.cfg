SPECIFICATION DashFairSpec
CONSTANTS
  c = c
  d = d
  p = p
  q = q
  Partitions <- TwoPartitions
  Log <- MCLog
  Campaigns <- TwoCampaigns
  Minute = 1
  Ttl = 3
  AlertCap = 1
  MaxNow = 0
  Faults <- SomeFaults
  MaxFaults = 1
  Chart = 0
  KafkaEvery = 2
INVARIANTS
  ZeroLagMeansServed
PROPERTY LastResultShown
CHECK_DEADLOCK FALSE

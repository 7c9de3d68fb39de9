SPECIFICATION Spec
CONSTANTS
  c = c
  p = p
  q = q
  r = r
  Partitions <- ThreePartitions
  Log <- MCLog
  Campaigns <- OneCampaign
  Minute = 2
  Ttl = 2
  AlertCap = 1
  MaxNow = 3
  Faults <- AllFaults
  MaxFaults = 2
INVARIANTS
  PassedAccounted
  RepeatsNeedCrashes
  LateTotalAccounted
  SummaryExact
CHECK_DEADLOCK FALSE

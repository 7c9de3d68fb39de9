SPECIFICATION RFairSpec
CONSTANTS
  client = client
  server = server
  other = other
  tick = tick
  p = p
  q = q
  Events <- MCEvents
  Partitions <- MCPartitions
  PartOf <- MCPartOf
  TimeOf <- MCTimeOf
  Counted <- MCEvents
  Minute = 2
  Delay = 1
  Live <- PartitionP
  MaxRecords = 4
  Faults <- Expiries
  MaxFaults = 1
  TypeOf <- MCTypeOf
  CampaignOf <- MCCampaignOf
  RequestOf <- MCRequestOf
  SourceOf <- MCSourceOf
  IdOrder <- MCIdOrder
  From = 0
  To = 3
CHECK_DEADLOCK FALSE
INVARIANTS
  ResidualExplained
  BilledOnce
PROPERTY
  WindowsClose

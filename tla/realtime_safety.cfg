SPECIFICATION Spec
CONSTANTS
  a = a
  b = b
  c = c
  pending = pending
  p = p
  q = q
  Events <- AllEvents
  Partitions <- TwoPartitions
  PartOf <- MCPartOf
  TimeOf <- MCTimeOf
  Counted <- MCCounted
  Minute = 2
  Delay = 1
  Live <- NoPartition
  MaxRecords = 3
  Faults <- AllFaults
  MaxFaults = 2
CHECK_DEADLOCK FALSE
INVARIANTS
  CountedOrLate
  CountedPerLife
  PublishedKept
PROPERTIES
  WindowFinal

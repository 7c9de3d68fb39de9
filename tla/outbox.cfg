SPECIFICATION FairSpec
CONSTANTS
  w1 = w1
  w2 = w2
  NumRows = 3
  Workers <- Two
  BatchSize = 2
  SkipLocked = TRUE
  Rejected <- Third
  Faults <- AllFaults
  MaxFaults = 2
  SeenLimit = 1
CHECK_DEADLOCK FALSE
INVARIANTS
  OnlyCommittedDelivered
  DuplicatesAccounted
  RepublishedNeverOvercounts
PROPERTIES
  NoResendAfterFlag
  Contract
  EventuallyPublished
  BacklogDrains

SPECIFICATION DFairSpec
CONSTANTS
  c1 = c1
  c2 = c2
  q1 = q1
  q2 = q2
  w1 = w1
  None = None
  Unknown = Unknown
  Campaigns <- TwoCampaigns
  Requests <- TwoRequests
  Preference <- PreferFirst
  Forced <- OneForced
  MaxEdits = 1
  NumRows = 1
  Workers <- OneWorker
  BatchSize = 1
  SkipLocked = TRUE
  Rejected <- NoRows
  Faults <- CrashOrDrop
  MaxFaults = 1
  SeenLimit = 1
CHECK_DEADLOCK FALSE
INVARIANTS
  AnsweredIsRecorded
  TopicHoldsDecisions
  ExhaustedOnlyByChance
PROPERTIES
  UnknownOnlyWhenSwitching
  AnsweredReachesTopic

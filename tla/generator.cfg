SPECIFICATION FairSpec
CONSTANTS
  a = a
  Ads <- OneAd
  Modes = {TRUE, FALSE}
  Quartiles = 1
  ClickFrom = 1
  BatchSize = 2
  Burst = TRUE
  Faults <- AllFaults
  MaxFaults = 1
CHECK_DEADLOCK FALSE
INVARIANTS
  SentAddsUp
  ImpressionsBacked
PROPERTY
  EverythingAnswered

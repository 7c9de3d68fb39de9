SPECIFICATION Spec
CONSTANTS
  client = client
  copy = copy
  server = server
  click = click
  response = response
  j1 = j1
  j2 = j2
  Rows <- MCRows
  EventOf <- MCEventOf
  LateFlag <- MCLateFlag
  KindOf <- MCKindOf
  CampaignOf <- MCCampaignOf
  RequestOf <- MCRequestOf
  SourceRank <- MCSourceRank
  TimeOf <- MCTimeOf
  IdOrder <- MCIdOrder
  Day = 2
  Rates <- MCRates
  Jobs <- TwoJobs
  Sessions <- MCSessions
  Faults <- AllFaults
  MaxFaults = 1
SYMMETRY JobsSymmetric
CHECK_DEADLOCK FALSE
INVARIANTS
  RerunReplaces
  OneRunPerTable
  DayIsSumOfMinutes
  ReportExplained

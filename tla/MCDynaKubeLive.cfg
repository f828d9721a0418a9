SPECIFICATION FairSpec
CONSTANTS
  Absent = Absent
  Tokens = {"PaaSToken", "APIToken"}
  Specs <- SpecsMove
  Externals <- ExtFaulty
  TokenWait = 1
  ProbeWait = 1
  RequeueWait = 2
  QuickRetries = 2
  MaxEdits = 1
  MaxFaults = 0
PROPERTIES Converges AgentsFollowRelease LatestIsPublished ConditionsFollowTokens PhaseFollowsPods ErrorIsReported
CHECK_DEADLOCK FALSE

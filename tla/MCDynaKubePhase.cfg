SPECIFICATION FairSpec
CONSTANTS
  Absent = Absent
  Tokens = {"PaaSToken"}
  Specs <- SpecsGates
  Externals <- ExtRelease
  TokenWait = 1
  ProbeWait = 1
  RequeueWait = 2
  QuickRetries = 2
  MaxEdits = 0
  MaxFaults = 1
CHECK_DEADLOCK FALSE
PROPERTY ErrorClears

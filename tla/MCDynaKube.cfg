SPECIFICATION Spec
CONSTANTS
  Absent = Absent
  Tokens = {"PaaSToken"}
  Specs <- SpecsOnOff
  Externals <- ExtGood
  TokenWait = 1
  ProbeWait = 1
  RequeueWait = 2
  QuickRetries = 2
  MaxEdits = 2
  MaxFaults = 1
INVARIANTS ServiceBeforeStatefulSet IInv
PROPERTIES RefinesLevelTriggered ProbesAreSpaced NoDowngrade
CHECK_DEADLOCK FALSE

CONSTANTS
    Nodes = {n1}
    Hour = 1
    MaxTime = 1
    MaxChanges = 2
    MaxFaults = 1
    MaxSendFaults = 1
    MaxCrashes = 0
SPECIFICATION FairSpec
INVARIANT IInv
PROPERTIES DeletedLeavesCache CordonedIsMarked MarkIsKept

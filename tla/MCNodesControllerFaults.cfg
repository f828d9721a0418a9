CONSTANTS
    Nodes = {n1}
    Hour = 1
    MaxTime = 2
    MaxChanges = 2
    MaxFaults = 1
    MaxSendFaults = 1
    MaxCrashes = 1
SPECIFICATION Spec
INVARIANT IInv
PROPERTY TriedBeforeRemoval

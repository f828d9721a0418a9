CONSTANTS
    Nodes = {n1, n2}
    Hour = 1
    MaxTime = 2
    MaxChanges = 2
    MaxFaults = 0
    MaxSendFaults = 1
    MaxCrashes = 1
SPECIFICATION Spec
SYMMETRY Symmetry
INVARIANT HourlyLimit
PROPERTY TriedBeforeRemoval

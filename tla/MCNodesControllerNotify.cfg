CONSTANTS
    Nodes = {n1}
    Hour = 1
    MaxTime = 2
    MaxChanges = 2
    MaxFaults = 0
    MaxSendFaults = 1
    MaxCrashes = 0
SPECIFICATION Spec
PROPERTY NotifiedOnRemoval

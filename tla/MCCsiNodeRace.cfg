CONSTANTS
    Volumes = {v1}
    Versions = {1, 2}
    Rollback = FALSE
    MaxReleases = 1
    MaxCrashes = 0
    MaxFaults = 0
SPECIFICATION Spec
INVARIANT GCRemovesOnlyUnused

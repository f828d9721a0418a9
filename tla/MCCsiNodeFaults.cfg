CONSTANTS
    Volumes = {v1}
    Versions = {1, 2}
    Rollback = TRUE
    MaxReleases = 1
    MaxCrashes = 1
    MaxFaults = 1
SPECIFICATION Spec
INVARIANTS ReferencedIsKept PresentIsComplete MetadataHasUsageFile IInv

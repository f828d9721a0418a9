CONSTANTS
    Volumes = {v1}
    Versions = {1, 2}
    Rollback = TRUE
    MaxReleases = 2
    MaxCrashes = 0
    MaxFaults = 0
SPECIFICATION FairSpec
INVARIANTS PublishedIsSound UnpublishLeavesNothing GaugeIsAccurate
PROPERTY OutdatedIsReclaimed

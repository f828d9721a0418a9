CONSTANTS
    RenewalThreshold = 4
    ServerValidity = 6
    RootValidity = 10
    ReconcilePeriod = 1
    WatchPeriod = 2
    MaxOutage = 1
    WriteFaults = TRUE
    MaxEdits = 1
    MaxTime = 8
SPECIFICATION FairSpec
INVARIANTS ServedCertValid NoOrphanedCert ChainVerifies IInv
PROPERTIES TrustGapCloses StartupCompletes

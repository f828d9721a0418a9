CONSTANTS
    RenewalThreshold = 4
    ServerValidity = 6
    RootValidity = 10
    ReconcilePeriod = 1
    WatchPeriod = 2
    MaxOutage = 1
    WriteFaults = TRUE
    MaxEdits = 0
    MaxTime = 9
SPECIFICATION Spec
PROPERTY DownloadsWhatIsAvailable

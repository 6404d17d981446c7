SPECIFICATION FairSpec
CONSTANTS
    MaxConn = 2
    Releases = {1, 5}
    MaxSecurityEvents = 2
INVARIANTS
    TypeOK
    DefaultConnIsTheLink
    NoLeftoverWork
    SetupIsWatched
    RetryPairsFresh
    CleanupIsOwed
PROPERTIES
    SetupResolves
    ScanResumes
CHECK_DEADLOCK FALSE

CONSTANTS
    Scopes = {s1, s2}
    PageSize = 2
    MaxDirty = 1
    MaxRequests = 1
    MaxScans = 2
    MaxRestarts = 1
SPECIFICATION FairSpec
INVARIANTS
    TypeOK
    FinishedScanOwesNothing
    AdmittedOncePerScan
PROPERTIES
    ScanEnds
CHECK_DEADLOCK FALSE

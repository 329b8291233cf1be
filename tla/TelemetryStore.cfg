\* The process ends for good once Close is done and no restart is left.
SPECIFICATION FairSpec
CONSTANTS
    Devices = {d1, d2}
    QueueSize = 1
    MaxReports = 2
    MaxRestarts = 1
CHECK_DEADLOCK FALSE
INVARIANTS
    StoreInv
    LatestReportCarriesRepaint
PROPERTIES
    StoreIsABook
    StopEnds

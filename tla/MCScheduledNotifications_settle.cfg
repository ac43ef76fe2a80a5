\* A sender against the worker cycle, two failed Redis calls and a restart.
CONSTANTS
    s1 = s1  s2 = s2
    Nothing = Nothing
    MaxRecords = 3
    Senders = {s1}
    Delays = {"soon", "beyond-ttl"}
    BatchSizes = {1, 2}
    MaxHistory = 2
    MaxFaults = 2
    MaxCrashes = 1
SPECIFICATION FairSpec
INVARIANTS TypeOK DeliveredOnce NothingIsLost
PROPERTIES SchedulesAsPromised DueIsSettled
\* With every notification settled the service rests.
CHECK_DEADLOCK FALSE

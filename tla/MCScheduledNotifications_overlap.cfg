\* Two changes of the pending list overlap: a notification is lost.
CONSTANTS
    s1 = s1  s2 = s2
    Nothing = Nothing
    MaxRecords = 2
    Senders = {s1, s2}
    Delays = {"soon"}
    BatchSizes = {2}
    MaxHistory = 2
    MaxFaults = 0
    MaxCrashes = 0
SPECIFICATION TimelySpec
PROPERTIES ScheduledIsSettled
\* With every notification settled the service rests.
CHECK_DEADLOCK FALSE

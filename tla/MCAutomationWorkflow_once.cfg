\* A rejected save repeats a workflow that was complete.
CONSTANTS
    e1 = e1  e2 = e2  e3 = e3
    t1 = t1
    NoEvent = NoEvent
    Events = {e1}
    Topics = {t1}
    TopicOf <- OneTopic
    Invalid = {}
    Unrecordable = {}
    Steps = 2
    MaxAttempts = 3
    MaxArrivals <- Once
    MaxRefusals = 0
    MaxFaults = 1
    MaxCrashes = 0
SPECIFICATION Spec
INVARIANTS NeverCompletedTwice
\* With every message handled the service rests.
CHECK_DEADLOCK FALSE

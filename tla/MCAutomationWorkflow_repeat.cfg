\* A valid event received three times, an invalid one and one that cannot be
\* recorded: retries, failures, a restart.
CONSTANTS
    e1 = e1  e2 = e2  e3 = e3
    t1 = t1
    NoEvent = NoEvent
    Events = {e1, e2, e3}
    Topics = {t1}
    TopicOf <- OneTopic
    Invalid = {e2, e3}
    Unrecordable = {e3}
    Steps = 2
    MaxAttempts = 2
    MaxArrivals <- FirstThrice
    MaxRefusals = 2
    MaxFaults = 2
    MaxCrashes = 1
SPECIFICATION FairSpec
INVARIANTS TypeOK CompletedOnce EffectsAreBounded SuccessIsReal CompletionIsRecorded
PROPERTIES MarkedIsFinal ReceivedIsConcluded
\* With every message handled the service rests.
CHECK_DEADLOCK FALSE

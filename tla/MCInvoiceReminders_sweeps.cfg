\* One invoice, two channels, two sweeps at a time.
CONSTANTS
    i1 = i1  i2 = i2  w1 = w1  w2 = w2
    email = email  portal = portal
    None = None
    Invoices = {i1}
    DueAt <- DueDays
    Channels = {email, portal}
    Portal = portal
    Intervals = {0, 1}
    Workers = {w1, w2}
    MaxDay = 1
    MaxChanges = 2
    MaxFaults = 1
SPECIFICATION FairSpec
INVARIANTS TypeOK OneReminderPerKey ClaimsAreKept
PROPERTIES DueIsClaimed

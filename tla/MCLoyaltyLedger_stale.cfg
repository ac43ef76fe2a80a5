\* One request at a time and Redis always there: a write leaves the cache as it was.
CONSTANTS
    c1 = c1  r1 = r1  r2 = r2
    All = All
    NoView = NoView
    Clients = {c1}
    Requests = {r1}
    Points = {1}
    Kinds = {"EARNED"}
    MaxCommits = 2
    MaxFaults = 0
    MaxCrashes = 0
SPECIFICATION Spec
INVARIANTS InvalidatedOnWrite

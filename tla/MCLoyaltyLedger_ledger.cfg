\* Two requests at a time on one account, a call without Redis and a restart.
CONSTANTS
    c1 = c1  r1 = r1  r2 = r2
    All = All
    NoView = NoView
    Clients = {c1}
    Requests = {r1, r2}
    Points = {1, 2}
    Kinds = {"EARNED", "REDEEMED"}
    MaxCommits = 2
    MaxFaults = 1
    MaxCrashes = 1
SPECIFICATION FairSpec
INVARIANTS TypeOK BalanceWithinCredits BalanceExplained
PROPERTIES PostsAsLedger CacheSettles

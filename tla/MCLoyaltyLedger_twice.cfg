\* Two redemptions at a time: the same credits are redeemed twice.
CONSTANTS
    c1 = c1  r1 = r1  r2 = r2
    All = All
    NoView = NoView
    Clients = {c1}
    Requests = {r1, r2}
    Points = {1}
    Kinds = {"EARNED"}
    MaxCommits = 3
    MaxFaults = 0
    MaxCrashes = 0
SPECIFICATION Spec
INVARIANTS OwnCredits

\* Every kind of recipient, repeated keys, a requeue and an execution cut short.
CONSTANTS
    w1 = w1  w2 = w2  c1 = c1  c2 = c2  h1 = h1
    k1 = k1  k2 = k2  k3 = k3  k4 = k4
    NoKey = NoKey
    Nobody = Nobody
    MaxJobs = 2
    Workers = {w1}
    Callers = {c1, c2}
    Handlers = {h1}
    Keys = {k1, k2, k3, k4}
    KindOf <- EveryKind
    MaxAttempts = 2
    MaxCallbacks = 1
    MaxAborts = 1
SPECIFICATION FairSpec
INVARIANTS OneJobPerKey SentIsJustified
PROPERTIES QueuedIsSettled
\* A queue with nothing to do rests.
CHECK_DEADLOCK FALSE

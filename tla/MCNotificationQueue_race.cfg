\* Overlapping ticks and callbacks contend for one job.
CONSTANTS
    w1 = w1  w2 = w2  c1 = c1  c2 = c2  h1 = h1
    k1 = k1  k2 = k2  k3 = k3  k4 = k4
    NoKey = NoKey
    Nobody = Nobody
    MaxJobs = 1
    Workers = {w1, w2}
    Callers = {c1, c2}
    Handlers = {h1}
    Keys = {k1}
    KindOf <- ExternalKeys
    MaxAttempts = 3
    MaxCallbacks = 2
    MaxAborts = 1
SPECIFICATION Spec
INVARIANTS TypeOK CallsAreBounded DeliveriesAreBounded FailureIsRecorded
PROPERTIES DeliversAsPromised
SYMMETRY WorkerSymmetry
\* A queue with nothing to do rests.
CHECK_DEADLOCK FALSE

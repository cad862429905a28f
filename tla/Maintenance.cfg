CONSTANTS
    t1 = t1
    t2 = t2
    t3 = t3
    NoThread = NoThread
    Workers <- MCWorkers
    sample = sample
    None = None
    Plain <- MCPlain
    CatOf <- MCCatOf
    MaxSnaps = 2
    Limit = 1
    Cap = 1
    Faults = {"begin", "batch", "integrity", "status", "schedule"}
    MaxFaults = 1
    MaxCrashes = 1
SPECIFICATION MCSpec
INVARIANT CyclesSettle
PROPERTIES StopQuiesces WakeIsServed ExpiredGoes

CONSTANTS
    health = health
    f1 = f1
    c1 = c1
    NoCause = NoCause
    Causes <- MCCauses
    Flushers <- MCFlushers
    Cancellers <- MCCancellers
    MaxCommits = 2
    MaxCalls = 4
SPECIFICATION Spec
CHECK_DEADLOCK FALSE
INVARIANT NoLostUpdate
PROPERTIES KeepsPromise EveryRequestServed

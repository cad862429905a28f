SPECIFICATION Spec
CONSTANTS
    Bad = Bad
    None = None
    Unavailable = Unavailable
    Registries <- MCRegistries
    Inventories <- MCInventories
    Replies <- MCReplies
    MaxFaults = 1
    Budgets <- MCBudgets
INVARIANT SnapshotWellFormed
INVARIANT RestsOnTheLatest
INVARIANT RepairsAreCurrent
PROPERTY CoreCatchesUp
CHECK_DEADLOCK FALSE

CONSTANTS
    home = home
    shed = shed
    api = api
    None = None
    Scheduler = Scheduler
    Nets <- MCOneNet
    Callers <- MCCallers
    MaxSnapshots = 1
    Faults = {"publish", "status", "bridge"}
    Periodic = TRUE
    MaxCaptures = 2
    MaxRestarts = 1
SPECIFICATION Spec
CHECK_DEADLOCK FALSE
PROPERTY RowsSettle

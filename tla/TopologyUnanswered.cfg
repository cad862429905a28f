CONSTANTS
    home = home
    shed = shed
    api = api
    None = None
    Scheduler = Scheduler
    Nets <- MCOneNet
    Callers <- MCCallers
    MaxSnapshots = 1
    Faults = {}
    Periodic = FALSE
    MaxCaptures = 2
    MaxRestarts = 0
SPECIFICATION Spec
CHECK_DEADLOCK FALSE
PROPERTY PendingIsCleared

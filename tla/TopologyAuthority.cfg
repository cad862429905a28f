CONSTANTS
    home = home
    shed = shed
    api = api
    None = None
    Scheduler = Scheduler
    Nets <- MCOneNet
    Callers <- MCCallers
    MaxSnapshots = 1
    Faults = {"insert", "publish", "store", "status", "retain"}
    Periodic = FALSE
    MaxCaptures = 3
    MaxRestarts = 0
SPECIFICATION Spec
CHECK_DEADLOCK FALSE
PROPERTY CompletedIsAuthoritative

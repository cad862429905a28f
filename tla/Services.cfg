CONSTANTS
    None = None
    Bad = Bad
    Tokens = {t1, t2}
    Secrets = {s1, s2}
    Ttls = {1, 2}
    Skew = 0
    MaxClock = 1
    MaxSessions = 2
    NoValue = NoValue
    Browsers = {b1}
    MaxVersion = 3
    QueueSize = 2
    MaxDrops = 1
    MaxCalls = 2
    NoFile = NoFile
    Versions = {1, 2}
    Alters = {2}
    Statements = 2
    MaxRows = 3
    MaxKills = 2
    Threads = {mqtt, worker}
    NoOwner = NoOwner
    MaxDepth = 2
    MaxUnits = 2
    MaxWrites = 2
    Faults = {"begin", "write", "commit", "rollback"}
SPECIFICATION Spec
SYMMETRY Symmetric
CHECK_DEADLOCK FALSE
INVARIANTS
    AccessStatusTellsTheTruth
    AccessRestsOnLiveCredentials
    WatchersGetTheLastWord
    ClosedContextIsQuiet
    FileSchemaIsHonest
    FileBackupIsWhole
    AllOrNothing
    NoForeignTransaction
    BareWriteSurvives

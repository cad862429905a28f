CONSTANTS
    NoTime = NoTime
    Missing = Missing
    MinIntervals = 3
    WindowSize = 2
    HistoryLimit = 3
    ReadLimit = 5
    MinSamples = 3
    GroupSize = 2
    GroupAffected = 2
    RecentSnapshots = 2
    LinksPerDevice = 1
    LastKnownTotal = 2
    WatchLinks = 2
    LargeLinks = 2
    EventGap = 5
    EventsPerDevice = 4
    StormSize = 3
    HintsPerNode = 2
    HintsTotal = 3
    MissingEdges = 2
    LimitedDevices = 2
    ReviewLinks = 2
    ReviewMembers = 3
    CardLimit = 4
    DevicesPerCard = 3
    PriorityLimit = 3
    WarningLimit = 2
    EventLimit = 2
    DEFAULT_INCIDENT_COLLECTION_LIMIT = 2
    MAX_INCIDENT_COLLECTION_LIMIT = 3
SPECIFICATION RulesSpec
CHECK_DEADLOCK FALSE
INVARIANT Grounded
INVARIANT MapReadersAgree
INVARIANT OneStory
INVARIANT CardsAreDrawn
INVARIANT PagesAddUp

SPECIFICATION MqSpec
CONSTANTS
    n1 = n1
    a = a
    b = b
    lamp = lamp
    plug = plug
    None = None
    Networks <- MCNetworks
    Ieees <- MCIeees
    Names <- MCNames
    Estates <- MCEstates
    Inventories <- MCInventories
    MaxMessages = 3
    MaxDrops = 1
    MaxRaised = 1
INVARIANT NoDeafConnection
INVARIANT InventoryReplays
INVARIANT HistoryConnects
PROPERTY ChangesAreEvaluated
PROPERTY StopIsLastWord
CHECK_DEADLOCK FALSE

SPECIFICATION MCSpec
CONSTANTS
    Versions = {1, 2, 3, 4}
    Plugins = {1, 2, 3, 4}
    Symbols = {a, b}
    Prices = {1, 2}
    Times = {1, 2}
    DcaQueueSize = 1
    CandleQueueSize = 1
    BatchSize = 2
    MaxTrades = 3
    Watched = {a, btc}
    Mandatory = {btc}
    Configurations = {1, 2, 3}
    MaxSignals = 0
    Clients = {x, y}
    MaxVersion = 3
    MaxStops = 1
    Readers = {x, y}
    Ttl = 2
    MaxTime = 5
    Instances = {x, y}
    Requests = {1, 2}
    Updates <- TwoKeys
    Stored <- FromBase
    Backups <- ToSidestep
    SavedUpdates <- KeysOfGuards
    SavedStored <- PoorOrSidestep
    SavedBackups <- ValidOrNot
    HistoryEnd = 5
    Length = 4
    Minimum = 2
    Retention = 2
    ArchiveEnd = 4
    DealFrom = 1
    PostRoll = 2
    MaxDeals = 0
PROPERTIES
    SyncEnsures
CHECK_DEADLOCK FALSE

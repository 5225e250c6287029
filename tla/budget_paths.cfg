SPECIFICATION PathsSpec
CONSTANTS
    Scenarios = {"plain", "sidestep"}
    Symbols = {s1}
    Buyers = {dca, signal, api}
    Worker = dca
    Plugin = signal
    Free = free
    Config <- DynamicConfig
    SidestepDeals = {}
    EntrySizes = {2}
    BaselineSizes = {1}
    ManualSizes = {1}
    DynamicSizes = {1}
    PriceMoves <- NoMoves
    ExitMoves = {0}
    ProfitBound = 2
    SpendBound = 3
    PluginReloads = FALSE
    DashboardCalls = {"buy", "stop"}
INVARIANTS
    TypeOK
    LeaseOwned
    LockOwned
PROPERTIES
    PendingFrozen
CHECK_DEADLOCK FALSE

SPECIFICATION Spec
CONSTANTS
    Symbols = {s1, s2}
    Buyers = {dca, signal}
    Worker = dca
    Plugin = signal
    Free = free
    Config <- StretchConfig
    SidestepDeals = {s1, s2}
    EntrySizes = {2}
    BaselineSizes = {2}
    ManualSizes = {}
    DynamicSizes = {}
    PriceMoves <- Moves
    ExitMoves = {0, 2}
    ProfitBound = 2
    SpendBound = 4
    PluginReloads = TRUE
    DashboardCalls = {}
INVARIANTS
    NoLeaseLeaked
CHECK_DEADLOCK FALSE

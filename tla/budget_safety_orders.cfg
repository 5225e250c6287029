SPECIFICATION Spec
CONSTANTS
    Symbols = {s1, s2}
    Buyers = {dca, signal}
    Worker = dca
    Plugin = signal
    Free = free
    Config <- LadderConfig
    SidestepDeals = {}
    EntrySizes = {2}
    BaselineSizes = {2}
    ManualSizes = {}
    DynamicSizes = {}
    PriceMoves <- NoMoves
    ExitMoves = {0, 2}
    ProfitBound = 2
    SpendBound = 6
    PluginReloads = FALSE
    DashboardCalls = {}
INVARIANTS
    HardLimit
CHECK_DEADLOCK FALSE

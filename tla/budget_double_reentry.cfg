SPECIFICATION Spec
CONSTANTS
    Symbols = {s1, s2}
    Buyers = {dca, signal, api}
    Worker = dca
    Plugin = signal
    Free = free
    Config <- LadderConfig
    SidestepDeals = {s1, s2}
    EntrySizes = {3}
    BaselineSizes = {3}
    ManualSizes = {}
    DynamicSizes = {}
    PriceMoves <- NoMoves
    ExitMoves = {0}
    ProfitBound = 2
    SpendBound = 4
    PluginReloads = FALSE
    DashboardCalls = {"activate"}
INVARIANTS
    HardLimit
CHECK_DEADLOCK FALSE

SPECIFICATION MCSpec
CONSTANTS
    Symbols = {s1, s2, s3, s4}
    Plugins = {"asap", "sym_signals"}
    NoSymbol = none
    MaxBots = 3
    Limits = {1, 3}
    PluginReloads = TRUE
    StopsDuringReentry = FALSE
    Ramp = 4
    Recent = 1
    MinRamp = 2
    MinRampWins = 1
    MinRecentWins = 1
    Confirm = 2
    Release = 2
    MaxExtra = 2
    MaxTime = 5
    MaxCloses = 3
    MaxDeals = 3
    SafetyOrders = 1
    MaxFund = 6
    MaxLocked = 85
    High = 60
    Medium = 30
    LowBots = 1
    MediumBots = 0
    HighBots = 0
    Balances = {3, 4}
    Coins = {coin}
    Required = 2
    MinCloses = 2
    Confident = 3
    StaleAfter = 1
    Baseline = 100
    MaxEvents = 2
    MaxHistory = 2
    LastDay = 2
INVARIANTS
    SeenCoversDeals
    SlotsBounded
    TrustBacked
PROPERTIES
    ImplementsSlotPool
    Hysteresis
    ExtraDealsFunded
SYMMETRY Interchangeable
CHECK_DEADLOCK FALSE

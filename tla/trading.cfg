SPECIFICATION MCSpec
CONSTANTS
    Amounts = {5, 8}
    Other = 2
    Step = 2
    Dust = 2
    OrderTypes = {"limit", "market"}
    Fallback = TRUE
    MaxTries = 2
    Lookups = {"found", "error"}
    Faults = {"reply", "fetch"}
    CrashPoints <- BeforeArchive
    MaxOrders = 2
    MaxDeals = 1
    Size = 1
    MaxRequests = 1
    MaxCrashes = 1
    MaxCampaigns = 2
    MaxLegs = 2
    Profits = {1}
    MaxSwitches = 1
    Configs <- ExitSettings
    Prices = {80, 90, 100, 106, 112}
    Realized = {0, 5}
    MaxTrades = 2
    MaxTicks = 2
    MaxTime = 2
INVARIANTS
    BookedIsSold
    ClosedIsSold
    MarketAlone
    OrdersTracked
    SellsAlone
    BookedOnce
    MissionsAgree
    MissionBookedOnce
    SpikesFiltered
PROPERTIES
    SellEnds
    FillsAreBooked
    WaitingEnds
CHECK_DEADLOCK FALSE

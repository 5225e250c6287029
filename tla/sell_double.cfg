SPECIFICATION Spec
CONSTANTS
    Amounts = {5, 6}
    Other = 2
    Step = 2
    Dust = 2
    OrderTypes = {"limit"}
    Fallback = TRUE
    MaxTries = 2
    Lookups = {"found"}
    Faults = {}
    CrashPoints = {}
INVARIANTS
    NoDoubleSelling
CHECK_DEADLOCK FALSE

SPECIFICATION Spec
CONSTANTS
    Amounts = {5, 6}
    Other = 0
    Step = 2
    Dust = 2
    OrderTypes = {"limit"}
    Fallback = TRUE
    MaxTries = 2
    Lookups = {"found"}
    Faults = {}
    CrashPoints = {}
INVARIANTS
    RemainderIsLeft
CHECK_DEADLOCK FALSE

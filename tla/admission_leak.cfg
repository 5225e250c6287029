SPECIFICATION Spec
CONSTANTS
    Symbols = {s1, s2, s3, s4}
    Plugins = {"asap", "sym_signals"}
    NoSymbol = none
    MaxBots = 3
    Limits = {1, 3}
    PluginReloads = TRUE
    StopsDuringReentry = FALSE
INVARIANTS
    NoReservationLost
CHECK_DEADLOCK FALSE

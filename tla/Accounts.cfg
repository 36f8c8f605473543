SPECIFICATION MCSpec
CONSTANTS
    Names = {"a", "b"}
    Procs = {p, q}
    Files <- MCFiles
    Presets = {"google", "fastmail", "icloud", ""}
    Securities = {"", "starttls", "ssl"}
    Budgets <- MCBudgets
    Order <- MCOrder
    Present <- MCPresent
    Uids <- MCUids
    Servers <- MCServers
    MaxVal = 4
    Origins = {"backfill", "delta"}
    SweepEvery = 2
    MaxEvents = 2
    MaxWrites = 1
    MaxPasses = 3
    MaxFaults = 1
SYMMETRY Symmetry
CHECK_DEADLOCK FALSE
INVARIANTS ConfigWhole Traceable LoginKept Caught
PROPERTIES RowsHold

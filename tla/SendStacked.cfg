SPECIFICATION MCSpec
CONSTANTS
    Backends = {"jmap", "gmail", "imap"}
    Budgets <- StackedBudgets
    MaxSignature = 1
    MaxLookups = 2
    CacheMax = 1
CHECK_DEADLOCK FALSE
INVARIANT LockedInFlight

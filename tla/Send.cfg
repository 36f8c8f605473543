SPECIFICATION MCSpec
CONSTANTS
    Backends = {"jmap", "gmail", "imap"}
    Budgets <- MCBudgets
    MaxSignature = 1
    MaxLookups = 2
    CacheMax = 1
CHECK_DEADLOCK FALSE
INVARIANTS SentOnce ToldTrue DraftKept WordsKept

SPECIFICATION MCSpec
CONSTANTS
  N = 3
  Sha <- MCSha
  References <- MCReferences
  InReplyTo <- MCInReplyTo
  MaxRefs = 3
  To <- MCTo
  Big = {2}
  Page = 2
  Orphans = {"b"}
  Budget <- MCBudget
  MaxEvents = 3
  MaxGC = 1
  MaxPurges = 1
  MaxReindexes = 1
  MaxRethreads = 1
  MaxReads = 1
  MaxCrashes = 1
  MaxFiles = 1
  MaxDestroys = 1
  MaxDepth = 2
  MaxParts = 3
CHECK_DEADLOCK FALSE
INVARIANTS Intact FactsStand DerivedTrue ReadBack

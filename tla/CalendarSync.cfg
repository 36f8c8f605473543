SPECIFICATION FairSpec
CONSTANTS
  Objects = {1, 2, 3}
  MaxHistory = 2
  Slots = {1, 2}
  Reach = 1
  Edited = {1}
  Providers = {"google", "inline"}
  Starts <- MCStarts
  MaxEdits = 2
  MaxAborts = 1
  MaxDrops = 1
  Days = 1
  MaxAll = 2
CHECK_DEADLOCK FALSE
INVARIANTS NoGap AgendaMatches ListingsSound
PROPERTIES SeriesHeals

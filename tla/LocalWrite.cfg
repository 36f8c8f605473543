SPECIFICATION FairSpec
CONSTANTS
  unread = unread
  trash = trash
  Fields = {"seen", "inbox"}
  Values = {0, 1}
  Writes = {unread, trash}
  Deferrable = {unread, trash}
  QueueCap = 2
  Window = 1
  NoUndo = NoUndo
  Origin <- MCOrigin
  Shows <- MCShows
  Does <- MCDoes
  MaxKinds = 2
  Budget <- MCBudget
  Others = 1
  Offlines = 1
  Refusals = 1
  Deadlines = 1
  Crashes = 1
  Aborts = 1
CHECK_DEADLOCK FALSE
INVARIANTS Noticed
PROPERTIES FenceHolds Settles

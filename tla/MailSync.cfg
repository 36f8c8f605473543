SPECIFICATION MCSpec
CONSTANTS
  N = 4
  Old = {1, 3}
  Big = {3}
  Backends = {"jmap", "gmail"}
  PageSize = 1
  IndexBatch = 1
  EnvelopeChunk = 2
  MaxLog = 4
  Spoils = 1
  Aborts = 1
  Forgets = 1
  Fulls = 1
  Restarts = 1
  Losses = 1
  Skips = 1
  Quiets = 1
  Reads = 1
  FewMsgs = 3
  FewChanges = 2
  FewFaults = 3
  FewEvents = 4
  MaxFaults = 4
  MaxSpoiled = 1
  Budget <- MCBudget
INVARIANTS NoGap BackfillSound
PROPERTIES Replicates Converges

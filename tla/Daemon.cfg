SPECIFICATION FairSpec
CONSTANTS
  service = service
  byhand = byhand
  sh = sh
  acc = acc
  Daemons = {service, byhand}
  Supervised = {service}
  Shells = {sh}
  Accounts = {acc}
  Pushed = {"mail"}
  NoPid = NoPid
  Stale = Stale
  Free = Free
  MaxSyncs = 1
  MaxFailures = 1
  MaxStops = 1
  MaxFaults = 2
  MaxHints = 1
INVARIANTS OnePass HintWakes NoRequestLost PidNamesDaemon
PROPERTIES FullPasses

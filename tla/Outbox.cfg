SPECIFICATION FairSpec
CONSTANTS
  send = send
  flag = flag
  trash = trash
  cli = cli
  tui = tui
  daemon = daemon
  shell = shell
  cmd = cmd
  ui = ui
  drain = drain
  ticker = ticker
  retry = retry
  Writes = {send, flag}
  NoWrite = NoWrite
  SingleShot = {send}
  Deferrable = {flag}
  MaxId = 1
  Procs = {tui, daemon}
  Callers = {ui}
  Laters = {ui}
  Deferrers = {drain}
  Passers = {ticker}
  Deadlined = {ui}
  Lease = 2
  PushMax = 1
  DeferMax = 1
  QueueCap = 1
  MaxAttempts = 2
  BackoffCap = 1
  MaxCrashes = 1
  MaxSuspends = 1
  MaxDrops = 1
  ProcOf <- MCProcOf
CHECK_DEADLOCK FALSE
INVARIANTS SingleHolder Accounted
PROPERTIES StaysEnded EventuallySettled

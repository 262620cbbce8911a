SPECIFICATION HookSpec
CONSTANTS
  e1 = e1
  e2 = e2
  j1 = j1
  j2 = j2
  Event = {e1, e2}
  Job = {j1, j2}
  Affects <- TwoEvents
  Known = {e1, e2}
  Drain = {cron}
  Cron = {cron}
  BatchSize = 2
  MAX_ATTEMPTS = 2
  MAX_TRIES = 2
  DetailsFail = FALSE
  LookupsFail = FALSE
  MaxCrashes = 1
  MaxOutages = 0
PROPERTIES
  StrandedReclaimed
CHECK_DEADLOCK FALSE

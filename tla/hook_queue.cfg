SPECIFICATION HookSpec
CONSTANTS
  e1 = e1
  e2 = e2
  j1 = j1
  j2 = j2
  Event = {e1, e2}
  Job = {j1, j2}
  Affects <- TwoEvents
  Known = {e1}
  Drain = {cron, button}
  Cron = {cron}
  BatchSize = 2
  MAX_ATTEMPTS = 2
  MAX_TRIES = 2
  DetailsFail = TRUE
  LookupsFail = TRUE
  MaxCrashes = 1
  MaxOutages = 1
INVARIANTS
  TypeOK
  EventCustody
  SmoothDoneMeansApplied
PROPERTIES
  SettledStays
  SmoothEventuallyHandled
CHECK_DEADLOCK FALSE

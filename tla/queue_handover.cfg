SPECIFICATION OperationSpec
CONSTANTS
  c1 = c1  c2 = c2  c3 = c3  t1 = t1  t2 = t2  d1 = d1  d2 = d2
  j1 = j1  j2 = j2  r0 = r0  p1 = p1  p2 = p2
  NoJob = NoJob  NoPhone = NoPhone  NoCall = NoCall  AllTenants = AllTenants
  Call = {c1, c2, c3}
  Tenant = {t1, t2}
  Job = {j1, j2}
  Recipient = {r0}
  Phone = {p1, p2}
  Row <- HandoverRows
  Dispatcher = {d1, d2}
  Cron = {d1}
  AutoDispatch = {t1, t2}
  TenantCap <- TightCaps
  SystemCap = 2
  BatchSize = 2
  MaxAttempts = 1
  ClaimRaces = FALSE
  CancelInFlight = FALSE
  MaxCrashes = 1
  MaxClosings = 0
  RunId = {e1, e2}
  Asked = {e1}
  Watcher = {browser}
  MaxRounds = 1
  MaxEngineFaults = 2
  Reader = {ops, owner}
  Sweeper = {cron}
  Midnight = 2
  SendHour = {1, 2}
  Close = 2
  Weekend = {2}
  IncludeWeekends = FALSE
  SweepsOverlap = FALSE
  LastDay = 2
  MaxReportEvents = 1
  Notice = {n1}
  Clerk = {desk}
  MaxLinks = 1
  Short = {s1}
  MaxTries = 2
  MaxDeliveryFaults = 1
CHECK_DEADLOCK FALSE
INVARIANTS OperationTypeOK NoParallelDial Custody NoUnexplainedRedial VerdictTold SentOnce DayReported LegOnce
PROPERTIES PromiseKept RunEnds
CONSTRAINT Bounded

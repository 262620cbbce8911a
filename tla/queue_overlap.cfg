SPECIFICATION Spec
CONSTANTS
  c1 = c1  c2 = c2  c3 = c3  t1 = t1  t2 = t2  d1 = d1  d2 = d2
  j1 = j1  j2 = j2  r0 = r0  p1 = p1  p2 = p2
  NoJob = NoJob  NoPhone = NoPhone  NoCall = NoCall  AllTenants = AllTenants
  Call = {c1, c2}
  Tenant = {t1, t2}
  Job = {j1, j2}
  Recipient = {r0}
  Phone = {p1, p2}
  Row <- PairRows
  Dispatcher = {d1, d2}
  Cron = {d1}
  AutoDispatch = {t1, t2}
  TenantCap <- Caps
  SystemCap = 2
  BatchSize = 2
  MaxAttempts = 0
  ClaimRaces = TRUE
  CancelInFlight = FALSE
  MaxCrashes = 0
  MaxClosings = 0
CHECK_DEADLOCK FALSE
INVARIANTS NoParallelDial

SPECIFICATION ForceSpec
CONSTANTS
  c1 = c1  c2 = c2  c3 = c3  t1 = t1  t2 = t2  d1 = d1  d2 = d2
  j1 = j1  j2 = j2  r0 = r0  p1 = p1  p2 = p2
  NoJob = NoJob  NoPhone = NoPhone  NoCall = NoCall  AllTenants = AllTenants
  Call = {c1, c2, c3}
  Tenant = {t1}
  Job = {j1, j2}
  Recipient = {r0}
  Phone = {p1, p2}
  Row <- ForceRows
  Dispatcher = {d1}
  Cron = {d1}
  AutoDispatch = {t1}
  TenantCap <- Caps
  SystemCap = 2
  BatchSize = 2
  MaxAttempts = 1
  ClaimRaces = TRUE
  CancelInFlight = TRUE
  MaxCrashes = 1
  MaxClosings = 1
CHECK_DEADLOCK FALSE
INVARIANTS OneActivePerSlot
PROPERTIES EventuallySettled

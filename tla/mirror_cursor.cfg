SPECIFICATION BothFairSpec
CONSTANTS
  Job = {j1}
  Run = {p1, t1}
  Poll = {p1}
  None = None
  Lost = Lost
  SyncOverlaps = FALSE
  NormalizeOverlaps = FALSE
  JobsLeave = FALSE
  DetailsFail = TRUE
  VisitsFail = FALSE
  MaxChanges = 2
  MaxFaults = 1
  Entity <- OneOfEach
  Book <- OneOfEachBook
  Loose = {"technician"}
  Inbox <- OneInboxEach
  NoInbox = "none"
  Worker = {w1}
  RunsOverlap = FALSE
  MaxEdits = 2
  MaxEntityFaults = 1
INVARIANTS
  BothTypeOK
  JobsNotMissed
  RawNotMissed
  RefsHeal
  VisitsPruned
PROPERTIES
  EventuallyMirrored
  
CHECK_DEADLOCK FALSE

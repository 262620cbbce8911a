SPECIFICATION BothSpec
CONSTANTS
  Job = {}
  Run = {}
  Poll = {}
  None = None
  Lost = Lost
  SyncOverlaps = FALSE
  NormalizeOverlaps = FALSE
  JobsLeave = FALSE
  DetailsFail = FALSE
  VisitsFail = FALSE
  MaxChanges = 0
  MaxFaults = 0
  Entity <- Shared
  Book <- SharedBook
  Loose = {}
  Inbox <- SharedInbox
  NoInbox = "none"
  Worker = {w1}
  RunsOverlap = FALSE
  MaxEdits = 0
  MaxEntityFaults = 0
INVARIANT RefsHeal
CHECK_DEADLOCK FALSE

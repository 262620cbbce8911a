SPECIFICATION BothSpec
CONSTANTS
  Job = {j1}
  Run = {p1}
  Poll = {p1}
  None = None
  Lost = Lost
  SyncOverlaps = FALSE
  NormalizeOverlaps = FALSE
  JobsLeave = FALSE
  DetailsFail = FALSE
  VisitsFail = TRUE
  MaxChanges = 1
  MaxFaults = 1
  Entity <- NoEntity
  Book <- EmptyBook
  Loose = {}
  Inbox <- EmptyBook
  NoInbox = "none"
  Worker = {}
  RunsOverlap = FALSE
  MaxEdits = 0
  MaxEntityFaults = 0
INVARIANT VisitsNotMissed
CHECK_DEADLOCK FALSE

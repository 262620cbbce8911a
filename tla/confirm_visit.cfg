SPECIFICATION FairSpec
CONSTANTS
  Visit = {v1, v2}
  Booked = {v1}
  Slot = {1, 2}
  Actor = {"voice", "chat", "desk", "sync"}
  MaxBusy = 2
  ByHand = {"open", "confirmed"}
  SameVisit = FALSE
  AgentChanges = TRUE
  MaxEvents = 2
  Address = {a1, a2}
  Handler = {h1, h2}
  MaxLinkEvents = 3
  Recipient = {customer, contact}
  Customer = customer
  Reachable = {customer}
  Call = {c1}
  Flags = {"voice", "link"}
  Outcome = {"no answer", "voicemail", "yes", "unclear", "reschedule", "cancel", "callback"}
  HasDue = TRUE
  Ahead = 2
  MaxRetries = 3
  MaxAttempts = 3
  MaxFollowFaults = 2
INVARIANTS
  ConfirmTypeOK JobInStep ConsentIsFresh MoveReported LinkNotLost CorrectedIsMailed UnsentTold ContactOnce TodoTold
PROPERTIES
  JobHeals AnalysisKept ChaseEnds
CHECK_DEADLOCK FALSE

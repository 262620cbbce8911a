SPECIFICATION Spec
CONSTANTS
  Visit = {v1, v2}
  Booked = {v1, v2}
  Slot = {1, 2}
  Actor = {"voice", "sync"}
  MaxBusy = 2
  ByHand = {"open", "confirmed"}
  SameVisit = FALSE
  AgentChanges = TRUE
  MaxEvents = 2
  Address = {a1, a2}
  Handler = {h1, h2}
  MaxLinkEvents = 0
  Recipient = {customer}
  Customer = customer
  Reachable = {}
  Call = {}
  Flags = {}
  Outcome = {}
  HasDue = FALSE
  Ahead = 0
  MaxRetries = 0
  MaxAttempts = 0
  MaxFollowFaults = 0
INVARIANT CancelledStays
CHECK_DEADLOCK FALSE

SPECIFICATION Spec
CONSTANTS
  Token = {k1}
  Turn = {p1, b1}
  Booking = {b1}
  Sweep = {tick, admin}
  CatchUp = {admin}
  None = None
  Faulty = {p1, b1, tick}
  MaxFaults = 1
INVARIANTS
  TypeOK
  OutcomeKept
  QuietMeansReported
PROPERTIES
  EndedStays
CHECK_DEADLOCK FALSE

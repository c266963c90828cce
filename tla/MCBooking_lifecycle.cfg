SPECIFICATION Spec
CONSTANTS
  Workers = {w1, w2}
  Appts = {a1}
  Staff = {s1}
  Customers = {c1}
  Keys = {k1, k2}
  Durations = {1, 2}
  StartLead = 1
  DayStart = 0
  DayEnd = 3
  Step = 1
  Sources = {"WEB"}
  Paths = {"TENANT", "TOKEN", "CUSTOMER", "CHANNEL"}
  Toggles = {}
  Schedule <- OneShift
  ExceptionChoices <- NoExceptions
  None = None
  Idle = Idle
SYMMETRY Interchangeable
INVARIANTS
  TimelineCurrent
  OneOutcome
  CommissionExact
PROPERTIES
  TerminalFrozen
CHECK_DEADLOCK FALSE

SPECIFICATION Spec
CONSTANTS
  Workers = {w1}
  Appts = {a1,a2}
  Staff = {s1}
  Customers = {c1}
  Keys = {k1}
  Durations = {1, 2}
  StartLead = 1
  DayStart = 0
  DayEnd = 3
  Step = 1
  Sources = {"WEB", "WHATSAPP"}
  Paths = {"CUSTOMER"}
  Toggles = {"tenant", "booking", "service"}
  Schedule <- ShortShift
  ExceptionChoices <- LateChanges
  None = None
  Idle = Idle
SYMMETRY Interchangeable
INVARIANTS
  OfferedIsBookable
  NoticePerChange
CHECK_DEADLOCK FALSE

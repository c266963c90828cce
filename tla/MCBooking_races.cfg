SPECIFICATION Spec
CONSTANTS
  Workers = {w1, w2}
  Appts = {a1, a2}
  Staff = {s1}
  Customers = {c1}
  Keys = {k1}
  Durations = {2}
  StartLead = 1
  DayStart = 0
  DayEnd = 4
  Step = 1
  Sources = {"ADMIN", "WHATSAPP"}
  Paths = {"CHANNEL"}
  Toggles = {}
  Schedule <- OneShift
  ExceptionChoices <- NoExceptions
  None = None
  Idle = Idle
SYMMETRY Interchangeable
INVARIANTS
  NoDoubleBooking
  LocksExact
  ExactlyOncePerKey
PROPERTIES
  ImplementsCalendar
CHECK_DEADLOCK FALSE

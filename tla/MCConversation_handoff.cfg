SPECIFICATION Spec
CONSTANTS
  Workers = {w1, w2}
  Members = {m1, m2}
  Inputs = {"reschedule", "cancel", "confirm", "human", "main_menu"}
  MaxEvents = 4
  MaxBacklog = 1
  MaxHistory = 3
  None = None
  Idle = Idle
SYMMETRY Interchangeable
INVARIANTS
  HistoryIsPath
  ControlConsistent
PROPERTIES
  BotStaysSilent
  NoStolenClaim
CHECK_DEADLOCK FALSE

SPECIFICATION Spec
CONSTANTS
  Workers = {w1, w2}
  Members = {m1}
  Inputs = {"book", "confirm"}
  MaxEvents = 8
  MaxBacklog = 2
  MaxHistory = 0
  None = None
  Idle = Idle
SYMMETRY Interchangeable
INVARIANTS
  OncePerEvent
  CommandFromOneFlow
CHECK_DEADLOCK FALSE

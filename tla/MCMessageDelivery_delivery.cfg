SPECIFICATION RecoveringSpec
CONSTANTS
  Messages = {1, 2}
  Workers = {w1, w2}
  Refused = {1}
  BatchLimit = 2
  Idle = Idle
INVARIANTS
  SentMeansReceived
PROPERTIES
  SentStays
  EventuallySent
CHECK_DEADLOCK FALSE

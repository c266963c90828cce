SPECIFICATION FairSpec
CONSTANTS
  Intents = {1, 2}
  Workers = {w1, w2}
  MaxAttempts = 3
  Free = Free
INVARIANTS
  SentOnce
  AttemptsAreOwned
PROPERTIES
  OnlyLastClaimantEnds
  EventuallyResolved
CHECK_DEADLOCK FALSE

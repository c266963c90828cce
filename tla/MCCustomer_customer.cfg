SPECIFICATION Spec
CONSTANTS
  Challenges = {c1, c2, c3}
  Requesters = {q1}
  Callers = {w1, w2}
  Free = Free
  Cooldown = 2
  CodeTTL = 4
  RequestWindow = 6
  CustomerTTL = 3
  MaxPhoneRequests = 1
  MaxRequesterRequests = 2
  MaxCodeAttempts = 2
  LastMoment = 6
  Clients = {w1, w2}
  Vacant = Vacant
  FileIds = {f1, f2, f3}
  EntryKeys = {k1, k2}
  Contents = {p1, p2}
  Codes = {g1, g2}
  Texts = {p1, p2}
  Affiliates = {k1, k2}
  TermInputs <- TermSamples
  Prices <- PriceSamples
  Visits = {v1}
  Nothing = Nothing
  FinalDay = 1
SYMMETRY Interchangeable
INVARIANTS
  SessionKept
  OneSessionPerCode
  LimitOvershoot
  StoreMatchesRecords
  FeedbackOnce
  OneCurrentCode
  EconomicsSound
CHECK_DEADLOCK FALSE

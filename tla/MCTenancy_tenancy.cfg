SPECIFICATION TenancySpec
CONSTANTS
  old = old
  t1 = t1
  t2 = t2
  taken = taken
  Tenants <- AllTenants
  Legacy <- Unmanaged
  SlugOf <- TakenSlug
  Slugs = {taken, free}
  Reserved = {}
  Owners = {o1}
  Sessions = {s1}
  None = None
  Idle = Idle
  Offers <- TrialOrSuspended
  Jobs = {j1, j2}
  SessionTTL = 1
  TokenTTL = 2
  ClockTolerance = 1
  MaxTime = 2
  MaxActions = 2
SYMMETRY Interchangeable
INVARIANTS
  GatesAgree
  NoLateAuthority
  DelegationAccounted
PROPERTIES
  AuditTrailIsPath
CHECK_DEADLOCK FALSE

SPECIFICATION FairSpec
CONSTANTS
  Pid = {a, p, q}
  Anchor = a
  Sup = Sup
  Other = Other
  None = None
  GracefulAttempts = 1
  ForceAttempts = 2
INVARIANTS OnlyOwnSignalled DrainedMeansEmpty CleanExit
PROPERTY StopsInTime
CHECK_DEADLOCK FALSE

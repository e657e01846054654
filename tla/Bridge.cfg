SPECIFICATION FairSpec
CONSTANTS
  Pid = {a, p, q}
  Anchor = a
  Sup = Sup
  Other = Other
  None = None
  GracefulAttempts = 1
  ForceAttempts = 1
  MaxPending = 1
  MaxResizes = 1
INVARIANT NothingLeft
PROPERTY SignalsServed
CHECK_DEADLOCK FALSE

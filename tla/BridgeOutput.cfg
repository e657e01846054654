SPECIFICATION Spec
CONSTANTS
  Pid = {a, p}
  Anchor = a
  Sup = Sup
  Other = Other
  None = None
  GracefulAttempts = 1
  ForceAttempts = 1
  MaxPending = 1
  MaxResizes = 0
INVARIANT OutputDelivered
CHECK_DEADLOCK FALSE

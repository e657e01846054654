CONSTANTS
  Proc = {p1, p2}
  Claim = {c1}
  None = None
  p1 = p1
  TTL = 0
  WriteTimeout = 1
  OuterTimeout = 2
  MaxTime = 2
  LastPreflight = 0
SPECIFICATION FairSpec
CONSTRAINT OneInvocationInTime
INVARIANTS RefusedMeansUntouched WriteInTime
PROPERTIES TicketSpec DeviceComesFree

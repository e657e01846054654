CONSTANTS
  h1 = h1
  f1 = f1
  p1 = p1
  n1 = n1
  Proc = {p1, p2}
  Thread = {t1}
  Helper = {h1, h2}
  Tool = {f1, f2}
  Nonce = {n1, n2}
  None = None
  SessionMax = 1
  ReceiptTTL = 2
  ActionTimeout = 2
  MaxTime = 3
  MaxBoots = 2
SPECIFICATION FairSpec
CONSTRAINT MeetUndisturbed
INVARIANTS ActionAlone OneActionPerReceipt BoundToGrant WithinDeadlines
PROPERTIES LockComesFree

CONSTANTS
  Proc = {p1, p2}
  Profile = {f1}
  Ledger = {l1}
  LedgerOf <- SharedLedger
  Nonce = {n1}
  None = None
  TTL = 1
  MaxAge = 1
  ReplugTTL = 0
  MaxTime = 3
  MaxPlugs = 2
  MaxTicks = 1
SPECIFICATION Spec
SYMMETRY Symmetry
INVARIANTS WriteOnRecord PassMeansReplug OneReportPerToken
PROPERTIES LedgerTicketSpec

CONSTANTS
  c1 = c1
  Clients = {c1}
  MaxEdits = 2
  MaxOutside = 1
  MaxOpens = 3
  MaxLosses = 1
  MaxReceipts = 1
  Gaps = {"capture", "late"}
SPECIFICATION FairSpec
INVARIANT NoSelfConflict
INVARIANT EpochsStayApart
PROPERTY EditsAreSettled
PROPERTY TabsConverge
CHECK_DEADLOCK FALSE

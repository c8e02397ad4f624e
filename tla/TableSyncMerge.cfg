CONSTANTS
  c1 = c1
  c2 = c2
  Clients = {c1, c2}
  MaxEdits = 3
  MaxOutside = 0
  MaxOpens = 3
  MaxLosses = 0
  MaxReceipts = 1
  Gaps = {}
SPECIFICATION Spec
SYMMETRY Symmetry
INVARIANT ExclusiveIsSerial
INVARIANT ViewIsAtItsRevision
INVARIANT CleanIsCommitted
INVARIANT NoEditLost
CHECK_DEADLOCK FALSE

CONSTANTS
  Docs = {d1, d2}
  Collections = {k1, k2}
  NoDoc = NoDoc
  NoCollection = NoCollection
SPECIFICATION OverlapSpec
INVARIANT AcyclicPresent
CHECK_DEADLOCK FALSE

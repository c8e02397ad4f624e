CONSTANTS
  MaxEdits = 2
  MaxLoads = 3
  MaxClients = 2
  MaxFaults = 2
  MaxFailures = 2
  Requests = {q1, q2}
  Stores = {s1, s2}
SPECIFICATION FairSpec
INVARIANT ApiEditsAreSynced
INVARIANT NoApiEditLost
INVARIANT NoSessionEditLost
PROPERTY EditsAreStored
CHECK_DEADLOCK FALSE

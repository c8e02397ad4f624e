CONSTANTS
  MaxEdits = 2
  MaxLoads = 1
  MaxClients = 1
  MaxFaults = 0
  MaxFailures = 1
  Requests = {q1}
  Stores = {s1}
SPECIFICATION Spec
INVARIANT StoresKeepApiEdits
CHECK_DEADLOCK FALSE

CONSTANTS
  MaxSnapshots = 2
  MaxViews = 3
  Faults = {"open", "read", "write", "peek", "quota", "outage", "clock"}
SPECIFICATION FairSpec
INVARIANT RecoversLatest
INVARIANT FlushedIsStored
PROPERTY NothingResurrects
PROPERTY FlushEnds
CHECK_DEADLOCK FALSE

CONSTANTS
  Clients = {c1, c2}
  Servers = {s1, s2}
  Movers = {c1}
  MaxSockets = 2
  MaxWatches = 2
  MaxMoves = 4
  MaxTasks = 1
  MaxFaults = 1
SPECIFICATION FairSpec
INVARIANT NoGhostWatch
INVARIANT NoMissedChange
PROPERTY RosterConverges
PROPERTY RevokedLeave
CHECK_DEADLOCK FALSE

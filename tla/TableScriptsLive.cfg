CONSTANTS
  Scripts = {s1, s2}
  MaxRuns = 2
  Txns = {t1}
  Workers = {w1}
  Concurrency = 1
  MaxQueue = 2
  MaxOccurrences = 0
  MaxDeleted = 0
SPECIFICATION FairSpec
INVARIANT CancelledIsStopped
INVARIANT RowAgrees
PROPERTY FinalIsFinal
PROPERTY QueuedIsServed
PROPERTY ActiveEnds
CHECK_DEADLOCK FALSE

CONSTANTS
  Scripts = {s1, s2, s3}
  MaxRuns = 3
  Txns = {t1, t2}
  Workers = {}
  Concurrency = 1
  MaxQueue = 2
  MaxOccurrences = 1
  MaxDeleted = 3
SPECIFICATION Spec
SYMMETRY Symmetry
INVARIANT OneActiveRunPerScript
INVARIANT QueueBounded
INVARIANT ScheduledOncePerOccurrence
CHECK_DEADLOCK FALSE

CONSTANTS
  Ids = {i1, i2}
  Concurrency = 2
SPECIFICATION FairSpec
INVARIANT StartedAtMostOnce
INVARIANT ReportedIsTerminated
PROPERTY FirstStatusWins
PROPERTY EveryExecutionEnds
PROPERTY EveryStopIsAnswered
PROPERTY ImplementsExecution

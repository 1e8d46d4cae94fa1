\* Both modes; two workers, both of which may die; a queue of two; five items.
SPECIFICATION FairSpec
CONSTANTS
  Size = 2
  Jobs = 5
  MaxBatch = 4
  QueueMax = 2
  MaxDeaths = 2
INVARIANTS OneJobEach NoWorkerForgotten QueuesAreExact
PROPERTY Answered
CHECK_DEADLOCK FALSE

\* Without compression failures, finish always returns and no pushToQueue
\* blocks for ever.  The threads stop once finish has returned, so a stop
\* is not an error by itself; a stop anywhere else violates a property.
CONSTANTS
  w1 = w1
  w2 = w2
  Nil = Nil
  Workers <- MCWorkers
  QueueCap = 1
  ChunkLimit = 2
  ItemSizes = {0, 1, 2}
  MaxItems = 3
  NbHandlers = 1
  CanFail = FALSE
  NbWorkerValues = {2}

SPECIFICATION FairSpec
CHECK_DEADLOCK FALSE

PROPERTY FinishTerminates
PROPERTY PushCompletes

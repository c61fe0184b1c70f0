\* With compression tasks that may throw, and a caller that eventually
\* calls finishZimCreation, the worker and writer threads are not all
\* stopped: either checkError throws on entry and nothing stops them, or
\* the writer waits for ever on the failed cluster.
CONSTANTS
  w1 = w1
  w2 = w2
  Nil = Nil
  Workers <- MCWorkers
  QueueCap = 1
  ChunkLimit = 2
  ItemSizes = {0, 1, 2}
  MaxItems = 3
  NbHandlers = 1
  CanFail = TRUE
  NbWorkerValues = {2}

SPECIFICATION FairCallerSpec
\* The caller's thread stops for good once checkError has thrown.
CHECK_DEADLOCK FALSE

PROPERTY ThreadsEventuallyStop

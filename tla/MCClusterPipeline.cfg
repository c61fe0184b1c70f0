\* Safety of the pipeline, with compression tasks that may throw.
\* A thrown task can leave the producer or finish blocked for ever (see
\* MCClusterPipelineFail.cfg), so such states are not reported as deadlocks.
CONSTANTS
  w1 = w1
  w2 = w2
  Nil = Nil
  Workers <- MCWorkers
  QueueCap = 2
  ChunkLimit = 2
  ItemSizes = {0, 1, 2}
  MaxItems = 3
  NbHandlers = 1
  CanFail = TRUE
  NbWorkerValues = {2}

SPECIFICATION Spec
CHECK_DEADLOCK FALSE

INVARIANT TypeOK
INVARIANT ClusterPacking
INVARIANT ArchiveConsistent
PROPERTY SinkRefinement

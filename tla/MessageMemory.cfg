CONSTANTS
  Queues = {q1, q2}
  Chunks = {k1, k2, k3, k4}
  ChunkSize = 3
  PoolCapacity = 1
  MaxUnread = 2
  ParallelFlush = FALSE
  None = None
SPECIFICATION Spec
INVARIANTS
  LastReadStillAllocated
  ChunkInOnePlace
  PoolWithinCapacity
PROPERTIES
  QueuesDeliver
CHECK_DEADLOCK FALSE

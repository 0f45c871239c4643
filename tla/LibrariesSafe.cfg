\* The libraries, each with two or three concurrent users.
SPECIFICATION Spec
CONSTANTS
  Callers = {c1, c2}
  Files <- MCFiles
  Users = {u1, u2}
  Connections = 11
  WorkerSlots = 1
  QueueSlots = 1
  PoolCapacity = 1
  Latencies = {0, 1}
  MaxLatency = 1
  MaxScalings = 1
  MaxEmptyDequeues = 1
  Jobs = {j1, j2}
  Priorities = {"high", "low"}
  WorkerIds = {w1, w2}
  BufferSize = 1
  MaxConcurrency = 2
  ScalingAlgorithm = "linear"
  MaxRetries = 1
  MaxStarts = 2
  MaxClosedReads = 1
  Cancellers = {k1, k2}
  Bands = 3
  Loaders = {l1, l2}
  Packages <- MCPackages
  MaxRetryAttempts = 2
CHECK_DEADLOCK FALSE
INVARIANTS LoaderConsistent SlotsConsistent JobsConsistent ExecutionConsistent RegistryConsistent
PROPERTY EveryJobEnds

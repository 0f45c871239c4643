\* Up to three bands, two samples each, with and without a warm-up.
SPECIFICATION FairSpec
CONSTANTS
  MaxBands = 3
  NumSamples = 2
  Connections = 2
  OwnConnections = 1
INVARIANTS
  PoolsDoNotOverlap
  SuccessCoversSequence
  FailedWorkloadFailsTest
PROPERTY MainReturns
\* The process exits when run() returns.
CHECK_DEADLOCK FALSE

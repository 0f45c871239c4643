\* Every plugin in every mode, started again and again, with two workers.
SPECIFICATION WorkloadsSpec
CONSTANTS
  Workers = {w1, w2}
  PoolSize = 2
  LockRows = {1, 2}
  MaxFaults = 1
  MaxOperations = 2
INVARIANTS PreparedRunsFindTheirRows AllOrNothing RebuildRecovers TpccNeverDeadlocks OperationsProceed

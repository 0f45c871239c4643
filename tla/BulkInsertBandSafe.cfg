\* Two bands with two consumers each, and a buffer that is full at times.
SPECIFICATION FairSpec
CONSTANTS
  Producers = {p1, p2}
  Workers = {w1, w2}
  Capacity = 2
  BatchSize = 2
  Bands = 2
  MaxRecords = 3
INVARIANTS RecordsAreAccountedFor BandsMixByABatch
PROPERTY BandsEnd
CHECK_DEADLOCK FALSE

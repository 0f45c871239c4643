\* Some limits, and three bands asked for.
SPECIFICATION Spec
CONSTANTS
  MaxLimit = 6
  StepSizes = {0, 2}
  BandCounts = {3}
  Rounding = {0}
INVARIANT AsManyBandsAsConfigured
CHECK_DEADLOCK FALSE

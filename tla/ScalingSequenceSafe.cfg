\* Every configuration with limits up to 6, with and without steps and bands.
SPECIFICATION FairSpec
CONSTANTS
  MaxLimit = 6
  StepSizes <- MCStepSizes
  BandCounts <- MCBandCounts
  Rounding = {0, 1}
INVARIANTS WithinLimits BandsGrow ReachesItsGoal
PROPERTY Terminates
CHECK_DEADLOCK FALSE

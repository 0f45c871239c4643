\* Three callers race one another, the timeout and Reset.
SPECIFICATION FairSpec
CONSTANTS
  Callers = {c1, c2, c3}
  MaxFailures = 2
  HalfOpenLimit = 2
  Modulus = 2
INVARIANTS CountersFitState RequestsAddUp
PROPERTIES OpenHolds RecoversWhenHealthy

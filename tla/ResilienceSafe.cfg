\* Three callers of a breaker race one another, the timeout and Reset; two routines beside the tracker.
SPECIFICATION ResilienceSpec
CONSTANTS
  Callers = {c1, c2, c3}
  MaxFailures = 2
  HalfOpenMaxReqs = 2
  MaxRequests = 10
  Routines = {r1, r2}
  MaxFiles = 2
  TotalBands = 2
  MaxStamps = 5
  MaxFaults = 1
SYMMETRY Symmetry
INVARIANTS CountersFitState AckedIsKept
PROPERTY ChangesOfState
CHECK_DEADLOCK FALSE

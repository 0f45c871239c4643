\* One Start; Submits race one another and two Shutdowns.
SPECIFICATION FairSpec
CONSTANTS
  Jobs = {j1, j2, j3}
  UrgentJobs = {u1}
  Workers = {w1, w2}
  Callers = {s1, s2}
  BufferSize = 1
  Outcomes = {"ok", "panic", "nil"}
  MaxStarts = 1
INVARIANTS AcceptedJobsAreTracked GracefulShutdownDrains ResultsClosedLast
PROPERTY ShutdownReturns
CHECK_DEADLOCK FALSE

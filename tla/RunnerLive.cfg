SPECIFICATION FairSpec
CONSTANTS
  j1 = j1  j2 = j2  j3 = j3  c1 = c1  c2 = c2
  NoJob = NoJob  External = External
  Jobs <- MCJobs2
  Callers <- MCCallers1
  MaxWorkers = 1
  QueueSize = 1
  MaxGen = 2
CHECK_DEADLOCK FALSE
PROPERTIES CancelShutdownReturns CommittedSettles

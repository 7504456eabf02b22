SPECIFICATION FairSpec
CONSTANTS
  t1 = t1  t2 = t2  j1 = j1  j2 = j2  j3 = j3  r1 = r1
  None = None
  Tasks <- MCTasks1
  Jobs <- MCJobs3
  Replicas <- MCReplicas0
  Capacity = 2
  MaxRunning = 2
  MayFail = TRUE
  MayCrash = TRUE
  Hurried = FALSE
  OldFile = FALSE
INVARIANTS TypeOK NotForgotten OneExecution UnfinishedHasJob
PROPERTIES SavedResultStays InterruptedNeverStarts TaskSettles

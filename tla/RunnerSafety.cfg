SPECIFICATION Spec
CONSTANTS
  j1 = j1  j2 = j2  j3 = j3  c1 = c1  c2 = c2
  NoJob = NoJob  External = External
  Jobs <- MCJobs3
  Callers <- MCCallers2
  MaxWorkers = 1
  QueueSize = 1
  MaxGen = 2
SYMMETRY MCSymmetry
CHECK_DEADLOCK FALSE
INVARIANTS TypeOK AdmissionExact PendingIsCommittable ConcurrencyBound ExactlyOnce JoinExact
PROPERTIES LedgerSpec QuietReturn

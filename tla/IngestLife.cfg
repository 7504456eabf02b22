SPECIFICATION FairSpec
CONSTANTS
  Workers = {w1, w2}
  None = none
  Total = 3
  RTs <- McRTs
  Managed <- McManaged
  ChunkSize = 2
  SyncAfter = TRUE
  MaxFailures = 2
  MaxEvents = 3
INVARIANTS TypeOK SavedMeansStored CompletedExact SyncExact
PROPERTIES CheckpointsAdvance ResultsStand NoSecondExchange JobEnds
CHECK_DEADLOCK FALSE

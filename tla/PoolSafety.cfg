SPECIFICATION Spec
CONSTANTS
  Replicas = {r1, r2}
  Tokens = {a, b}
  MaxAttempts = 2
  MaxEvents = 3
SYMMETRY Alike
CONSTRAINT OneRefresh
INVARIANTS TypeOK CountedOnce RevisionHonest
PROPERTIES ResultsNeverDrop NoResurrection CredentialsMove
CHECK_DEADLOCK FALSE

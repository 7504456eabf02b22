SPECIFICATION Spec
CONSTANTS
  Replicas = {r1, r2}
  Tokens = {a}
  MaxAttempts = 2
  MaxEvents = 3
SYMMETRY Alike
CONSTRAINT OneRefresh
PROPERTIES ResultsSurviveRefresh
CHECK_DEADLOCK FALSE

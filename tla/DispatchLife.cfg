SPECIFICATION FairSpec
CONSTANTS
  Requests = {r1, r2}
  Accounts = {a1, a2}
  Renewed = {a1}
  MaxVersion = 3
  Limit = 1
  MaxAttempts = 2
  MaxRotations = 2
  MaxEvents = 1
INVARIANTS TypeOK SlotsExact
PROPERTIES NoReselect RequestEnds

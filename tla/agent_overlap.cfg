SPECIFICATION FairSpec
CONSTANTS
  Runs = {r1, r2}
  MaxSteps = 2
  None = None
INVARIANTS
  TypeOK
PROPERTIES
  KeepsPromise
  StopEndsWait
CHECK_DEADLOCK FALSE

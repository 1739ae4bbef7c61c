SPECIFICATION FairSpec
CONSTANTS
  Runs = {r1}
  MaxSteps = 2
  None = None
PROPERTIES
  StoppedRunEnds
CHECK_DEADLOCK FALSE

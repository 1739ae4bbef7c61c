SPECIFICATION FairSpec
CONSTANTS
  s1 = s1
  rm = rm
  vi = vi
  NRuns = 2
  Sessions = {s1}
  TargetOf <- OneSession
  Commands = {rm, vi}
  KindOf <- Kind
  Settings <- SomeSettings
  MaxSteps = 2
  None = None
INVARIANTS
  TypeOK
  StopReachesRun
PROPERTIES
  KeepsPromise
  RunEnds

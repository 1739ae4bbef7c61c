SPECIFICATION FairSpec
CONSTANTS
  c1 = c1
  c2 = c2
  h1 = h1
  Checks = {c1, c2}
  HostOf <- SameHost
  Keys = {k1, k2}
  None = None
INVARIANTS
  TypeOK
  NoPromptLost
  NoDeadPrompt
PROPERTIES
  TrustIsVerified
  KeepsPromise
  CheckEnds
  DialogMovesOn
CHECK_DEADLOCK FALSE

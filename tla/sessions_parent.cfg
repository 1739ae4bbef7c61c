SPECIFICATION FairSpec
CONSTANTS
  Owners = {o1}
  Execs = {e1}
  Fwds = {f1}
  Dir <- LocalOnly
  MaxData = 0
  NoOne = NoOne
INVARIANTS
  TypeOK
  OrphanHasNoTransport
  NoLockCycle
PROPERTIES
  KeepsPromise
  DisconnectReturns
  ChildShellEnds
CHECK_DEADLOCK FALSE

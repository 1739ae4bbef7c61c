SPECIFICATION Spec
CONSTANTS
  Owners = {o1, o2}
  Execs = {}
  Fwds = {f1}
  Dir <- RemoteOnly
  MaxData = 1
  NoOne = NoOne
INVARIANTS
  NoLockCycle
PROPERTIES
  KeepsPromise
  CarriedWasManual
CHECK_DEADLOCK FALSE

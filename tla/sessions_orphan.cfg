SPECIFICATION Spec
CONSTANTS
  Owners = {o1}
  Execs = {e1}
  Fwds = {f1}
  Dir <- LocalOnly
  MaxData = 0
  NoOne = NoOne
INVARIANTS
  ChildrenGoWithParent
CHECK_DEADLOCK FALSE

SPECIFICATION Spec
CONSTANTS
  Attempts = {a1, a2, a3}
  N = 2
  NoHandle = NoHandle
SYMMETRY AnyAttempt
INVARIANTS
  TypeOK
  ChainsAreUnbroken
  OwnCredentials
PROPERTIES
  KeepsCustody
  FailureCanResume
CHECK_DEADLOCK FALSE

SPECIFICATION FairSpec
CONSTANTS
  Tabs = {t1}
  Limits = {0, 2}
  MaxFlights = 2
  None = None
INVARIANTS
  TypeOK
  TimerHasEntry
  NoStuckRetry
  OpenedIsShown
  DeadTabHasNews
PROPERTIES
  KeepsPromise
  RetryEnds
CHECK_DEADLOCK FALSE

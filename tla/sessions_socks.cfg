SPECIFICATION FairSpec
CONSTANTS
  Owners = {o1}
  Execs = {}
  Fwds = {f1}
  Dir <- SocksOnly
  MaxData = 0
  NoOne = NoOne
PROPERTIES
  DisconnectAlwaysReturns
CHECK_DEADLOCK FALSE

SPECIFICATION RelaySpec
CONSTANTS
  NumConns = 2
  Requests = {r1}
  NoConn = NoConn
  MaxStarts = 1
  MaxDrops = 2
INVARIANTS
  RelayTypeOK
  NobodyWaitsInVain
  NewestIsOnline
  StoppedIsQuiet
  OnlyChannelIsHeard
PROPERTIES
  RequestsEnd
  
CHECK_DEADLOCK FALSE

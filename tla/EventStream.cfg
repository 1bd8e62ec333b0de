SPECIFICATION FairStreamSpec
CONSTANTS
  s1 = s1
  s2 = s2
  c1 = c1
  NoStream = NoStream
  Streams = {s1, s2}
  Clients = {c1}
  Responsive = {c1}
  Payloads <- MCPayloads
  SubCap = 1
  WireCap = 1
  RingMax = 1
  MaxEvents = 2
INVARIANTS
  StreamTypeOK
  DeliveryInv
  DrainedIsComplete
  RingAccounting
PROPERTIES
  WireConsecutive
  ImplementsLog
  ExitReachesClient
CHECK_DEADLOCK FALSE

SPECIFICATION FairStreamSpec
CONSTANTS
  s1 = s1
  c1 = c1
  NoStream = NoStream
  Streams = {s1}
  Clients = {c1}
  Responsive = {c1}
  Payloads <- MCPayloads
  SubCap = 1
  WireCap = 1
  RingMax = 1
  MaxEvents = 4
PROPERTY
  DetachedStreamEnds
CHECK_DEADLOCK FALSE

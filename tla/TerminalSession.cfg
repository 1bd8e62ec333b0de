SPECIFICATION FairSpec
CONSTANTS
  s1 = s1
  c1 = c1
  NoStream = NoStream
  Texts <- MCTexts
  MaxOut = 3
  PtyCap = 1
  ReadMax = 1
  ChunkCap = 1
  BatchMax = 1
  CarryMax = 3
  Streams = {s1}
  Clients = {c1}
  Responsive = {}
  Payloads <- MCPayloads
  SubCap = 1
  WireCap = 1
  RingMax = 2
  MaxEvents = 3
INVARIANTS
  HandOver
  EventsMatchOutput
  ScreenIsOutput
PROPERTIES
  ExitPublished
CHECK_DEADLOCK FALSE

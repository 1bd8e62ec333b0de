SPECIFICATION FairPumpSpec
CONSTANTS
  Texts <- MCTexts
  MaxOut = 5
  PtyCap = 2
  ReadMax = 2
  ChunkCap = 1
  BatchMax = 2
  CarryMax = 3
INVARIANTS
  PumpTypeOK
  PipelineInOrder
  ValidTextSurvives
  EventsAreWellFormed
  BuffersBounded
PROPERTIES
  NothingAfterExit
  ExitReported
CHECK_DEADLOCK FALSE

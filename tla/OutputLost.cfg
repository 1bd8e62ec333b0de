SPECIFICATION PumpSpec
CONSTANTS
  Texts <- MCTexts
  MaxOut = 5
  PtyCap = 2
  ReadMax = 2
  ChunkCap = 1
  BatchMax = 2
  CarryMax = 3
INVARIANT ExitShowsEverything
CHECK_DEADLOCK FALSE

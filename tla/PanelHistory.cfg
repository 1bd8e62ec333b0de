SPECIFICATION HistorySpec
CONSTANTS
  Ids = {p1, p2}
  Contents <- MCContents
  NoPanel = NoPanel
  MaxX = 1
  MaxEvents = 3
  MaxHistory = 4
  MaxRedo = 2
  MaxUndos = 2
  MaxFaults = 1
INVARIANTS
  HistoryTypeOK
  RevisionsOrdered
  PanelIdsUnique
SYMMETRY MCSymmetry
PROPERTIES
  UndoTakesBackLastEdit
  RedoInvertsUndo
CHECK_DEADLOCK FALSE

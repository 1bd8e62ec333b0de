SPECIFICATION Spec
CONSTANTS
  Clients = {c1, c2}
  Panels = {p1, p2}
  OldBoards <- MCOldBoards
  OldId = 3
  MaxId = 6
  MaxFaults = 0
SYMMETRY Symmetry
INVARIANTS
  RevisionIsChecked

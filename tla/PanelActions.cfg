SPECIFICATION Spec
CONSTANTS
  Clients = {c1, c2}
  PanelTypes <- MCPanelTypes
  Ids = {1, 2}
  GivenTables <- MCGivenTables
  MaxItems = 2
  MaxRequests = 4
SYMMETRY Symmetry
INVARIANTS
  CardsStayInTheirColumn
  RowsFitColumns
  MarkersAgree

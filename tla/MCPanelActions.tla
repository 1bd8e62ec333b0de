--------------------------- MODULE MCPanelActions ---------------------------
EXTENDS PanelActions

(* A table whose rows fit, one whose row misses a cell and holds a text in *)
(* a number column, and one with two columns of one id.                    *)
MCGivenTables ==
  {[columns |-> <<[id |-> 1, type |-> "number"]>>,
    rows |-> <<[id |-> 1, by |-> "set", cells |-> 1 :> "number"]>>],
   [columns |-> <<[id |-> 1, type |-> "number"], [id |-> 2, type |-> "text"]>>,
    rows |-> <<[id |-> 2, by |-> "set", cells |-> 1 :> "text"]>>],
   [columns |-> <<[id |-> 1, type |-> "number"], [id |-> 1, type |-> "text"]>>,
    rows |-> << >>]}

MCPanelTypes ==
  {"board.kanban", "board.checklist", "board.playlist", "board.files", "board.filetree",
   "board.setup_guide", "board.timer", "board.chat", "board.table", "board.calendar",
   "board.chart"}

Symmetry == Permutations(Clients)
=============================================================================

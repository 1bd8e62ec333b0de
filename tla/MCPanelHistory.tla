--------------------------- MODULE MCPanelHistory ---------------------------
EXTENDS PanelHistory

(* A client changes the title and may put a panel back to the left; group  *)
(* moves take it to the right, creates and redos to the top.               *)
MCContents == [title : {0, 1}, x : {0}, zIndex : {1}]

(* No operation tells one id from another.                                 *)
MCSymmetry == Permutations(Ids)

=============================================================================

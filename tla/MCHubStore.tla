------------------------------ MODULE MCHubStore ------------------------------
EXTENDS HubStore

(* A new data directory, and one with a board of two panels, a link and a  *)
(* group.                                                                  *)
MCOldBoards ==
  {<< >>,
   <<[id |-> 1, revision |-> 1, archived |-> FALSE, panels |-> Panels,
      links |-> 2 :> Panels, groups |-> 3 :> Panels]>>}

Symmetry == Permutations(Clients) \union Permutations(Panels)
===============================================================================

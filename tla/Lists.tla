------------------------------- MODULE Lists -------------------------------
(***************************************************************************)
(* What the models need of lists beyond the community modules: the part of *)
(* a list at given places.  Places, not a predicate, so that facts about   *)
(* it can be proved (Lists_proofs).                                        *)
(***************************************************************************)
EXTENDS Integers, Sequences, SequencesExt

(* The elements of list at the places in places, in their order.           *)
Sublist(list, places) ==
  FlattenSeq([n \in 1 .. Len(list) |->
                IF n \in places THEN <<list[n]>> ELSE <<>>])
=============================================================================

---------------------------- MODULE MCOutputPump ----------------------------
(* OutputPump on every text of MaxOut bytes in which no character is       *)
(* longer than four bytes.                                                 *)
EXTENDS OutputPump

MCTexts ==
  {f \in [1 .. MaxOut -> ByteKind] :
     \A n \in 1 .. MaxOut - 3 : \E m \in n .. n + 3 : f[m] # "mid"}
=============================================================================

------------------------- MODULE MCTerminalSession -------------------------
(* TerminalSession on two short texts, one with a two-byte character.      *)
EXTENDS TerminalSession

MCTexts == {[n \in 1 .. MaxOut |-> "end"],
            [n \in 1 .. MaxOut |-> IF n = 2 THEN "mid" ELSE "end"]}

(* Runs of bytes as long as the pump's buffers allow.                      *)
MCPayloads == BoundedSeq(1 .. MaxOut, BatchMax + ReadMax + CarryMax)
=============================================================================

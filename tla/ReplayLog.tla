----------------------------- MODULE ReplayLog -----------------------------
(***************************************************************************)
(* What a terminal session promises the clients that watch it, with no     *)
(* ring, no channel and no connection: the session appends numbered        *)
(* records to a log, old records may be trimmed, the exit record closes    *)
(* the log, and every reader moves forward through it one record at a      *)
(* time, jumping only over records that have been trimmed.                 *)
(*                                                                         *)
(* It states the comments of session.go ("Output is NEVER dropped") and    *)
(* of runtime_terminal_client.dart ("never deliver the same event twice")  *)
(* as one machine; EventStream.tla is shown to implement it.               *)
(***************************************************************************)
EXTENDS Integers

CONSTANT Readers

VARIABLES
  last,       \* number of the newest record
  closed,     \* the newest record is the exit record: nothing follows
  trimmed,    \* records 1..trimmed can no longer be replayed
  position    \* position[r]: number of the last record reader r consumed

logVars == <<last, closed, trimmed, position>>

LogInit ==
  /\ last = 0
  /\ closed = FALSE
  /\ trimmed = 0
  /\ position = [r \in Readers |-> 0]

LogAppend ==
  /\ ~closed
  /\ last' = last + 1
  /\ UNCHANGED <<closed, trimmed, position>>

LogClose ==
  /\ ~closed
  /\ last' = last + 1
  /\ closed' = TRUE
  /\ UNCHANGED <<trimmed, position>>

(* Only output is trimmed, never the exit record.                          *)
LogTrim ==
  /\ trimmed < last
  /\ ~closed
  /\ trimmed' = trimmed + 1
  /\ UNCHANGED <<last, closed, position>>

(* A reader consumes record n: the one after its position, or a later one  *)
(* if everything in between has been trimmed.                              *)
LogRead(r, n) ==
  /\ position[r] < n
  /\ n <= last
  /\ n = position[r] + 1 \/ n - 1 <= trimmed
  /\ position' = [position EXCEPT ![r] = n]
  /\ UNCHANGED <<last, closed, trimmed>>

LogNext ==
  \/ LogAppend
  \/ LogClose
  \/ LogTrim
  \/ \E r \in Readers : \E n \in 1 .. last : LogRead(r, n)

LogSpec == LogInit /\ [][LogNext]_logVars
=============================================================================

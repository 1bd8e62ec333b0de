----------------------------- MODULE OutputPump -----------------------------
(***************************************************************************)
(* The path of a program's output through one terminal session of yoloitd, *)
(* from the program's write to emitOutput (session/session.go): the kernel *)
(* PTY buffer, the reader goroutine, the chunks channel, the publisher     *)
(* goroutine that batches and keeps whole UTF-8 characters, and waitLoop,  *)
(* which closes the PTY when the program has exited and reports the exit   *)
(* once the publisher is done.                                             *)
(*                                                                         *)
(* Abstractions.  The n-th byte the program writes is the number n; what   *)
(* kind of byte it is (inside a character, the last of a character, not    *)
(* UTF-8 at all) is chosen initially.  The 10 ms coalescing timer may fire *)
(* at any time.  emitOutput blocks until every subscriber has taken the    *)
(* event: here it returns at some point, in TerminalSession when           *)
(* EventStream has published it.                                           *)
(***************************************************************************)
EXTENDS Integers, Sequences, SequencesExt, Lists

CONSTANTS
  Texts,      \* the byte streams a program may print
  MaxOut,     \* bound: bytes the program writes
  PtyCap,     \* bytes the kernel buffers before the program blocks
  ReadMax,    \* readChunkBytes
  ChunkCap,   \* capacity of the chunks channel
  BatchMax,   \* maxBatchBytes
  CarryMax    \* maxCarryBytes

ByteKind == {"mid", "end", "bad"}

ASSUME PumpAssumption ==
  /\ MaxOut \in Nat /\ PtyCap \in Nat \ {0} /\ ReadMax \in Nat \ {0}
  /\ ChunkCap \in Nat \ {0} /\ BatchMax \in Nat \ {0}
  /\ CarryMax \in Nat /\ CarryMax >= 3
  /\ Texts \subseteq [1 .. MaxOut -> ByteKind]
  /\ \A f \in Texts : \A n \in 1 .. MaxOut - 3 : \E m \in n .. n + 3 : f[m] # "mid"

VARIABLES
  text,       \* text[n]: the kind of the n-th byte
  running,    \* the program has not exited
  written,    \* bytes the program has written
  ptyBuf,     \* bytes in the kernel, not yet read
  ptyOpen,    \* waitLoop has not closed the master
  reader,     \* where the reader goroutine stands
  held,       \* the chunk it has read and not yet sent
  chunks,     \* the chunks channel
  publisher,  \* where the publisher goroutine stands
  batch,      \* the batch it collects
  carry,      \* bytes of the last character kept for the next batch
  out,        \* history: data of the events emitted, in order
  dropped,    \* history: bytes sanitising has thrown away
  waiter      \* where waitLoop stands

pumpVars == <<text, running, written, ptyBuf, ptyOpen, reader, held, chunks,
              publisher, batch, carry, out, dropped, waiter>>

PumpInit ==
  /\ text \in Texts
  /\ running = TRUE
  /\ written = 0
  /\ ptyBuf = <<>>
  /\ ptyOpen = TRUE
  /\ reader = "reading"
  /\ held = <<>>
  /\ chunks = <<>>
  /\ publisher = "idle"
  /\ batch = <<>>
  /\ carry = <<>>
  /\ out = <<>>
  /\ dropped = {}
  /\ waiter = "waiting"

-----------------------------------------------------------------------------
(* The program (external) and the PTY.                                     *)

ProgramWrite ==
  /\ running
  /\ written < MaxOut
  /\ Len(ptyBuf) < PtyCap
  /\ written' = written + 1
  /\ ptyBuf' = Append(ptyBuf, written + 1)
  /\ UNCHANGED <<text, running, ptyOpen, reader, held, chunks, publisher,
                 batch, carry, out, dropped, waiter>>

(* It exits by itself or is killed.                                        *)
ProgramExit ==
  /\ running
  /\ running' = FALSE
  /\ UNCHANGED <<text, written, ptyBuf, ptyOpen, reader, held, chunks,
                 publisher, batch, carry, out, dropped, waiter>>

-----------------------------------------------------------------------------
(* The reader goroutine of readLoop.                                       *)

(* Read returns what the kernel has, at most the size of the buffer.       *)
ReadPty ==
  /\ reader = "reading"
  /\ ptyOpen
  /\ ptyBuf # <<>>
  /\ LET n == IF Len(ptyBuf) < ReadMax THEN Len(ptyBuf) ELSE ReadMax
     IN /\ held' = SubSeq(ptyBuf, 1, n)
        /\ ptyBuf' = SubSeq(ptyBuf, n + 1, Len(ptyBuf))
  /\ reader' = "sending"
  /\ UNCHANGED <<text, running, written, ptyOpen, chunks, publisher, batch,
                 carry, out, dropped, waiter>>

(* Faulty variant: the goroutine tries again after an error.               *)
ReadErrorRetry ==
  /\ reader = "reading"
  /\ ~ptyOpen \/ (~running /\ ptyBuf = <<>>)
  /\ UNCHANGED pumpVars

(* Read fails: the program is gone and its output is read, or the master   *)
(* is closed, read or not.  The goroutine closes chunks.                   *)
ReadError ==
  /\ reader = "reading"
  /\ ~ptyOpen \/ (~running /\ ptyBuf = <<>>)
  /\ reader' = "done"
  /\ UNCHANGED <<text, running, written, ptyBuf, ptyOpen, held, chunks,
                 publisher, batch, carry, out, dropped, waiter>>

(* Faulty variant: the channel gets the buffer itself, not a copy.         *)
SendChunkShared ==
  /\ reader = "sending"
  /\ Len(chunks) < ChunkCap
  /\ chunks' = Append(chunks, held)
  /\ reader' = "reading"
  /\ UNCHANGED <<text, running, written, ptyBuf, ptyOpen, held, publisher,
                 batch, carry, out, dropped, waiter>>

(* chunks <- a copy of the buffer: blocks while the channel is full.       *)
SendChunk ==
  /\ reader = "sending"
  /\ Len(chunks) < ChunkCap
  /\ chunks' = Append(chunks, held)
  /\ held' = <<>>
  /\ reader' = "reading"
  /\ UNCHANGED <<text, running, written, ptyBuf, ptyOpen, publisher, batch,
                 carry, out, dropped, waiter>>

-----------------------------------------------------------------------------
(* The publisher goroutine of readLoop.                                    *)

(* for batch := range chunks                                               *)
TakeChunk ==
  /\ publisher = "idle"
  /\ chunks # <<>>
  /\ batch' = Head(chunks)
  /\ chunks' = Tail(chunks)
  /\ publisher' = "draining"
  /\ UNCHANGED <<text, running, written, ptyBuf, ptyOpen, reader, held, carry,
                 out, dropped, waiter>>

(* Faulty variant: the coalescing loop does not look at the batch size.    *)
TakeMoreUnbounded ==
  /\ publisher = "draining"
  /\ chunks # <<>>
  /\ batch' = batch \o Head(chunks)
  /\ chunks' = Tail(chunks)
  /\ UNCHANGED <<text, running, written, ptyBuf, ptyOpen, reader, held,
                 publisher, carry, out, dropped, waiter>>

(* The coalescing loop receives one more chunk.                            *)
TakeMore ==
  /\ publisher = "draining"
  /\ Len(batch) < BatchMax
  /\ chunks # <<>>
  /\ batch' = batch \o Head(chunks)
  /\ chunks' = Tail(chunks)
  /\ UNCHANGED <<text, running, written, ptyBuf, ptyOpen, reader, held,
                 publisher, carry, out, dropped, waiter>>

(* First and last byte of the character byte u belongs to.                 *)
CharOf(u) ==
  LET bounds == {0} \cup {e \in 1 .. MaxOut : text[e] # "mid"}
      first  == CHOOSE b \in bounds : b < u /\ \A e \in bounds : e < u => e <= b
      after  == {e \in bounds : e >= u}
  IN  (first + 1) ..
      (IF after = {} THEN MaxOut + 1
       ELSE CHOOSE e \in after : \A f \in after : e <= f)

(* The character u belongs to is valid and lies within the bytes us.       *)
Whole(u, us) == CharOf(u) \subseteq us /\ \A v \in CharOf(u) : text[v] # "bad"

(* utf8.Valid on a stretch of the stream.                                  *)
WellFormed(p) == \A u \in ToSet(p) : Whole(u, ToSet(p))

(* Faulty variant: looks back one byte only.                               *)
ValidPrefixShort(p) ==
  LET lens == {n \in 1 .. Len(p) :
                 n >= Len(p) - 1 /\ WellFormed(SubSeq(p, 1, n))}
  IN  IF lens = {} THEN 0 ELSE CHOOSE n \in lens : \A m \in lens : m <= n

(* validUTF8Prefix: the longest well-formed prefix, at most three bytes    *)
(* short of the whole; 0 when there is none.                               *)
ValidPrefix(p) ==
  LET lens == {n \in 1 .. Len(p) :
                 n >= Len(p) - 3 /\ WellFormed(SubSeq(p, 1, n))}
  IN  IF lens = {} THEN 0 ELSE CHOOSE n \in lens : \A m \in lens : m <= n

(* strings.ToValidUTF8(p, ""): the bytes of the whole characters of p.     *)
Sanitised(p) ==
  Sublist(p, {n \in DOMAIN p : Whole(p[n], ToSet(p))})

(* emitOutput(d); the publisher is busy until it returns.                  *)
Emit(d) == out' = Append(out, d) /\ publisher' = "publishing"

(* Faulty variant: emits the batch without looking for its last character. *)
PublishWhole ==
  LET combined == carry \o batch
  IN /\ publisher = "draining"
     /\ ValidPrefix(combined) > 0
     /\ Emit(combined)
     /\ carry' = <<>>
     /\ batch' = <<>>
     /\ UNCHANGED <<text, running, written, ptyBuf, ptyOpen, reader, held,
                    chunks, dropped, waiter>>

(* The batch has a well-formed prefix: emit it, keep the rest.             *)
PublishPrefix ==
  LET combined == carry \o batch
      n        == ValidPrefix(combined)
  IN /\ publisher = "draining"
     /\ n > 0
     /\ Emit(SubSeq(combined, 1, n))
     /\ carry' = SubSeq(combined, n + 1, Len(combined))
     /\ batch' = <<>>
     /\ UNCHANGED <<text, running, written, ptyBuf, ptyOpen, reader, held,
                    chunks, dropped, waiter>>

(* It has none and grows too long: emit what is valid, forget the rest.    *)
PublishSanitised ==
  LET combined == carry \o batch
      clean    == Sanitised(combined)
  IN /\ publisher = "draining"
     /\ ValidPrefix(combined) = 0
     /\ Len(combined) > CarryMax
     /\ Emit(clean)
     /\ dropped' = dropped \cup (ToSet(combined) \ ToSet(clean))
     /\ carry' = <<>>
     /\ batch' = <<>>
     /\ UNCHANGED <<text, running, written, ptyBuf, ptyOpen, reader, held,
                    chunks, waiter>>

(* Faulty variant: keeps the batch but forgets the carry before it.        *)
PublishNothingForgets ==
  LET combined == carry \o batch
  IN /\ publisher = "draining"
     /\ ValidPrefix(combined) = 0
     /\ Len(combined) <= CarryMax
     /\ carry' = batch
     /\ batch' = <<>>
     /\ publisher' = "idle"
     /\ UNCHANGED <<text, running, written, ptyBuf, ptyOpen, reader, held,
                    chunks, out, dropped, waiter>>

(* It has none: wait for more bytes.                                       *)
PublishNothing ==
  LET combined == carry \o batch
  IN /\ publisher = "draining"
     /\ ValidPrefix(combined) = 0
     /\ Len(combined) <= CarryMax
     /\ carry' = combined
     /\ batch' = <<>>
     /\ publisher' = "idle"
     /\ UNCHANGED <<text, running, written, ptyBuf, ptyOpen, reader, held,
                    chunks, out, dropped, waiter>>

(* chunks is closed and empty: flush the carry as it is.                   *)
FlushCarry ==
  /\ publisher = "idle"
  /\ chunks = <<>> /\ reader = "done"
  /\ carry # <<>>
  /\ Emit(carry)
  /\ carry' = <<>>
  /\ UNCHANGED <<text, running, written, ptyBuf, ptyOpen, reader, held, chunks,
                 batch, dropped, waiter>>

(* emitOutput returns.                                                     *)
PublishReturns ==
  /\ publisher = "publishing"
  /\ publisher' = "idle"
  /\ UNCHANGED <<text, running, written, ptyBuf, ptyOpen, reader, held, chunks,
                 batch, carry, out, dropped, waiter>>

(* readLoop returns: readDone is closed.                                   *)
ReadLoopEnds ==
  /\ publisher = "idle"
  /\ chunks = <<>> /\ reader = "done"
  /\ carry = <<>>
  /\ publisher' = "done"
  /\ UNCHANGED <<text, running, written, ptyBuf, ptyOpen, reader, held, chunks,
                 batch, carry, out, dropped, waiter>>

-----------------------------------------------------------------------------
(* waitLoop.                                                               *)

(* cmd.Wait returned: close the master at once, whatever is still unread.  *)
ClosePty ==
  /\ waiter = "waiting"
  /\ ~running
  /\ ptyOpen' = FALSE
  /\ waiter' = "closed"
  /\ UNCHANGED <<text, running, written, ptyBuf, reader, held, chunks,
                 publisher, batch, carry, out, dropped>>

(* Faulty variant: does not wait for readDone.                             *)
ReportExitEarly ==
  /\ waiter = "closed"
  /\ waiter' = "exited"
  /\ UNCHANGED <<text, running, written, ptyBuf, ptyOpen, reader, held, chunks,
                 publisher, batch, carry, out, dropped>>

(* readDone is closed: mark the session dead and publish the exit event.   *)
ReportExit ==
  /\ waiter = "closed"
  /\ publisher = "done"
  /\ waiter' = "exited"
  /\ UNCHANGED <<text, running, written, ptyBuf, ptyOpen, reader, held, chunks,
                 publisher, batch, carry, out, dropped>>

-----------------------------------------------------------------------------
Program == ProgramWrite \/ ProgramExit

Reader == ReadPty \/ ReadError \/ SendChunk

Collect == TakeChunk \/ TakeMore \/ PublishNothing \/ ReadLoopEnds

PublishOutput == PublishPrefix \/ PublishSanitised \/ FlushCarry

PumpNext ==
  \/ Program
  \/ Reader
  \/ Collect
  \/ PublishOutput
  \/ PublishReturns
  \/ ClosePty
  \/ ReportExit

PumpSpec == PumpInit /\ [][PumpNext]_pumpVars

(* The goroutines are scheduled, the coalescing timer fires and publish    *)
(* returns (TerminalSession checks that it does).  The program may print   *)
(* or wait as long as it likes.                                            *)
PumpFairness ==
  /\ WF_pumpVars(Reader)
  /\ WF_pumpVars(Collect \/ PublishOutput)
  /\ WF_pumpVars(PublishReturns)
  /\ WF_pumpVars(ClosePty)
  /\ WF_pumpVars(ReportExit)

FairPumpSpec == PumpSpec /\ PumpFairness

-----------------------------------------------------------------------------
Bytes == Seq(1 .. MaxOut)

(* Type invariant of the pump.                                             *)
PumpTypeOK ==
  /\ text \in Texts
  /\ running \in BOOLEAN
  /\ written \in 0 .. MaxOut
  /\ ptyBuf \in Bytes
  /\ ptyOpen \in BOOLEAN
  /\ reader \in {"reading", "sending", "done"}
  /\ held \in Bytes
  /\ chunks \in Seq(Bytes)
  /\ publisher \in {"idle", "draining", "publishing", "done"}
  /\ batch \in Bytes
  /\ carry \in Bytes
  /\ out \in Seq(Bytes)
  /\ dropped \subseteq 1 .. MaxOut
  /\ waiter \in {"waiting", "closed", "exited"}
  /\ held # <<>> <=> reader = "sending"
  /\ batch # <<>> <=> publisher = "draining"

(* Every byte between the program and the emitted events, in the order in  *)
(* which it will have left the daemon.                                     *)
Pipeline ==
  FlattenSeq(out) \o carry \o batch \o FlattenSeq(chunks) \o held \o ptyBuf

(* Batching, the carry and the channel keep the program's bytes in order   *)
(* and never duplicate one, and a byte is missing only if sanitising threw *)
(* it away.  What Close then discards unread is still in ptyBuf here: see  *)
(* ExitShowsEverything.                                                    *)
PipelineInOrder ==
  /\ \A i \in 1 .. Len(Pipeline) - 1 : Pipeline[i] < Pipeline[i + 1]
  /\ ToSet(Pipeline) \cup dropped = 1 .. written

(* Output that is valid UTF-8 is never sanitised, however it is cut into   *)
(* reads, and never held back by more than one unfinished character.       *)
ValidTextSurvives ==
  (\A n \in 1 .. written : text[n] # "bad") => dropped = {} /\ Len(carry) <= 3

(* An event carries whole characters only, except the final flush.         *)
EventsAreWellFormed ==
  \A i \in 1 .. Len(out) :
    WellFormed(out[i]) \/ (reader = "done" /\ chunks = <<>> /\ i = Len(out))

(* The memory one session holds for output on its way is bounded whatever  *)
(* the program prints, and one event is small enough that the ring, four   *)
(* times maxBatchBytes, always keeps the newest (RingAccounting).          *)
BuffersBounded ==
  /\ Len(held) <= ReadMax
  /\ Len(chunks) <= ChunkCap
  /\ \A i \in 1 .. Len(chunks) : Len(chunks[i]) <= ReadMax
  /\ Len(batch) < BatchMax + ReadMax
  /\ Len(carry) <= CarryMax
  /\ \A i \in 1 .. Len(out) : Len(out[i]) < BatchMax + ReadMax + CarryMax

(* "publish the exit event only after readLoop is done so subscribers      *)
(* never see exit ahead of the final output" (waitLoop).                   *)
NothingAfterExit == [][waiter = "exited" => out' = out]_pumpVars

(* A program that is gone is reported as exited, in spite of backpressure, *)
(* a full channel or bytes that never become a character.                  *)
ExitReported == ~running ~> waiter = "exited"

(* waitLoop: "Close the PTY master first so readLoop unblocks and flushes  *)
(* whatever the process emitted on its way out".                           *)
ExitShowsEverything ==
  waiter = "exited" => ToSet(FlattenSeq(out)) \cup dropped = 1 .. written
=============================================================================

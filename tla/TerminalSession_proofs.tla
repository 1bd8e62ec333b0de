----------------------- MODULE TerminalSession_proofs -----------------------
(***************************************************************************)
(* Proofs about a whole terminal session, for any texts and buffers, any   *)
(* number of clients and connections: every step of the session is a step  *)
(* of the pump and of the stream, so what is proved of the two holds here, *)
(* and joined they show the clients what the program printed.  The first   *)
(* part is about the pump by itself (PumpSpec); the stream by itself has   *)
(* a module of its own, EventStream_proofs.                                *)
(***************************************************************************)
EXTENDS TerminalSession, Lists_proofs, EventStream_proofs

-----------------------------------------------------------------------------
(* The output path by itself, for any texts, buffer sizes and number of    *)
(* bytes.                                                                  *)

LEMMA BytesAssoc == \A a, b, c \in Bytes : (a \o b) \o c = a \o (b \o c)
  BY DEF Bytes

LEMMA BytesConcat ==
  ASSUME NEW a \in Bytes, NEW b \in Bytes
  PROVE  a \o b \in Bytes /\ Len(a \o b) = Len(a) + Len(b)
  BY DEF Bytes

LEMMA BytesInt ==
  ASSUME NEW a \in Bytes
  PROVE  a \in Seq(Int) /\ ToSet(a) \subseteq 1 .. MaxOut
<1>1. 1 .. MaxOut \subseteq Int
  BY PumpAssumption
<1>2. a \in Seq(1 .. MaxOut)
  BY DEF Bytes
<1>3. a \in Seq(Int)
  BY ONLY <1>1, <1>2, SeqGrow, Zenon
<1>. QED  BY <1>3, ToSetFacts DEF Bytes

(* Types: those of PumpTypeOK, and no chunk is empty.                      *)

NoEmptyChunk == \A i \in 1 .. Len(chunks) : chunks[i] # <<>>

PumpTypes == PumpTypeOK /\ NoEmptyChunk

LEMMA SanitisedFacts ==
  ASSUME NEW p \in Bytes
  PROVE  /\ Sanitised(p) \in Bytes /\ Len(Sanitised(p)) <= Len(p)
         /\ ToSet(Sanitised(p)) = {u \in ToSet(p) : Whole(u, ToSet(p))}
<1>. DEFINE places == {n \in DOMAIN p : Whole(p[n], ToSet(p))}
<1>1. Sanitised(p) = Sublist(p, places)
  BY DEF Sanitised
<1>2. ToSet(Sanitised(p)) = {p[n] : n \in (DOMAIN p) \cap places}
  BY <1>1, SublistElements DEF Bytes
<1>3. {p[n] : n \in (DOMAIN p) \cap places} = {u \in ToSet(p) : Whole(u, ToSet(p))}
  BY DEF ToSet
<1>. HIDE DEF places
<1>. QED  BY <1>1, <1>2, <1>3, SublistType, SublistLen DEF Bytes

(* The longest well-formed prefix, if one is nearly as long as the whole.  *)
LEMMA ValidPrefixFacts ==
  ASSUME NEW p \in Bytes
  PROVE  /\ ValidPrefix(p) \in 0 .. Len(p)
         /\ ValidPrefix(p) > 0 =>
              /\ ValidPrefix(p) >= Len(p) - 3
              /\ WellFormed(SubSeq(p, 1, ValidPrefix(p)))
         /\ ValidPrefix(p) = 0 =>
              \A n \in 1 .. Len(p) :
                n >= Len(p) - 3 => ~WellFormed(SubSeq(p, 1, n))
<1>. DEFINE lens == {n \in 1 .. Len(p) :
                       n >= Len(p) - 3 /\ WellFormed(SubSeq(p, 1, n))}
<1>1. Len(p) \in Nat
  BY DEF Bytes
<1>2. CASE lens = {}
  <2>1. ValidPrefix(p) = 0
    BY <1>2 DEF ValidPrefix
  <2>. QED  BY <1>1, <1>2, <2>1
<1>3. CASE lens # {}
  <2>1. ValidPrefix(p) = CHOOSE n \in lens : \A m \in lens : m <= n
    BY <1>3 DEF ValidPrefix
  <2>2. lens \in SUBSET (0 .. Len(p))
    OBVIOUS
  <2>3. \E n \in lens : \A m \in lens : m <= n
    <3>. HIDE DEF lens
    <3>. QED  BY <1>1, <1>3, <2>2, GreatestBelow
  <2>4. ValidPrefix(p) \in lens
    <3>. HIDE DEF lens
    <3>. QED  BY <2>1, <2>3
  <2>. QED  BY <1>1, <2>4
<1>. QED  BY <1>2, <1>3

LEMMA CombinedBytes ==
  ASSUME PumpTypes
  PROVE  /\ carry \o batch \in Bytes
         /\ Len(carry \o batch) = Len(carry) + Len(batch)
         /\ ToSet(carry \o batch) \subseteq 1 .. MaxOut
<1>1. carry \in Bytes /\ batch \in Bytes
  BY DEF PumpTypes, PumpTypeOK
<1>. QED  BY <1>1, ConcatFacts, ToSetFacts DEF Bytes

LEMMA ReadPtyFacts ==
  ASSUME PumpTypes, ReadPty
  PROVE  \E n \in 1 .. Len(ptyBuf) :
           /\ held' = SubSeq(ptyBuf, 1, n)
           /\ ptyBuf' = SubSeq(ptyBuf, n + 1, Len(ptyBuf))
<1>. USE DEF PumpTypes, PumpTypeOK
<1>1. CASE Len(ptyBuf) < ReadMax
  <2>1. Len(ptyBuf) \in 1 .. Len(ptyBuf)
    BY DEF ReadPty, Bytes
  <2>. QED  BY <1>1, <2>1 DEF ReadPty
<1>2. CASE ~(Len(ptyBuf) < ReadMax)
  <2>1. ReadMax \in 1 .. Len(ptyBuf)
    BY <1>2, PumpAssumption DEF Bytes
  <2>. QED  BY <1>2, <2>1 DEF ReadPty
<1>. QED  BY <1>1, <1>2

LEMMA PumpTypesInit == PumpInit => PumpTypes
  BY PumpAssumption DEF PumpInit, PumpTypes, PumpTypeOK, NoEmptyChunk, Bytes

LEMMA PumpTypesNext ==
  ASSUME PumpTypes, [PumpNext]_pumpVars
  PROVE  PumpTypes'
<1>. USE DEF PumpTypes, PumpTypeOK
<1>1. CASE UNCHANGED pumpVars
  BY <1>1 DEF pumpVars, NoEmptyChunk, Bytes
<1>2. CASE Program
  <2>1. CASE ProgramWrite
    <3>1. written + 1 \in 1 .. MaxOut /\ written + 1 \in 0 .. MaxOut
      BY <2>1, PumpAssumption DEF ProgramWrite
    <3>2. ptyBuf' \in Bytes
      BY <2>1, <3>1, AppendFacts DEF ProgramWrite, Bytes
    <3>. QED  BY <2>1, <3>1, <3>2 DEF ProgramWrite, NoEmptyChunk
  <2>2. CASE ProgramExit
    BY <2>2 DEF ProgramExit, NoEmptyChunk
  <2>. QED  BY <1>2, <2>1, <2>2 DEF Program
<1>3. CASE ReadPty
  <2>1. PICK n \in 1 .. Len(ptyBuf) :
          /\ held' = SubSeq(ptyBuf, 1, n)
          /\ ptyBuf' = SubSeq(ptyBuf, n + 1, Len(ptyBuf))
    BY <1>3, ReadPtyFacts
  <2>2. held' \in Bytes /\ held' # <<>> /\ ptyBuf' \in Bytes
    <3>1. n \in 0 .. Len(ptyBuf) /\ n # 0
      OBVIOUS
    <3>2. /\ held' \in Bytes /\ Len(held') = n /\ ptyBuf' \in Bytes
      BY <2>1, <3>1, SplitSeq DEF Bytes
    <3>. QED  BY <3>1, <3>2
  <2>. QED  BY <1>3, <2>2 DEF ReadPty, NoEmptyChunk, Bytes
<1>4. CASE ReadError
  BY <1>4 DEF ReadError, NoEmptyChunk, Bytes
<1>5. CASE SendChunk
  <2>1. chunks' = Append(chunks, held) /\ held # <<>> /\ held \in Bytes
    BY <1>5 DEF SendChunk
  <2>2. chunks' \in Seq(Bytes) /\ NoEmptyChunk'
    BY <2>1, AppendFacts DEF NoEmptyChunk
  <2>. QED  BY <1>5, <2>2 DEF SendChunk, Bytes
<1>6. CASE TakeChunk
  <2>1. /\ Head(chunks) \in Bytes /\ Head(chunks) # <<>>
        /\ Tail(chunks) \in Seq(Bytes) /\ NoEmptyChunk'
    BY <1>6, TailFacts DEF TakeChunk, NoEmptyChunk
  <2>. QED  BY <1>6, <2>1 DEF TakeChunk
<1>7. CASE TakeMore
  <2>1. /\ Head(chunks) \in Bytes
        /\ Tail(chunks) \in Seq(Bytes) /\ NoEmptyChunk'
    BY <1>7, TailFacts DEF TakeMore, NoEmptyChunk
  <2>2. batch' \in Bytes /\ batch' # <<>>
    BY <1>7, <2>1, ConcatFacts DEF TakeMore, Bytes
  <2>. QED  BY <1>7, <2>1, <2>2 DEF TakeMore
<1>8. CASE PublishNothing
  BY <1>8, CombinedBytes DEF PublishNothing, NoEmptyChunk, Bytes
<1>9. CASE ReadLoopEnds \/ PublishReturns \/ ClosePty \/ ReportExit
  BY <1>9 DEF ReadLoopEnds, PublishReturns, ClosePty, ReportExit, NoEmptyChunk, Bytes
<1>10. CASE PublishPrefix
  <2>. DEFINE c == carry \o batch
  <2>1. c \in Bytes /\ ValidPrefix(c) \in 0 .. Len(c)
    BY CombinedBytes, ValidPrefixFacts
  <2>2. SubSeq(c, 1, ValidPrefix(c)) \in Bytes
        /\ SubSeq(c, ValidPrefix(c) + 1, Len(c)) \in Bytes
    <3>. HIDE DEF c
    <3>. QED  BY <2>1, SplitSeq DEF Bytes
  <2>3. /\ out' = Append(out, SubSeq(c, 1, ValidPrefix(c)))
        /\ carry' = SubSeq(c, ValidPrefix(c) + 1, Len(c))
        /\ batch' = <<>> /\ publisher' = "publishing"
        /\ UNCHANGED <<text, running, written, ptyBuf, ptyOpen, reader, held,
                       chunks, dropped, waiter>>
    BY <1>10 DEF PublishPrefix, Emit
  <2>. HIDE DEF c
  <2>4. out' \in Seq(Bytes) /\ carry' \in Bytes /\ batch' \in Bytes
    BY <2>2, <2>3, AppendFacts DEF Bytes
  <2>. QED  BY <2>3, <2>4 DEF NoEmptyChunk
<1>11. CASE PublishSanitised
  <2>. DEFINE c == carry \o batch
  <2>1. c \in Bytes /\ ToSet(c) \subseteq 1 .. MaxOut /\ Sanitised(c) \in Bytes
    BY CombinedBytes, SanitisedFacts
  <2>2. /\ out' = Append(out, Sanitised(c))
        /\ dropped' = dropped \cup (ToSet(c) \ ToSet(Sanitised(c)))
        /\ carry' = <<>> /\ batch' = <<>> /\ publisher' = "publishing"
        /\ UNCHANGED <<text, running, written, ptyBuf, ptyOpen, reader, held,
                       chunks, waiter>>
    BY <1>11 DEF PublishSanitised, Emit
  <2>. HIDE DEF c
  <2>3. out' \in Seq(Bytes) /\ carry' \in Bytes /\ batch' \in Bytes
    BY <2>1, <2>2, AppendFacts DEF Bytes
  <2>. QED  BY <2>1, <2>2, <2>3 DEF NoEmptyChunk
<1>12. CASE FlushCarry
  BY <1>12 DEF FlushCarry, Emit, NoEmptyChunk, Bytes
<1>. QED
  BY <1>1, <1>2, <1>3, <1>4, <1>5, <1>6, <1>7, <1>8, <1>9, <1>10, <1>11, <1>12
     DEF PumpNext, Reader, Collect, PublishOutput

(* Every part of the pump holds bytes of the program, whatever it prints.  *)
THEOREM PumpTypeCorrect == PumpSpec => []PumpTypeOK
<1>1. PumpTypes => PumpTypeOK
  BY DEF PumpTypes
<1>. QED  BY <1>1, PumpTypesInit, PumpTypesNext, PTL DEF PumpSpec

-----------------------------------------------------------------------------
(* Memory.                                                                 *)

LEMMA BuffersNext ==
  ASSUME PumpTypes, BuffersBounded, [PumpNext]_pumpVars
  PROVE  BuffersBounded'
<1>. USE DEF BuffersBounded
<1>1. /\ carry \in Bytes /\ batch \in Bytes /\ held \in Bytes /\ ptyBuf \in Bytes
      /\ chunks \in Seq(Bytes) /\ out \in Seq(Bytes)
      /\ carry' \in Bytes /\ batch' \in Bytes /\ held' \in Bytes
  BY PumpTypesNext DEF PumpTypes, PumpTypeOK
<1>2. CASE UNCHANGED <<held, chunks, batch, carry, out>>
  BY <1>2
<1>3. CASE ReadPty
  <2>1. Len(held') <= ReadMax
    BY <1>1, <1>3, SplitSeq, PumpAssumption DEF ReadPty, Bytes
  <2>. QED  BY <1>3, <2>1 DEF ReadPty
<1>4. CASE SendChunk
  <2>1. /\ Len(chunks') = Len(chunks) + 1 /\ Len(chunks) \in Nat
        /\ chunks'[Len(chunks) + 1] = held
        /\ \A i \in 1 .. Len(chunks) : chunks'[i] = chunks[i]
    BY <1>1, <1>4, AppendFacts DEF SendChunk
  <2>2. Len(chunks') <= ChunkCap
    BY <1>4, <2>1, PumpAssumption DEF SendChunk
  <2>3. \A i \in 1 .. Len(chunks') : Len(chunks'[i]) <= ReadMax
    BY <2>1
  <2>4. held' = <<>> /\ UNCHANGED <<batch, carry, out>>
    BY <1>4 DEF SendChunk
  <2>. QED  BY <2>2, <2>3, <2>4, PumpAssumption
<1>5. ASSUME chunks # <<>>, chunks' = Tail(chunks)
      PROVE  /\ Len(chunks') <= ChunkCap
             /\ \A i \in 1 .. Len(chunks') : Len(chunks'[i]) <= ReadMax
             /\ Len(Head(chunks)) <= ReadMax /\ Head(chunks) \in Bytes
  <2>1. /\ Head(chunks) = chunks[1] /\ Head(chunks) \in Bytes
        /\ Len(chunks) = Len(chunks') + 1 /\ Len(chunks') \in Nat
        /\ \A i \in 1 .. Len(chunks') : chunks'[i] = chunks[i + 1]
    BY <1>1, <1>5, TailFacts
  <2>2. \A i \in 1 .. Len(chunks') : i + 1 \in 1 .. Len(chunks)
    BY <2>1
  <2>. QED  BY <2>1, <2>2, PumpAssumption
<1>6. CASE TakeChunk
  <2>1. Len(batch') < BatchMax + ReadMax
    BY <1>5, <1>6, PumpAssumption DEF TakeChunk, Bytes
  <2>. QED  BY <1>5, <1>6, <2>1 DEF TakeChunk
<1>7. CASE TakeMore
  <2>1. Len(batch') = Len(batch) + Len(Head(chunks)) /\ Len(batch) \in Nat
    BY <1>1, <1>5, <1>7, ConcatFacts DEF TakeMore, Bytes
  <2>2. Len(batch') < BatchMax + ReadMax
    BY <1>5, <1>7, <2>1, PumpAssumption DEF TakeMore, Bytes
  <2>. QED  BY <1>5, <1>7, <2>2 DEF TakeMore
<1>8. CASE PublishNothing
  BY <1>8, PumpAssumption DEF PublishNothing
<1>9. ASSUME NEW d \in Bytes, out' = Append(out, d), Len(d) <= Len(carry) + Len(batch),
             batch' = <<>>, Len(carry') <= CarryMax, UNCHANGED <<held, chunks>>
      PROVE  BuffersBounded'
  <2>1. Len(d) < BatchMax + ReadMax + CarryMax
    BY <1>1, <1>9, PumpAssumption DEF Bytes
  <2>2. /\ Len(out') = Len(out) + 1 /\ Len(out) \in Nat
        /\ out'[Len(out) + 1] = d
        /\ \A i \in 1 .. Len(out) : out'[i] = out[i]
    BY <1>1, <1>9, AppendFacts
  <2>3. ASSUME NEW i \in 1 .. Len(out')
        PROVE  Len(out'[i]) < BatchMax + ReadMax + CarryMax
    <3>1. CASE i = Len(out) + 1
      BY <2>1, <2>2, <3>1
    <3>2. CASE i \in 1 .. Len(out)
      BY <2>2, <3>2
    <3>. QED  BY <2>2, <3>1, <3>2
  <2>. QED  BY <1>9, <2>3, PumpAssumption
<1>10. CASE PublishPrefix
  <2>. DEFINE c == carry \o batch
  <2>1. PICK n : n = ValidPrefix(c)
    OBVIOUS
  <2>2. c \in Bytes /\ Len(c) = Len(carry) + Len(batch)
    BY CombinedBytes
  <2>3. /\ out' = Append(out, SubSeq(c, 1, n)) /\ n > 0
        /\ carry' = SubSeq(c, n + 1, Len(c))
        /\ batch' = <<>> /\ UNCHANGED <<held, chunks>>
    BY <1>10, <2>1 DEF PublishPrefix, Emit
  <2>. HIDE DEF c
  <2>4. n \in 0 .. Len(c) /\ n >= Len(c) - 3
    BY <2>1, <2>2, <2>3, ValidPrefixFacts
  <2>5. /\ SubSeq(c, 1, n) \in Bytes /\ Len(SubSeq(c, 1, n)) = n
        /\ Len(carry') = Len(c) - n
    BY <2>2, <2>3, <2>4, SplitSeq DEF Bytes
  <2>6. Len(SubSeq(c, 1, n)) <= Len(carry) + Len(batch)
    BY <2>2, <2>4, <2>5 DEF Bytes
  <2>7. Len(carry') <= CarryMax
    <3>1. Len(c) - n <= 3
      BY <2>2, <2>4 DEF Bytes
    <3>. QED  BY <2>5, <3>1, PumpAssumption
  <2>. QED  BY <1>9, <2>3, <2>5, <2>6, <2>7
<1>11. CASE PublishSanitised
  <2>. DEFINE c == carry \o batch
  <2>1. c \in Bytes /\ Len(c) = Len(carry) + Len(batch)
    BY CombinedBytes
  <2>2. /\ out' = Append(out, Sanitised(c))
        /\ carry' = <<>> /\ batch' = <<>> /\ UNCHANGED <<held, chunks>>
    BY <1>11 DEF PublishSanitised, Emit
  <2>. HIDE DEF c
  <2>3. Sanitised(c) \in Bytes /\ Len(Sanitised(c)) <= Len(carry) + Len(batch)
    BY <2>1, SanitisedFacts
  <2>. QED  BY <1>9, <2>2, <2>3, PumpAssumption
<1>12. CASE FlushCarry
  <2>1. /\ out' = Append(out, carry) /\ carry' = <<>> /\ batch = <<>>
        /\ UNCHANGED <<held, chunks, batch>>
    BY <1>12 DEF FlushCarry, Emit, PumpTypes, PumpTypeOK
  <2>. QED  BY <1>1, <1>9, <2>1, PumpAssumption
<1>. QED
  BY <1>2, <1>3, <1>4, <1>6, <1>7, <1>8, <1>10, <1>11, <1>12
     DEF PumpNext, Program, ProgramWrite, ProgramExit, Reader, ReadError, Collect,
         ReadLoopEnds, PublishOutput, PublishReturns, ClosePty, ReportExit, pumpVars

(* The memory of the pump is bounded by its constants whatever is printed. *)
THEOREM BuffersBoundedHolds == PumpSpec => []BuffersBounded
<1>1. PumpInit => BuffersBounded
  BY PumpAssumption DEF PumpInit, BuffersBounded
<1>. QED  BY <1>1, BuffersNext, PumpTypesInit, PumpTypesNext, PTL DEF PumpSpec

-----------------------------------------------------------------------------
(* Order.                                                                  *)

(* The pipeline from its front: what has left, and what follows it.        *)
Behind == held \o ptyBuf
Waiting == FlattenSeq(chunks) \o Behind
Leaving == FlattenSeq(out) \o (carry \o batch)

PipelineTyped ==
  /\ FlattenSeq(out) \in Bytes /\ FlattenSeq(chunks) \in Bytes
  /\ carry \in Bytes /\ batch \in Bytes /\ held \in Bytes /\ ptyBuf \in Bytes
  /\ carry \o batch \in Bytes
  /\ Behind \in Bytes /\ Waiting \in Bytes /\ Leaving \in Bytes
  /\ Pipeline = Leaving \o Waiting /\ Pipeline \in Bytes

(* How the six parts of Pipeline are regrouped.                            *)
Regrouped(F, c, b, G, h, y) ==
  /\ F \o (c \o b) \in Bytes /\ G \o (h \o y) \in Bytes
  /\ (F \o (c \o b)) \o (G \o (h \o y)) \in Bytes
  /\ F \o c \o b \o G \o h \o y = (F \o (c \o b)) \o (G \o (h \o y))

LEMMA Regroup ==
  ASSUME NEW G \in Bytes, NEW h \in Bytes, NEW y \in Bytes
  PROVE  \A F, c, b \in Bytes : Regrouped(F, c, b, G, h, y)
<1>1. \A A \in Bytes : A \o G \o h \o y = A \o (G \o (h \o y))
  <2>. TAKE A \in Bytes
  <2>1. (A \o G) \o h = A \o (G \o h)
    BY DEF Bytes
  <2>2. G \o h \in Bytes
    BY BytesConcat
  <2>3. \A e \in Bytes : (A \o e) \o y = A \o (e \o y)
    BY BytesAssoc, Zenon
  <2>4. (G \o h) \o y = G \o (h \o y)
    BY DEF Bytes
  <2>5. (A \o (G \o h)) \o y = A \o ((G \o h) \o y)
    BY ONLY <2>2, <2>3, Zenon
  <2>. QED  BY <2>1, <2>4, <2>5, Zenon
<1>2. h \o y \in Bytes
  BY BytesConcat
<1>3. G \o (h \o y) \in Bytes
  BY <1>2, BytesConcat
<1>4. TAKE F, c, b \in Bytes
<1>5. c \o b \in Bytes
  BY BytesConcat
<1>6. F \o (c \o b) \in Bytes
  BY <1>5, BytesConcat
<1>7. (F \o (c \o b)) \o (G \o (h \o y)) \in Bytes
  BY <1>3, <1>6, BytesConcat
<1>8. F \o c \o b = F \o (c \o b)
  BY <1>4 DEF Bytes
<1>9. F \o c \o b \o G \o h \o y = (F \o (c \o b)) \o (G \o (h \o y))
  <2>1. PICK A : A = F \o (c \o b)
    OBVIOUS
  <2>2. A \in Bytes /\ F \o c \o b = A
    BY ONLY <1>6, <1>8, <2>1
  <2>3. A \o G \o h \o y = A \o (G \o (h \o y))
    BY ONLY <1>1, <2>2, Zenon
  <2>. QED  BY ONLY <2>1, <2>2, <2>3, Zenon
<1>. QED  BY <1>3, <1>6, <1>7, <1>9, Zenon DEF Regrouped

LEMMA PipelineTypes == PumpTypes => PipelineTyped
<1>. SUFFICES ASSUME PumpTypes PROVE PipelineTyped
  OBVIOUS
<1>1. /\ FlattenSeq(out) \in Bytes /\ FlattenSeq(chunks) \in Bytes
      /\ carry \in Bytes /\ batch \in Bytes /\ held \in Bytes /\ ptyBuf \in Bytes
  BY FlattenType DEF PumpTypes, PumpTypeOK, Bytes
<1>2. carry \o batch \in Bytes /\ held \o ptyBuf \in Bytes
  BY <1>1, BytesConcat
<1>3. PICK F, c, b, G, h, y : /\ F = FlattenSeq(out) /\ c = carry /\ b = batch
                              /\ G = FlattenSeq(chunks) /\ h = held /\ y = ptyBuf
  OBVIOUS
<1>4. /\ F \in Bytes /\ c \in Bytes /\ b \in Bytes
      /\ G \in Bytes /\ h \in Bytes /\ y \in Bytes
  BY <1>1, <1>3
<1>5. Regrouped(F, c, b, G, h, y)
  BY <1>4, Regroup
<1>. QED
  BY <1>1, <1>2, <1>3, <1>5, Zenon
     DEF Regrouped, PipelineTyped, Pipeline, Leaving, Waiting, Behind

LEMMA PipelineTypesNext ==
  PumpTypes /\ [PumpNext]_pumpVars => PumpTypes' /\ PipelineTyped'
<1>1. PumpTypes /\ [PumpNext]_pumpVars => PumpTypes'
  BY PumpTypesNext
<1>. QED  BY <1>1, PipelineTypes, PTL

(* What TakeChunk and TakeMore do to the parts.                            *)
Moved(F, c, b, d, T, B) ==
  (F \o (c \o (b \o d))) \o (T \o B) = (F \o (c \o b)) \o ((d \o T) \o B)

LEMMA MoveChunk ==
  ASSUME NEW F \in Bytes, NEW c \in Bytes, NEW b \in Bytes,
         NEW d \in Bytes, NEW T \in Bytes, NEW B \in Bytes
  PROVE  Moved(F, c, b, d, T, B)
<1>1. F \o (c \o b) \in Bytes /\ T \o B \in Bytes
  BY BytesConcat
<1>2. (F \o (c \o b)) \o d = F \o (c \o (b \o d))
  <2>1. c \o b \in Bytes
    BY BytesConcat
  <2>2. \A e \in Bytes : (F \o e) \o d = F \o (e \o d)
    BY DEF Bytes
  <2>3. (c \o b) \o d = c \o (b \o d)
    BY DEF Bytes
  <2>4. (F \o (c \o b)) \o d = F \o ((c \o b) \o d)
    BY ONLY <2>1, <2>2, Zenon
  <2>. QED  BY <2>3, <2>4, Zenon
<1>3. \A A, r \in Bytes : (A \o d) \o r = A \o (d \o r)
  BY DEF Bytes
<1>4. (d \o T) \o B = d \o (T \o B)
  BY DEF Bytes
<1>5. ((F \o (c \o b)) \o d) \o (T \o B) = (F \o (c \o b)) \o (d \o (T \o B))
  BY ONLY <1>1, <1>3, Zenon
<1>. QED  BY <1>2, <1>4, <1>5, Zenon DEF Moved

LEMMA SamePipeline ==
  ASSUME PumpTypes, [PumpNext]_pumpVars, ~ProgramWrite, ~PublishSanitised
  PROVE  Pipeline' = Pipeline /\ UNCHANGED <<written, dropped>>
<1>1. PipelineTyped /\ PipelineTyped'
  BY PipelineTypes, PipelineTypesNext
<1>2. Pipeline = Leaving \o Waiting /\ Pipeline' = Leaving' \o Waiting'
  BY <1>1 DEF PipelineTyped
<1>3. CASE UNCHANGED <<out, carry, batch, chunks, held, ptyBuf, written, dropped>>
  BY <1>3 DEF Pipeline
<1>4. CASE ReadPty
  <2>1. held = <<>> /\ UNCHANGED <<out, carry, batch, chunks, written, dropped>>
    BY <1>4 DEF ReadPty, PumpTypes, PumpTypeOK
  <2>2. PICK n \in 1 .. Len(ptyBuf) :
          /\ held' = SubSeq(ptyBuf, 1, n)
          /\ ptyBuf' = SubSeq(ptyBuf, n + 1, Len(ptyBuf))
    BY <1>4, ReadPtyFacts
  <2>3. ptyBuf \in Bytes /\ n \in 0 .. Len(ptyBuf)
    BY <1>1 DEF PipelineTyped
  <2>4. held' \o ptyBuf' = ptyBuf
    BY <2>2, <2>3, SplitSeq DEF Bytes
  <2>5. held \o ptyBuf = ptyBuf
    BY <2>1, <2>3 DEF Bytes
  <2>. QED  BY <1>2, <2>1, <2>4, <2>5 DEF Leaving, Waiting, Behind
<1>5. CASE SendChunk
  <2>1. /\ chunks' = Append(chunks, held) /\ held' = <<>>
        /\ UNCHANGED <<out, carry, batch, ptyBuf, written, dropped>>
        /\ chunks \in Seq(Bytes) /\ held \in Bytes /\ ptyBuf \in Bytes
    BY <1>5 DEF SendChunk, PumpTypes, PumpTypeOK
  <2>2. PICK G, h, y : G = FlattenSeq(chunks) /\ h = held /\ y = ptyBuf
    OBVIOUS
  <2>3. FlattenSeq(chunks') = G \o h
    BY <2>1, <2>2, FlattenAppend DEF Bytes
  <2>4. G \in Bytes /\ h \in Bytes /\ y \in Bytes
    BY <1>1, <2>2 DEF PipelineTyped
  <2>5. (G \o h) \o y = G \o (h \o y) /\ <<>> \o y = y
    BY <2>4, BytesAssoc
  <2>. QED  BY <1>2, <2>1, <2>2, <2>3, <2>5 DEF Leaving, Waiting, Behind
<1>6. CASE TakeChunk \/ TakeMore
  <2>1. /\ chunks # <<>> /\ chunks' = Tail(chunks)
        /\ UNCHANGED <<out, carry, held, ptyBuf, written, dropped>>
    BY <1>6 DEF TakeChunk, TakeMore
  <2>2. chunks \in Seq(Bytes) /\ Head(chunks) \in Bytes
    BY <2>1, TailFacts DEF PumpTypes, PumpTypeOK
  <2>3. batch' = batch \o Head(chunks)
    <3>1. CASE TakeChunk
      BY <2>2, <3>1 DEF TakeChunk, PumpTypes, PumpTypeOK, Bytes
    <3>. QED  BY <1>6, <3>1 DEF TakeMore
  <2>4. PICK F, c, b, d, T, B :
          /\ F = FlattenSeq(out) /\ c = carry /\ b = batch /\ d = Head(chunks)
          /\ T = FlattenSeq(chunks') /\ B = Behind
    OBVIOUS
  <2>5. F \in Bytes /\ c \in Bytes /\ b \in Bytes /\ d \in Bytes /\ T \in Bytes /\ B \in Bytes
    BY <1>1, <2>2, <2>4 DEF PipelineTyped
  <2>6. FlattenSeq(chunks) = d \o T
    BY <2>1, <2>2, <2>4, FlattenCons DEF Bytes
  <2>7. Moved(F, c, b, d, T, B)
    BY <2>5, MoveChunk
  <2>8. Behind' = Behind
    BY <2>1 DEF Behind
  <2>. QED  BY <1>2, <2>1, <2>3, <2>4, <2>6, <2>7, <2>8, Zenon DEF Moved, Leaving, Waiting
<1>7. ASSUME NEW d \in Bytes, out' = Append(out, d), d \o carry' = carry \o batch,
             batch' = <<>>, UNCHANGED <<chunks, held, ptyBuf, written, dropped>>
      PROVE  Pipeline' = Pipeline /\ UNCHANGED <<written, dropped>>
  <2>1. PICK F, e : F = FlattenSeq(out) /\ e = carry'
    OBVIOUS
  <2>2. F \in Bytes /\ e \in Bytes
    BY <1>1, <2>1 DEF PipelineTyped
  <2>3. FlattenSeq(out') = F \o d
    BY <1>7, <2>1, FlattenAppend DEF Bytes, PumpTypes, PumpTypeOK
  <2>4. (F \o d) \o e = F \o (d \o e) /\ e \o <<>> = e
    BY <2>2, BytesAssoc
  <2>5. Waiting' = Waiting
    BY <1>7 DEF Waiting, Behind
  <2>. QED  BY <1>2, <1>7, <2>1, <2>3, <2>4, <2>5 DEF Leaving
<1>8. CASE PublishPrefix
  <2>. DEFINE c == carry \o batch
  <2>1. PICK n : n = ValidPrefix(c)
    OBVIOUS
  <2>2. c \in Bytes
    BY CombinedBytes
  <2>3. /\ out' = Append(out, SubSeq(c, 1, n))
        /\ carry' = SubSeq(c, n + 1, Len(c))
        /\ batch' = <<>> /\ UNCHANGED <<chunks, held, ptyBuf, written, dropped>>
    BY <1>8, <2>1 DEF PublishPrefix, Emit
  <2>4. SubSeq(c, 1, n) \in Bytes /\ SubSeq(c, 1, n) \o SubSeq(c, n + 1, Len(c)) = c
    <3>. HIDE DEF c
    <3>. QED  BY <2>1, <2>2, ValidPrefixFacts, SplitSeq DEF Bytes
  <2>. QED  BY <1>7, <2>3, <2>4
<1>9. CASE PublishNothing
  <2>1. carry' = carry \o batch /\ batch' = <<>> /\ carry' \in Bytes
    BY <1>9, CombinedBytes DEF PublishNothing
  <2>2. carry' \o batch' = carry \o batch
    BY <2>1 DEF Bytes
  <2>. QED  BY <1>2, <1>9, <2>2 DEF PublishNothing, Leaving, Waiting, Behind
<1>10. CASE FlushCarry
  <2>1. /\ out' = Append(out, carry) /\ carry' = <<>> /\ batch = <<>>
        /\ UNCHANGED <<batch, chunks, held, ptyBuf, written, dropped>>
        /\ carry \in Bytes
    BY <1>10 DEF FlushCarry, Emit, PumpTypes, PumpTypeOK
  <2>2. carry \o carry' = carry \o batch
    BY <2>1
  <2>. QED  BY <1>7, <2>1, <2>2
<1>. QED
  BY <1>3, <1>4, <1>5, <1>6, <1>8, <1>9, <1>10
     DEF PumpNext, Program, ProgramExit, Reader, ReadError, Collect, ReadLoopEnds,
         PublishOutput, PublishReturns, ClosePty, ReportExit, pumpVars

(* Every byte the program has written is in the pipeline once, in order,   *)
(* or has been dropped.                                                    *)
Ordered == Increasing(Pipeline) /\ ToSet(Pipeline) \cup dropped = 1 .. written

LEMMA WriteKeepsOrder ==
  ASSUME PumpTypes, Ordered, ProgramWrite
  PROVE  Ordered'
<1>1. /\ ptyBuf' = Append(ptyBuf, written + 1) /\ written' = written + 1
      /\ UNCHANGED <<out, carry, batch, chunks, held, dropped>>
      /\ written + 1 \in 1 .. MaxOut /\ written \in Nat
  BY PumpAssumption DEF ProgramWrite, PumpTypes, PumpTypeOK
<1>2. PICK one : one = <<written + 1>>
  OBVIOUS
<1>3. one \in Bytes /\ ToSet(one) = {written + 1} /\ one \in Seq(Int)
  BY <1>1, <1>2 DEF Bytes, ToSet
<1>8. Pipeline \in Seq(Int)
  BY PipelineTypes, BytesInt DEF PipelineTyped
<1>4. Pipeline' = Pipeline \o one
  <2>1. PICK A, y : A = FlattenSeq(out) \o carry \o batch \o FlattenSeq(chunks) \o held
                           /\ y = ptyBuf
    OBVIOUS
  <2>2. A \in Bytes /\ y \in Bytes
    <3>1. PICK F, c, b, d, e : /\ F = FlattenSeq(out) /\ c = carry /\ b = batch
                               /\ d = FlattenSeq(chunks) /\ e = held
      OBVIOUS
    <3>2. F \in Bytes /\ c \in Bytes /\ b \in Bytes /\ d \in Bytes /\ e \in Bytes
      BY <3>1, PipelineTypes DEF PipelineTyped
    <3>3. F \o c \o b \in Bytes
      BY <3>2, BytesConcat
    <3>4. F \o c \o b \o d \o e \in Bytes
      BY <3>2, <3>3, BytesConcat
    <3>. QED  BY <2>1, <3>1, <3>4, PipelineTypes DEF PipelineTyped
  <2>3. Append(y, written + 1) = y \o one
    BY <1>1, <1>2, <2>2 DEF Bytes
  <2>4. (A \o y) \o one = A \o (y \o one)
    BY <1>3, <2>2, BytesAssoc
  <2>. QED  BY <1>1, <2>1, <2>3, <2>4 DEF Pipeline
<1>5. ToSet(Pipeline') = ToSet(Pipeline) \cup {written + 1}
  BY <1>3, <1>4, <1>8, ToSetConcat
<1>6. ToSet(Pipeline') \cup dropped' = 1 .. written'
  BY <1>1, <1>5 DEF Ordered
<1>7. Increasing(one) /\ Precede(Pipeline, one)
  BY <1>1, <1>2, <1>3 DEF Increasing, Precede, Ordered
<1>9. Increasing(Pipeline')
  BY <1>3, <1>4, <1>7, <1>8, IncreasingConcat DEF Ordered
<1>. QED  BY <1>6, <1>9 DEF Ordered

LEMMA SanitisingKeepsOrder ==
  ASSUME PumpTypes, Ordered, PublishSanitised
  PROVE  Ordered'
<1>1. PICK c, k, F, W : c = carry \o batch /\ k = Sanitised(c)
                        /\ F = FlattenSeq(out) /\ W = Waiting
  OBVIOUS
<1>2. /\ c \in Bytes /\ F \in Bytes /\ W \in Bytes /\ k \in Bytes
      /\ ToSet(k) \subseteq ToSet(c)
  BY <1>1, PipelineTypes, SanitisedFacts DEF PipelineTyped
<1>3. /\ out' = Append(out, k) /\ dropped' = dropped \cup (ToSet(c) \ ToSet(k))
      /\ carry' = <<>> /\ batch' = <<>> /\ UNCHANGED <<chunks, held, ptyBuf, written>>
  BY <1>1 DEF PublishSanitised, Emit
<1>4. Pipeline = (F \o c) \o W
  BY <1>1, PipelineTypes DEF PipelineTyped, Leaving
<1>5. Pipeline' = (F \o k) \o W
  <2>1. PipelineTyped'
    BY PipelineTypesNext DEF PumpNext, PublishOutput
  <2>2. FlattenSeq(out') = F \o k
    BY <1>1, <1>2, <1>3, FlattenAppend DEF Bytes, PumpTypes, PumpTypeOK
  <2>3. F \o k \in Bytes
    BY <1>2, BytesConcat
  <2>4. Leaving' = F \o k
    BY <1>3, <2>2, <2>3 DEF Leaving, Bytes
  <2>5. Waiting' = W
    BY <1>1, <1>3 DEF Waiting, Behind
  <2>. QED  BY <2>1, <2>4, <2>5 DEF PipelineTyped
<1>6. c \in Seq(Int) /\ F \in Seq(Int) /\ W \in Seq(Int) /\ k \in Seq(Int)
  BY <1>2, BytesInt
<1>7. PICK Fc, Fk : Fc = F \o c /\ Fk = F \o k
  OBVIOUS
<1>8. /\ Fc \in Seq(Int) /\ Fk \in Seq(Int)
      /\ ToSet(Fc) = ToSet(F) \cup ToSet(c) /\ ToSet(Fk) = ToSet(F) \cup ToSet(k)
      /\ ToSet(Pipeline) = ToSet(Fc) \cup ToSet(W)
      /\ ToSet(Pipeline') = ToSet(Fk) \cup ToSet(W)
  <2>1. Fc \in Seq(Int) /\ ToSet(Fc) = ToSet(F) \cup ToSet(c)
    BY <1>6, <1>7, ConcatFacts, ToSetConcat
  <2>2. Fk \in Seq(Int) /\ ToSet(Fk) = ToSet(F) \cup ToSet(k)
    BY <1>6, <1>7, ConcatFacts, ToSetConcat
  <2>3. ToSet(Fc \o W) = ToSet(Fc) \cup ToSet(W)
    BY <1>6, <2>1, ToSetConcat
  <2>4. ToSet(Fk \o W) = ToSet(Fk) \cup ToSet(W)
    BY <1>6, <2>2, ToSetConcat
  <2>. QED  BY <1>4, <1>5, <1>7, <2>1, <2>2, <2>3, <2>4
<1>9. ToSet(Pipeline') \cup dropped' = 1 .. written'
  BY <1>2, <1>3, <1>8 DEF Ordered
<1>10. Increasing(Fc) /\ Increasing(W) /\ Precede(Fc, W)
  BY <1>4, <1>6, <1>7, <1>8, IncreasingConcat DEF Ordered
<1>11. Increasing(F) /\ Increasing(c) /\ Precede(F, c)
  BY <1>6, <1>7, <1>10, IncreasingConcat
<1>12. Increasing(k)
  BY <1>1, <1>6, <1>11, IncreasingSublist DEF Sanitised
<1>13. Precede(F, k) /\ Precede(Fk, W)
  BY <1>2, <1>8, <1>10, <1>11 DEF Precede
<1>14. Increasing(Fk)
  BY <1>6, <1>7, <1>11, <1>12, <1>13, IncreasingConcat
<1>15. Increasing(Pipeline')
  BY <1>5, <1>6, <1>7, <1>8, <1>10, <1>13, <1>14, IncreasingConcat
<1>. QED  BY <1>9, <1>15 DEF Ordered

LEMMA OrderedInit == PumpInit => Ordered
<1>. SUFFICES ASSUME PumpInit PROVE Ordered
  OBVIOUS
<1>1. Pipeline = <<>>
  BY FlattenEmpty DEF PumpInit, Pipeline
<1>. QED  BY <1>1 DEF PumpInit, Ordered, Increasing, ToSet

LEMMA OrderedNext ==
  ASSUME PumpTypes, Ordered, [PumpNext]_pumpVars
  PROVE  Ordered'
<1>1. CASE ~ProgramWrite /\ ~PublishSanitised
  BY <1>1, SamePipeline DEF Ordered, Increasing
<1>. QED  BY <1>1, WriteKeepsOrder, SanitisingKeepsOrder

(* The pump keeps the program's bytes in order and repeats none, and only  *)
(* sanitising takes a byte out.                                            *)
THEOREM PipelineInOrderHolds == PumpSpec => []PipelineInOrder
<1>1. PumpTypes /\ Ordered => PipelineInOrder
  <2>. SUFFICES ASSUME PumpTypes, Ordered PROVE PipelineInOrder
    OBVIOUS
  <2>1. Len(Pipeline) \in Nat
    BY PipelineTypes DEF PipelineTyped, Bytes
  <2>2. ASSUME NEW i \in 1 .. Len(Pipeline) - 1
        PROVE  Pipeline[i] < Pipeline[i + 1]
    <3>1. i \in 1 .. Len(Pipeline) /\ i + 1 \in 1 .. Len(Pipeline) /\ i < i + 1
      BY <2>1
    <3>. QED  BY <3>1 DEF Ordered, Increasing
  <2>. QED  BY <2>2 DEF Ordered, PipelineInOrder
<1>. QED
  BY <1>1, OrderedInit, OrderedNext, PumpTypesInit, PumpTypesNext, PTL DEF PumpSpec

-----------------------------------------------------------------------------
(* Characters.                                                             *)

(* CharOf with the text as a parameter.                                    *)
Bounds(t) == {0} \cup {e \in 1 .. MaxOut : t[e] # "mid"}

First(t, u) == CHOOSE b \in Bounds(t) : b < u /\ \A e \in Bounds(t) : e < u => e <= b

From(t, u) == {e \in Bounds(t) : e >= u}

End(t, u) == IF From(t, u) = {} THEN MaxOut + 1
             ELSE CHOOSE e \in From(t, u) : \A f \in From(t, u) : e <= f

LEMMA CharOfIs ==
  ASSUME NEW u
  PROVE  CharOf(u) = First(text, u) + 1 .. End(text, u)
  BY DEF CharOf, First, End, From, Bounds

LEMMA EndFacts ==
  ASSUME NEW t, NEW u \in 1 .. MaxOut
  PROVE  /\ End(t, u) \in u .. MaxOut + 1
         /\ End(t, u) \in Bounds(t) \/ End(t, u) = MaxOut + 1
         /\ \A e \in Bounds(t) : e >= u => End(t, u) <= e
<1>1. Bounds(t) \subseteq 0 .. MaxOut /\ MaxOut \in Nat
  BY PumpAssumption DEF Bounds
<1>2. CASE From(t, u) = {}
  BY <1>1, <1>2 DEF End, From
<1>3. CASE From(t, u) # {}
  <2>1. From(t, u) \in SUBSET Nat
    BY <1>1 DEF From
  <2>2. \E e \in From(t, u) : \A f \in From(t, u) : e <= f
    BY <1>3, <2>1, LeastNat
  <2>3. End(t, u) = CHOOSE e \in From(t, u) : \A f \in From(t, u) : e <= f
    BY <1>3 DEF End
  <2>4. End(t, u) \in From(t, u) /\ \A f \in From(t, u) : End(t, u) <= f
    BY <2>2, <2>3
  <2>. QED  BY <1>1, <2>4 DEF From
<1>. QED  BY <1>2, <1>3

LEMMA FirstFacts ==
  ASSUME NEW t, NEW u \in 1 .. MaxOut
  PROVE  /\ First(t, u) \in Bounds(t) /\ First(t, u) \in 0 .. u - 1
         /\ \A e \in Bounds(t) : e < u => e <= First(t, u)
<1>1. Bounds(t) \subseteq 0 .. MaxOut /\ 0 \in Bounds(t) /\ MaxOut \in Nat
  BY PumpAssumption DEF Bounds
<1>. DEFINE low == {e \in Bounds(t) : e < u}
<1>2. low \in SUBSET (0 .. u - 1) /\ low # {}
  BY <1>1
<1>3. \E b \in low : \A e \in low : e <= b
  <2>1. u - 1 \in Nat
    OBVIOUS
  <2>. HIDE DEF low
  <2>. QED  BY <1>2, <2>1, GreatestBelow
<1>4. \E b \in Bounds(t) : b < u /\ \A e \in Bounds(t) : e < u => e <= b
  BY <1>3
<1>5. /\ First(t, u) \in Bounds(t) /\ First(t, u) < u
      /\ \A e \in Bounds(t) : e < u => e <= First(t, u)
  BY <1>4 DEF First
<1>. QED  BY <1>1, <1>5

(* The bytes of a character agree on which bytes those are.                *)
LEMMA CharOfAgrees ==
  ASSUME NEW u \in 1 .. MaxOut, NEW v \in CharOf(u), v \in 1 .. MaxOut
  PROVE  CharOf(v) = CharOf(u)
<1>. DEFINE t == text
<1>1. v \in First(t, u) + 1 .. End(t, u)
  BY CharOfIs
<1>2. Bounds(t) \subseteq 0 .. MaxOut /\ MaxOut \in Nat
  BY PumpAssumption DEF Bounds
<1>3. /\ First(t, u) \in 0 .. u - 1 /\ \A e \in Bounds(t) : e < u => e <= First(t, u)
      /\ End(t, u) \in u .. MaxOut + 1
      /\ \A e \in Bounds(t) : e >= u => End(t, u) <= e
  BY EndFacts, FirstFacts
<1>4. \A e \in Bounds(t) : e < v <=> e < u
  BY <1>1, <1>2, <1>3
<1>5. First(t, v) = First(t, u)
  BY <1>4 DEF First
<1>6. From(t, v) = From(t, u)
  BY <1>2, <1>4 DEF From
<1>7. End(t, v) = End(t, u)
  BY <1>6 DEF End
<1>. QED  BY <1>5, <1>7, CharOfIs

(* A byte belongs to its character.                                        *)
LEMMA InItsChar ==
  ASSUME NEW u \in 1 .. MaxOut
  PROVE  u \in CharOf(u) /\ End(text, u) \in CharOf(u)
<1>1. First(text, u) \in 0 .. u - 1 /\ End(text, u) \in u .. MaxOut + 1
  BY EndFacts, FirstFacts
<1>2. MaxOut \in Nat
  BY PumpAssumption
<1>. QED  BY <1>1, <1>2, CharOfIs

(* What sanitising keeps is whole characters.                              *)
LEMMA SanitisedWellFormed ==
  ASSUME NEW p \in Bytes
  PROVE  WellFormed(Sanitised(p))
<1>1. PICK us, ks : us = ToSet(p) /\ ks = ToSet(Sanitised(p))
  OBVIOUS
<1>2. ks = {u \in us : Whole(u, us)} /\ us \subseteq 1 .. MaxOut
  BY <1>1, SanitisedFacts, BytesInt
<1>3. ASSUME NEW u \in ks
      PROVE  Whole(u, ks)
  <2>1. /\ u \in us /\ u \in 1 .. MaxOut /\ CharOf(u) \subseteq us
        /\ \A v \in CharOf(u) : text[v] # "bad"
    BY <1>2, <1>3 DEF Whole
  <2>2. ASSUME NEW v \in CharOf(u)
        PROVE  v \in ks
    <3>1. v \in us /\ v \in 1 .. MaxOut
      BY <1>2, <2>1
    <3>2. CharOf(v) = CharOf(u)
      BY <2>1, <3>1, CharOfAgrees
    <3>. QED  BY <1>2, <2>1, <3>1, <3>2 DEF Whole
  <2>. QED  BY <2>1, <2>2 DEF Whole
<1>. QED  BY <1>1, <1>3 DEF WellFormed

-----------------------------------------------------------------------------
(* Events.                                                                 *)

(* Nothing is left to publish.                                             *)
Flushed == reader = "done" /\ chunks = <<>> /\ batch = <<>> /\ carry = <<>>

(* WellFormed with the text as a parameter.                                *)
WellFormedIn(t, p) ==
  \A u \in ToSet(p) :
    /\ First(t, u) + 1 .. End(t, u) \subseteq ToSet(p)
    /\ \A v \in First(t, u) + 1 .. End(t, u) : t[v] # "bad"

LEMMA WellFormedIs ==
  ASSUME NEW p
  PROVE  WellFormed(p) <=> WellFormedIn(text, p)
  BY CharOfIs DEF WellFormed, Whole, WellFormedIn

(* Only the last event may be less than whole characters, and after it     *)
(* nothing comes.                                                          *)
EventsWhole ==
  \A i \in 1 .. Len(out) : WellFormedIn(text, out[i]) \/ (i = Len(out) /\ Flushed)

LEMMA FlushedStays ==
  ASSUME PumpTypes, Flushed, [PumpNext]_pumpVars
  PROVE  Flushed' /\ UNCHANGED <<out, dropped, carry>>
<1>1. publisher # "draining"
  BY DEF Flushed, PumpTypes, PumpTypeOK
<1>. QED
  BY <1>1 DEF Flushed, PumpNext, Program, ProgramWrite, ProgramExit, Reader, ReadPty,
         ReadError, SendChunk, Collect, TakeChunk, TakeMore, PublishNothing,
         ReadLoopEnds, PublishOutput, PublishPrefix, PublishSanitised, FlushCarry,
         PublishReturns, ClosePty, ReportExit, pumpVars

LEMMA EventsWholeNext ==
  ASSUME PumpTypes, EventsWhole, [PumpNext]_pumpVars
  PROVE  EventsWhole'
<1>1. UNCHANGED text
  BY DEF PumpNext, Program, ProgramWrite, ProgramExit, Reader, ReadPty,
         ReadError, SendChunk, Collect, TakeChunk, TakeMore, PublishNothing,
         ReadLoopEnds, PublishOutput, PublishPrefix, PublishSanitised, FlushCarry, Emit,
         PublishReturns, ClosePty, ReportExit, pumpVars
<1>2. CASE UNCHANGED out
  BY <1>1, <1>2, FlushedStays DEF EventsWhole
<1>3. ASSUME NEW d \in Bytes, out' = Append(out, d), ~Flushed,
             WellFormedIn(text, d) \/ Flushed'
      PROVE  EventsWhole'
  <2>1. /\ Len(out') = Len(out) + 1 /\ Len(out) \in Nat
        /\ \A i \in 1 .. Len(out) : out'[i] = out[i]
        /\ out'[Len(out) + 1] = d
    BY <1>3, AppendFacts DEF PumpTypes, PumpTypeOK
  <2>2. ASSUME NEW i \in 1 .. Len(out')
        PROVE  WellFormedIn(text', out'[i]) \/ (i = Len(out') /\ Flushed')
    <3>1. CASE i \in 1 .. Len(out)
      <4>1. WellFormedIn(text, out[i])
        BY <1>3, <3>1 DEF EventsWhole
      <4>. QED  BY <1>1, <2>1, <3>1, <4>1
    <3>2. CASE i = Len(out) + 1
      BY <1>1, <1>3, <2>1, <3>2
    <3>. QED  BY <2>1, <3>1, <3>2
  <2>. QED  BY <2>2 DEF EventsWhole
<1>4. CASE PublishPrefix
  <2>1. PICK c, n : c = carry \o batch /\ n = ValidPrefix(c)
    OBVIOUS
  <2>2. c \in Bytes
    BY <2>1, CombinedBytes
  <2>3. out' = Append(out, SubSeq(c, 1, n)) /\ n > 0 /\ publisher = "draining"
    BY <1>4, <2>1 DEF PublishPrefix, Emit
  <2>4. n \in 0 .. Len(c) /\ WellFormed(SubSeq(c, 1, n))
    BY <2>1, <2>2, <2>3, ValidPrefixFacts
  <2>5. SubSeq(c, 1, n) \in Bytes
    BY <2>2, <2>4, SplitSeq DEF Bytes
  <2>6. ~Flushed
    BY <2>3 DEF Flushed, PumpTypes, PumpTypeOK
  <2>. QED  BY <1>3, <2>3, <2>4, <2>5, <2>6, WellFormedIs
<1>5. CASE PublishSanitised
  <2>1. PICK c : c = carry \o batch
    OBVIOUS
  <2>2. c \in Bytes
    BY <2>1, CombinedBytes
  <2>3. out' = Append(out, Sanitised(c)) /\ publisher = "draining"
    BY <1>5, <2>1 DEF PublishSanitised, Emit
  <2>4. Sanitised(c) \in Bytes /\ WellFormed(Sanitised(c))
    BY <2>2, SanitisedFacts, SanitisedWellFormed
  <2>6. ~Flushed
    BY <2>3 DEF Flushed, PumpTypes, PumpTypeOK
  <2>. QED  BY <1>3, <2>3, <2>4, <2>6, WellFormedIs
<1>6. CASE FlushCarry
  <2>1. /\ out' = Append(out, carry) /\ carry \in Bytes /\ carry # <<>>
        /\ batch = <<>> /\ Flushed'
    BY <1>6 DEF FlushCarry, Emit, Flushed, PumpTypes, PumpTypeOK
  <2>. QED  BY <1>3, <2>1 DEF Flushed
<1>. QED
  BY <1>2, <1>4, <1>5, <1>6
     DEF PumpNext, Program, ProgramWrite, ProgramExit, Reader, ReadPty, ReadError,
         SendChunk, Collect, TakeChunk, TakeMore, PublishNothing, ReadLoopEnds,
         PublishOutput, PublishReturns, ClosePty, ReportExit, pumpVars

(* Every event is whole characters, save the last one of a session whose   *)
(* program left a character unfinished.                                    *)
THEOREM EventsAreWellFormedHolds == PumpSpec => []EventsAreWellFormed
<1>1. PumpInit => EventsWhole
  BY DEF PumpInit, EventsWhole
<1>2. EventsWhole => EventsAreWellFormed
  BY WellFormedIs DEF EventsWhole, EventsAreWellFormed, Flushed
<1>. QED
  BY <1>1, <1>2, EventsWholeNext, PumpTypesInit, PumpTypesNext, PTL DEF PumpSpec

-----------------------------------------------------------------------------
(* Valid text.                                                             *)

ValidSoFar == \A n \in 1 .. written : text[n] # "bad"

(* While the text is valid, events end where characters end.               *)
Clean ==
  ValidSoFar =>
    /\ dropped = {} /\ Len(carry) <= 3
    /\ Len(FlattenSeq(out)) \in Bounds(text) \/ Flushed

(* c is the stretch of the stream that begins after its m-th byte.         *)
StretchFrom(m, c) ==
  /\ m \in Nat /\ c \in Bytes /\ m + Len(c) <= written
  /\ \A i \in 1 .. Len(c) : c[i] = m + i

LEMMA CombinedIsStretch ==
  ASSUME PumpTypes, Ordered, dropped = {}
  PROVE  StretchFrom(Len(FlattenSeq(out)), carry \o batch)
<1>1. PICK F, c, W : F = FlattenSeq(out) /\ c = carry \o batch /\ W = Waiting
  OBVIOUS
<1>2. F \in Bytes /\ c \in Bytes /\ W \in Bytes /\ Pipeline \in Bytes
  BY <1>1, PipelineTypes DEF PipelineTyped
<1>3. PICK q : q = Pipeline
  OBVIOUS
<1>4. q = (F \o c) \o W
  BY <1>1, <1>3, PipelineTypes DEF PipelineTyped, Leaving
<1>5. q \in Seq(Int) /\ Increasing(q) /\ ToSet(q) = 1 .. written /\ written \in Nat
  BY <1>2, <1>3, BytesInt, PumpAssumption DEF Ordered, PumpTypes, PumpTypeOK
<1>6. Len(q) = written /\ \A i \in 1 .. written : q[i] = i
  BY <1>5, IncreasingIdentity
<1>7. PICK p : p = F \o c
  OBVIOUS
<1>8. /\ p \in Bytes /\ Len(p) = Len(F) + Len(c) /\ Len(F) \in Nat /\ Len(c) \in Nat
      /\ \A i \in 1 .. Len(c) : p[Len(F) + i] = c[i]
  BY <1>2, <1>7, ConcatFacts DEF Bytes
<1>9. /\ Len(q) = Len(p) + Len(W) /\ Len(W) \in Nat
      /\ \A i \in 1 .. Len(p) : q[i] = p[i]
  BY <1>2, <1>4, <1>7, <1>8, ConcatFacts DEF Bytes
<1>10. Len(F) + Len(c) <= written
  BY <1>6, <1>8, <1>9
<1>11. ASSUME NEW i \in 1 .. Len(c)
       PROVE  c[i] = Len(F) + i
  <2>1. Len(F) + i \in 1 .. Len(p) /\ Len(F) + i \in 1 .. written
    BY <1>6, <1>8, <1>9, <1>10
  <2>. QED  BY <1>6, <1>8, <1>9, <2>1
<1>. QED  BY <1>1, <1>2, <1>8, <1>10, <1>11 DEF StretchFrom

(* A prefix of a stretch of valid text that begins with a character is     *)
(* well-formed exactly when it ends with one.                              *)
LEMMA PrefixWellFormed ==
  ASSUME PumpTypes, ValidSoFar, NEW m \in Bounds(text), NEW c, StretchFrom(m, c),
         NEW n \in 1 .. Len(c)
  PROVE  WellFormed(SubSeq(c, 1, n)) <=> m + n \in Bounds(text)
<1>1. PICK p : p = SubSeq(c, 1, n)
  OBVIOUS
<1>2. /\ m \in Nat /\ Len(c) \in Nat /\ m + n <= written /\ written \in 0 .. MaxOut
      /\ MaxOut \in Nat
  BY PumpAssumption DEF StretchFrom, Bytes, PumpTypes, PumpTypeOK
<1>3. p \in Bytes /\ Len(p) = n /\ \A i \in 1 .. n : p[i] = m + i
  <2>1. p \in Bytes /\ Len(p) = n
    BY <1>1, <1>2, SplitSeq DEF StretchFrom, Bytes
  <2>2. \A i \in 1 .. n : p[i] = c[i]
    BY <1>1, <1>2 DEF StretchFrom, Bytes
  <2>3. \A i \in 1 .. n : c[i] = m + i
    BY <1>2 DEF StretchFrom
  <2>. QED  BY <2>1, <2>2, <2>3
<1>4. ToSet(p) = m + 1 .. m + n
  <2>1. ASSUME NEW u \in m + 1 .. m + n PROVE u \in ToSet(p)
    <3>1. u - m \in 1 .. n /\ p[u - m] = u
      BY <1>2, <1>3
    <3>. QED  BY <1>3, <3>1 DEF ToSet, Bytes
  <2>2. ToSet(p) \subseteq m + 1 .. m + n
    BY <1>2, <1>3 DEF ToSet, Bytes
  <2>. QED  BY <2>1, <2>2
<1>5. ASSUME WellFormed(p)
      PROVE  m + n \in Bounds(text)
  <2>1. m + n \in ToSet(p) /\ m + n \in 1 .. MaxOut
    BY <1>2, <1>4
  <2>2. End(text, m + n) \in m + 1 .. m + n
    BY <1>4, <1>5, <2>1, InItsChar DEF WellFormed, Whole
  <2>3. End(text, m + n) = m + n
    BY <1>2, <2>1, <2>2, EndFacts
  <2>. QED  BY <1>2, <2>1, <2>3, EndFacts
<1>6. ASSUME m + n \in Bounds(text)
      PROVE  WellFormed(p)
  <2>1. ASSUME NEW u \in ToSet(p)
        PROVE  Whole(u, ToSet(p))
    <3>1. u \in m + 1 .. m + n /\ u \in 1 .. MaxOut
      BY <1>2, <1>4, <2>1
    <3>2. m <= First(text, u) /\ First(text, u) \in 0 .. u - 1
      BY <3>1, <1>2, FirstFacts
    <3>3. End(text, u) <= m + n /\ End(text, u) \in u .. MaxOut + 1
      BY <3>1, <1>2, <1>6, EndFacts
    <3>4. CharOf(u) \subseteq m + 1 .. m + n
      BY <1>2, <3>1, <3>2, <3>3, CharOfIs
    <3>5. \A v \in CharOf(u) : v \in 1 .. written
      BY <1>2, <3>4
    <3>. QED  BY <1>4, <3>4, <3>5 DEF Whole, ValidSoFar
  <2>. QED  BY <2>1 DEF WellFormed
<1>. QED  BY <1>1, <1>5, <1>6

(* No character has more than four bytes: four bytes of valid text from    *)
(* the start of a character on are never held back.                        *)
LEMMA LongIsPublished ==
  ASSUME PumpTypes, ValidSoFar, NEW m \in Bounds(text), NEW c, StretchFrom(m, c),
         ValidPrefix(c) = 0
  PROVE  Len(c) <= 3
<1>. SUFFICES ASSUME Len(c) > 3 PROVE FALSE
  BY DEF StretchFrom, Bytes
<1>1. /\ m \in Nat /\ c \in Bytes /\ Len(c) \in Nat /\ m + Len(c) <= MaxOut
      /\ MaxOut \in Nat /\ text \in Texts
  <2>1. written <= MaxOut /\ written \in Nat /\ MaxOut \in Nat /\ text \in Texts
    BY PumpAssumption DEF PumpTypes, PumpTypeOK
  <2>2. m \in Nat /\ c \in Bytes /\ m + Len(c) <= written
    BY DEF StretchFrom
  <2>3. Len(c) \in Nat
    BY <2>2 DEF Bytes
  <2>. QED  BY <2>1, <2>2, <2>3
<1>2. m + Len(c) - 3 \in 1 .. MaxOut - 3
  BY <1>1
<1>3. PICK e \in m + Len(c) - 3 .. (m + Len(c) - 3) + 3 : text[e] # "mid"
  BY <1>1, <1>2, PumpAssumption
<1>4. PICK n : n = e - m
  OBVIOUS
<1>5. n \in 1 .. Len(c) /\ n >= Len(c) - 3 /\ m + n = e /\ e \in 1 .. MaxOut
  BY <1>1, <1>3, <1>4
<1>6. m + n \in Bounds(text)
  BY <1>3, <1>5 DEF Bounds
<1>7. WellFormed(SubSeq(c, 1, n))
  BY <1>5, <1>6, PrefixWellFormed
<1>. QED  BY <1>1, <1>5, <1>7, ValidPrefixFacts

LEMMA CleanNext ==
  ASSUME PumpTypes, Ordered, Clean, [PumpNext]_pumpVars
  PROVE  Clean'
<1>1. UNCHANGED text
  BY DEF PumpNext, Program, ProgramWrite, ProgramExit, Reader, ReadPty,
         ReadError, SendChunk, Collect, TakeChunk, TakeMore, PublishNothing,
         ReadLoopEnds, PublishOutput, PublishPrefix, PublishSanitised, FlushCarry, Emit,
         PublishReturns, ClosePty, ReportExit, pumpVars
<1>2. written \in Nat /\ written' \in written .. written + 1
  <2>1. written \in Nat
    BY PumpAssumption DEF PumpTypes, PumpTypeOK
  <2>2. written' = written \/ written' = written + 1
    BY DEF PumpNext, Program, ProgramWrite, ProgramExit, Reader, ReadPty, ReadError,
           SendChunk, Collect, TakeChunk, TakeMore, PublishNothing, ReadLoopEnds,
           PublishOutput, PublishPrefix, PublishSanitised, FlushCarry, PublishReturns,
           ClosePty, ReportExit, pumpVars
  <2>. QED  BY <2>1, <2>2
<1>3. SUFFICES ASSUME ValidSoFar'
               PROVE  /\ dropped' = {} /\ Len(carry') <= 3
                      /\ Len(FlattenSeq(out'))  \in Bounds(text) \/ Flushed'
  BY <1>1 DEF Clean
<1>4. ValidSoFar
  <2>1. \A n \in 1 .. written : n \in 1 .. written'
    BY <1>2
  <2>. QED  BY <1>1, <1>3, <2>1 DEF ValidSoFar
<1>5. dropped = {} /\ Len(carry) <= 3
  BY <1>4 DEF Clean
<1>6. CASE Flushed
  BY <1>5, <1>6, FlushedStays
<1>7. CASE ~Flushed
  <2>1. PICK m, c : m = Len(FlattenSeq(out)) /\ c = carry \o batch
    OBVIOUS
  <2>2. m \in Bounds(text) /\ StretchFrom(m, c)
    BY <1>4, <1>5, <1>7, <2>1, CombinedIsStretch DEF Clean
  <2>3. c \in Bytes /\ m \in Nat /\ Len(c) \in Nat
    BY <2>2 DEF StretchFrom, Bytes
  <2>4. CASE UNCHANGED <<out, carry, dropped>>
    BY <1>5, <2>1, <2>2, <2>4
  <2>5. CASE PublishPrefix
    <3>1. PICK n : n = ValidPrefix(c)
      OBVIOUS
    <3>2. /\ out' = Append(out, SubSeq(c, 1, n)) /\ n > 0
          /\ carry' = SubSeq(c, n + 1, Len(c)) /\ dropped' = dropped
      BY <2>1, <2>5, <3>1 DEF PublishPrefix, Emit
    <3>3. n \in 1 .. Len(c) /\ n >= Len(c) - 3 /\ WellFormed(SubSeq(c, 1, n))
      BY <2>3, <3>1, <3>2, ValidPrefixFacts
    <3>4. m + n \in Bounds(text)
      BY <1>4, <2>2, <3>3, PrefixWellFormed
    <3>5. PICK d : d = SubSeq(c, 1, n)
      OBVIOUS
    <3>6. d \in Bytes /\ Len(d) = n /\ Len(carry') = Len(c) - n
      <4>1. n \in 0 .. Len(c)
        BY <3>3
      <4>. QED  BY <2>3, <3>2, <3>5, <4>1, SplitSeq DEF Bytes
    <3>7. Len(FlattenSeq(out')) = m + n
      <4>1. FlattenSeq(out') = FlattenSeq(out) \o d
        BY <3>2, <3>5, <3>6, FlattenAppend DEF Bytes, PumpTypes, PumpTypeOK
      <4>2. FlattenSeq(out) \in Bytes
        BY PipelineTypes DEF PipelineTyped
      <4>. QED  BY <2>1, <3>6, <4>1, <4>2, BytesConcat
    <3>. QED  BY <1>5, <2>3, <3>2, <3>3, <3>4, <3>6, <3>7
  <2>6. CASE PublishSanitised
    <3>1. ValidPrefix(c) = 0 /\ Len(c) > 3
      BY <2>1, <2>3, <2>6, PumpAssumption DEF PublishSanitised
    <3>. QED  BY <1>4, <2>2, <2>3, <3>1, LongIsPublished
  <2>7. CASE PublishNothing
    <3>1. ValidPrefix(c) = 0 /\ carry' = c /\ UNCHANGED <<out, dropped>>
      BY <2>1, <2>7 DEF PublishNothing
    <3>. QED  BY <1>4, <1>5, <2>1, <2>2, <3>1, LongIsPublished
  <2>8. CASE FlushCarry
    BY <1>5, <2>8 DEF FlushCarry, Flushed, PumpTypes, PumpTypeOK
  <2>. QED
    BY <2>4, <2>5, <2>6, <2>7, <2>8
       DEF PumpNext, Program, ProgramWrite, ProgramExit, Reader, ReadPty, ReadError,
           SendChunk, Collect, TakeChunk, TakeMore, ReadLoopEnds, PublishOutput,
           PublishReturns, ClosePty, ReportExit, pumpVars
<1>. QED  BY <1>6, <1>7

(* Valid text is emitted whole, never more than three bytes of it late.    *)
THEOREM ValidTextSurvivesHolds == PumpSpec => []ValidTextSurvives
<1>1. PumpInit => Clean
  BY FlattenEmpty DEF PumpInit, Clean, Bounds
<1>2. Clean => ValidTextSurvives
  BY DEF Clean, ValidSoFar, ValidTextSurvives
<1>. QED
  BY <1>1, <1>2, CleanNext, OrderedInit, OrderedNext, PumpTypesInit, PumpTypesNext, PTL
     DEF PumpSpec

-----------------------------------------------------------------------------
(* The end.                                                                *)

(* When waitLoop has reported the exit the publisher is done.              *)
ExitIsLast == waiter = "exited" => publisher = "done"

LEMMA ExitIsLastNext == ExitIsLast /\ [PumpNext]_pumpVars => ExitIsLast'
  BY DEF PumpNext, Program, ProgramWrite, ProgramExit, Reader, ReadPty, ReadError,
         SendChunk, Collect, TakeChunk, TakeMore, PublishNothing, ReadLoopEnds,
         PublishOutput, PublishPrefix, PublishSanitised, FlushCarry, Emit,
         PublishReturns, ClosePty, ReportExit, pumpVars, ExitIsLast

(* No output is emitted after the exit has been reported.                  *)
THEOREM NothingAfterExitHolds == PumpSpec => NothingAfterExit
<1>1. PumpInit => ExitIsLast
  BY DEF PumpInit, ExitIsLast
<1>2. ExitIsLast /\ [PumpNext]_pumpVars => ExitIsLast'
  BY ExitIsLastNext
<1>3. ExitIsLast /\ [PumpNext]_pumpVars => [waiter = "exited" => out' = out]_pumpVars
  BY DEF PumpNext, Program, ProgramWrite, ProgramExit, Reader, ReadPty, ReadError,
         SendChunk, Collect, TakeChunk, TakeMore, PublishNothing, ReadLoopEnds,
         PublishOutput, PublishPrefix, PublishSanitised, FlushCarry, Emit,
         PublishReturns, ClosePty, ReportExit, pumpVars, ExitIsLast
<1>. QED  BY <1>1, <1>2, <1>3, PTL DEF PumpSpec, NothingAfterExit


-----------------------------------------------------------------------------
(* The two parts.                                                          *)

PumpInv == PumpTypes /\ BuffersBounded /\ Ordered /\ ExitIsLast

LEMMA PumpInvInit == PumpInit => PumpInv
<1>1. PumpInit => BuffersBounded /\ ExitIsLast
  BY PumpAssumption DEF PumpInit, BuffersBounded, ExitIsLast
<1>. QED  BY <1>1, PumpTypesInit, OrderedInit DEF PumpInv

LEMMA PumpInvNext == PumpInv /\ [PumpNext]_pumpVars => PumpInv'
  BY PumpTypesNext, BuffersNext, OrderedNext, ExitIsLastNext DEF PumpInv

LEMMA PumpStep == [Next]_vars => [PumpNext]_pumpVars
  BY DEF Next, vars, PumpOnly, StartPublish, EndPublish, PublishExit, StreamOnly, PumpNext

(* The publisher emits one more event, with data of its own.               *)
LEMMA StartPublishFacts ==
  ASSUME PumpInv, StartPublish
  PROVE  \E d \in Payloads : out' = Append(out, d) /\ EmitOutput(d) /\ d \in Bytes
<1>1. [PumpNext]_pumpVars
  BY DEF StartPublish, PumpNext
<1>2. /\ PumpTypes /\ out \in Seq(Bytes) /\ PumpTypes' /\ BuffersBounded'
      /\ out' \in Seq(Bytes)
  BY <1>1, PumpInvNext DEF PumpInv, PumpTypes, PumpTypeOK
<1>3. \E d : out' = Append(out, d)
  BY DEF StartPublish, PublishOutput, PublishPrefix, PublishSanitised, FlushCarry, Emit
<1>4. PICK d : out' = Append(out, d)
  BY <1>3
<1>5. PICK n : n = Len(out) + 1
  OBVIOUS
<1>6. n \in Nat /\ Len(out') = n /\ n \in 1 .. Len(out') /\ out'[n] = d
  BY <1>2, <1>4, <1>5
<1>7. d \in Bytes /\ Len(d) < BatchMax + ReadMax + CarryMax
  BY <1>2, <1>6 DEF BuffersBounded
<1>8. Last(out') = d
  BY <1>6 DEF Last
<1>9. d \in Payloads
  <2>1. /\ Len(d) \in Nat /\ d \in [1 .. Len(d) -> 1 .. MaxOut]
        /\ Len(d) \in 0 .. BatchMax + ReadMax + CarryMax
    BY <1>7, PumpAssumption DEF Bytes
  <2>. QED  BY <2>1, SessionAssumption
<1>. QED  BY <1>4, <1>7, <1>8, <1>9 DEF StartPublish

LEMMA StreamStepHolds == PumpInv /\ [Next]_vars => [AnyNext]_streamVars
<1>1. ASSUME PumpInv, StartPublish PROVE AnyNext
  BY <1>1, StartPublishFacts DEF AnyNext
<1>2. ASSUME PublishExit PROVE AnyNext
  BY <1>2 DEF PublishExit, AnyNext
<1>3. ASSUME StreamOnly PROVE AnyNext
  BY <1>3 DEF StreamOnly, AnyNext
<1>. QED  BY <1>1, <1>2, <1>3 DEF Next, vars, PumpOnly, EndPublish

(* The invariants of the parts hold of the whole.                          *)
PartsInv == PumpInv /\ Inv

LEMMA PartsInit == Init => PartsInv
  BY PumpInvInit, InvInit DEF Init, PartsInv

LEMMA PartsNext == PartsInv /\ [Next]_vars => PartsInv'
  BY PumpInvNext, PumpStep, InvStep, StreamStepHolds DEF PartsInv

(* A session's stream delivers as EventStream does, whatever the pump      *)
(* emits: every client reads the log of the session in order, and only     *)
(* what the ring evicted is missing.                                       *)
THEOREM SessionImplementsLog == Spec => ImplementsLog
<1>1. PartsInv /\ [Next]_vars => [Log!LogNext]_(Log!logVars)
  BY LogStep, StreamStepHolds DEF PartsInv
<1>2. Init => Log!LogInit
  BY LogInitial DEF Init
<1>. QED
  BY <1>1, <1>2, PartsInit, PartsNext, PTL DEF Spec, ImplementsLog, Log!LogSpec

-----------------------------------------------------------------------------
(* The hand-over between publisher and publish.                            *)

LEMMA StreamStepIdle ==
  ASSUME StreamStep
  PROVE  exited' = exited /\ (pub' # "idle" => pub # "idle")
  BY DEF StreamStep, Publisher, Evict, RingDone, SnapshotSubs, Deliver, Detach,
         PublishDone, Unlist, Handler, Subscribe, CopyRing, ReplaySkip, ReplayWrite,
         ReplayDone, LiveSkip, LiveOutput, LiveExit, Hangup, Client, Connect, NotFound,
         Receive, Drop, sessionVars, pubVars, handlerVars, clientVars

LEMMA HandOverNext == HandOver /\ [Next]_vars => HandOver'
<1>. SUFFICES ASSUME HandOver, [Next]_vars PROVE HandOver'
  OBVIOUS
<1>. USE DEF HandOver
<1>1. CASE UNCHANGED vars
  BY <1>1 DEF vars, pumpVars, streamVars, sessionVars, pubVars
<1>2. CASE PumpOnly
  BY <1>2 DEF PumpOnly, Program, ProgramWrite, ProgramExit, Reader, ReadPty, ReadError,
       SendChunk, Collect, TakeChunk, TakeMore, PublishNothing, ReadLoopEnds, ClosePty,
       streamVars, sessionVars, pubVars
<1>3. CASE StartPublish
  BY <1>3 DEF StartPublish, PublishOutput, PublishPrefix, PublishSanitised, FlushCarry,
       Emit, EmitOutput
<1>4. CASE EndPublish
  BY <1>4 DEF EndPublish, PublishReturns, streamVars, sessionVars, pubVars
<1>5. CASE PublishExit
  BY <1>5 DEF PublishExit, ReportExit, EmitExit
<1>6. CASE StreamOnly
  BY <1>6, StreamStepIdle DEF StreamOnly, pumpVars
<1>. QED  BY <1>1, <1>2, <1>3, <1>4, <1>5, <1>6 DEF Next

(* publish is only at work while the publisher goroutine waits for it or   *)
(* waitLoop reports the exit.                                              *)
THEOREM HandOverHolds == Spec => []HandOver
<1>1. Init => HandOver
  BY DEF Init, PumpInit, StreamInit, HandOver
<1>. QED  BY <1>1, HandOverNext, PTL DEF Spec

-----------------------------------------------------------------------------
(* What the events carry.                                                  *)

(* Every event anywhere between publish and the clients.                   *)
Carried ==
  {cur} \cup ToSet(ring) \cup
  UNION {ToSet(chan[s]) \cup ToSet(replay[s]) \cup ToSet(wire[s]) : s \in Streams}

LEMMA QueueElements ==
  ASSUME NEW q \in Seq(Event)
  PROVE  /\ q # <<>> => Head(q) \in ToSet(q) /\ ToSet(Tail(q)) \subseteq ToSet(q)
         /\ \A e \in Event : ToSet(Append(q, e)) = ToSet(q) \cup {e}
<1>1. ASSUME q # <<>>
      PROVE  Head(q) \in ToSet(q) /\ ToSet(Tail(q)) \subseteq ToSet(q)
  <2>1. PICK t : t = Tail(q)
    OBVIOUS
  <2>2. /\ t \in Seq(Event) /\ Head(q) = q[1] /\ Len(q) = Len(t) + 1 /\ Len(t) \in Nat
        /\ \A i \in 1 .. Len(t) : t[i] = q[i + 1]
    BY <1>1, <2>1, TailFacts
  <2>3. 1 \in DOMAIN q
    BY <2>2
  <2>4. \A i \in DOMAIN t : i + 1 \in DOMAIN q /\ t[i] = q[i + 1]
    BY <2>2
  <2>. QED  BY <2>1, <2>2, <2>3, <2>4 DEF ToSet
<1>2. ASSUME NEW e \in Event
      PROVE  ToSet(Append(q, e)) = ToSet(q) \cup {e}
  <2>1. PICK p : p = Append(q, e)
    OBVIOUS
  <2>2. /\ Len(p) = Len(q) + 1 /\ Len(q) \in Nat /\ p[Len(q) + 1] = e
        /\ \A i \in 1 .. Len(q) : p[i] = q[i]
        /\ p \in Seq(Event)
    BY <2>1, AppendFacts
  <2>3. DOMAIN p = 1 .. Len(q) + 1 /\ DOMAIN q = 1 .. Len(q)
    BY <2>2
  <2>4. \A i \in 1 .. Len(q) + 1 : i = Len(q) + 1 \/ i \in 1 .. Len(q)
    BY <2>2
  <2>5. Len(q) + 1 \in 1 .. Len(q) + 1 /\ \A i \in 1 .. Len(q) : i \in 1 .. Len(q) + 1
    BY <2>2
  <2>6. ToSet(p) \subseteq ToSet(q) \cup {e}
    BY <2>2, <2>3, <2>4 DEF ToSet
  <2>7. ToSet(q) \cup {e} \subseteq ToSet(p)
    BY <2>2, <2>3, <2>5 DEF ToSet
  <2>. QED  BY <2>1, <2>6, <2>7
<1>. QED  BY <1>1, <1>2

(* Whatever is in a queue is carried.                                      *)
LEMMA CarriedFacts ==
  ASSUME TypeInv, NEW s \in Streams
  PROVE  /\ cur \in Carried /\ ToSet(ring) \subseteq Carried
         /\ ToSet(chan[s]) \subseteq Carried /\ ToSet(replay[s]) \subseteq Carried
         /\ ToSet(wire[s]) \subseteq Carried
  BY DEF Carried

(* If nothing new enters any queue, nothing new is carried.                *)
LEMMA NothingNew ==
  ASSUME NEW X, cur' \in X, ToSet(ring') \subseteq X,
         \A s \in Streams : /\ ToSet(chan'[s]) \subseteq X
                            /\ ToSet(replay'[s]) \subseteq X
                            /\ ToSet(wire'[s]) \subseteq X
  PROVE  Carried' \subseteq X
  BY DEF Carried

LEMMA WriteCarried ==
  ASSUME TypeInv, NEW s \in Streams, NEW ev \in Event, ev \in Carried, WriteEvent(s, ev)
  PROVE  \A r \in Streams : ToSet(wire'[r]) \subseteq Carried
<1>. TAKE r \in Streams
<1>1. wire \in [Streams -> Seq(Event)] /\ ToSet(wire[r]) \subseteq Carried
  BY CarriedFacts DEF TypeInv, StreamTypeOK
<1>2. CASE broken[s] \/ r # s
  BY <1>1, <1>2 DEF WriteEvent
<1>3. CASE ~broken[s] /\ r = s
  <2>1. wire'[r] = Append(wire[r], ev)
    BY <1>1, <1>3 DEF WriteEvent
  <2>. QED  BY <1>1, <2>1, QueueElements
<1>. QED  BY <1>2, <1>3

(* An event moves from the ring, from publish, through the channel or the  *)
(* replay to the wire; only the emissions make one.                        *)
LEMMA CarriedStep ==
  ASSUME TypeInv, [AnyNext]_streamVars
  PROVE  Carried' \subseteq Carried \cup {cur'}
<1>. USE DEF sessionVars, pubVars, handlerVars, clientVars
<1>1. /\ ring \in Seq(Event) /\ cur \in Event
      /\ chan \in [Streams -> Seq(Event)] /\ replay \in [Streams -> Seq(Event)]
      /\ wire \in [Streams -> Seq(Event)]
      /\ ToSet(ring) \subseteq Carried /\ cur \in Carried
      /\ \A s \in Streams : /\ ToSet(chan[s]) \subseteq Carried
                            /\ ToSet(replay[s]) \subseteq Carried
                            /\ ToSet(wire[s]) \subseteq Carried
  BY CarriedFacts DEF TypeInv, StreamTypeOK, Carried
<1>2. ASSUME UNCHANGED <<cur, ring, chan, replay, wire>>
      PROVE  Carried' \subseteq Carried \cup {cur'}
  BY <1>2 DEF Carried
<1>3. ASSUME NEW d \in Payloads, EmitOutput(d)
      PROVE  Carried' \subseteq Carried \cup {cur'}
  <2>1. /\ ring' = Append(ring, cur') /\ UNCHANGED <<chan, replay, wire>>
        /\ cur' \in Event
    BY <1>1, <1>3 DEF EmitOutput, OutputEvent, Event, TypeInv, StreamTypeOK
  <2>2. ToSet(ring') \subseteq Carried \cup {cur'}
    BY <1>1, <2>1, QueueElements
  <2>. QED  BY <1>1, <2>1, <2>2, NothingNew
<1>4. ASSUME EmitExit
      PROVE  Carried' \subseteq Carried \cup {cur'}
  <2>1. UNCHANGED <<ring, chan, replay, wire>>
    BY <1>4 DEF EmitExit
  <2>. QED  BY <2>1 DEF Carried
<1>5. CASE Evict
  <2>1. ToSet(ring') \subseteq Carried
    BY <1>1, <1>5, QueueElements DEF Evict
  <2>2. UNCHANGED <<cur, chan, replay, wire>>
    BY <1>5 DEF Evict
  <2>. QED  BY <1>1, <2>1, <2>2, NothingNew
<1>6. ASSUME NEW s \in Streams, Deliver(s)
      PROVE  Carried' \subseteq Carried \cup {cur'}
  <2>1. chan' = [chan EXCEPT ![s] = Append(@, cur)] /\ UNCHANGED <<cur, ring, replay, wire>>
    BY <1>6 DEF Deliver
  <2>2. ToSet(Append(chan[s], cur)) \subseteq Carried
    BY <1>1, QueueElements
  <2>3. \A r \in Streams : ToSet(chan'[r]) \subseteq Carried
    BY <1>1, <2>1, <2>2
  <2>. QED  BY <1>1, <2>1, <2>3, NothingNew
<1>7. ASSUME NEW s \in Streams, CopyRing(s)
      PROVE  Carried' \subseteq Carried \cup {cur'}
  <2>1. /\ \A r \in Streams : replay'[r] = replay[r] \/ replay'[r] = ring
        /\ UNCHANGED <<cur, ring, chan, wire>>
    BY <1>1, <1>7 DEF CopyRing
  <2>. QED  BY <1>1, <2>1, NothingNew
<1>8. ASSUME NEW s \in Streams, ReplaySkip(s) \/ ReplayWrite(s)
      PROVE  Carried' \subseteq Carried \cup {cur'}
  <2>1. /\ replay[s] # <<>> /\ replay' = [replay EXCEPT ![s] = Tail(@)]
        /\ UNCHANGED <<cur, ring, chan>>
        /\ wire' = wire \/ WriteEvent(s, Head(replay[s]))
    BY <1>8 DEF ReplaySkip, ReplayWrite
  <2>2. /\ Head(replay[s]) \in Event /\ Head(replay[s]) \in Carried
        /\ ToSet(Tail(replay[s])) \subseteq Carried
    BY <1>1, <2>1, QueueElements, HeadTail
  <2>3. \A r \in Streams : ToSet(replay'[r]) \subseteq Carried
    BY <1>1, <2>1, <2>2
  <2>4. \A r \in Streams : ToSet(wire'[r]) \subseteq Carried
    BY <1>1, <2>1, <2>2, WriteCarried
  <2>. QED  BY <1>1, <2>1, <2>3, <2>4, NothingNew
<1>9. ASSUME NEW s \in Streams, LiveSkip(s) \/ LiveOutput(s) \/ LiveExit(s)
      PROVE  Carried' \subseteq Carried \cup {cur'}
  <2>1. /\ chan[s] # <<>> /\ chan' = [chan EXCEPT ![s] = Tail(@)]
        /\ UNCHANGED <<cur, ring, replay>>
        /\ wire' = wire \/ WriteEvent(s, Head(chan[s]))
    BY <1>9 DEF LiveSkip, LiveOutput, LiveExit
  <2>2. /\ Head(chan[s]) \in Event /\ Head(chan[s]) \in Carried
        /\ ToSet(Tail(chan[s])) \subseteq Carried
    BY <1>1, <2>1, QueueElements, HeadTail
  <2>3. \A r \in Streams : ToSet(chan'[r]) \subseteq Carried
    BY <1>1, <2>1, <2>2
  <2>4. \A r \in Streams : ToSet(wire'[r]) \subseteq Carried
    BY <1>1, <2>1, <2>2, WriteCarried
  <2>. QED  BY <1>1, <2>1, <2>3, <2>4, NothingNew
<1>10. ASSUME NEW c \in Clients, Receive(c) \/ Drop(c)
       PROVE  Carried' \subseteq Carried \cup {cur'}
  <2>1. /\ attached[c] \in Streams /\ UNCHANGED <<cur, ring, chan, replay>>
        /\ \A r \in Streams : \/ wire'[r] = wire[r]
                              \/ wire'[r] = <<>>
                              \/ wire[r] # <<>> /\ wire'[r] = Tail(wire[r])
    BY <1>1, <1>10 DEF Receive, Drop, TypeInv
  <2>2. \A r \in Streams : ToSet(wire'[r]) \subseteq Carried
    <3>1. ToSet(<<>>) = {}
      BY DEF ToSet
    <3>. QED  BY <1>1, <2>1, <3>1, QueueElements
  <2>. QED  BY <1>1, <2>1, <2>2, NothingNew
<1>11. ASSUME StreamStep PROVE Carried' \subseteq Carried \cup {cur'}
  <2>1. CASE Publisher
    BY <1>2, <1>5, <1>6, <2>1 DEF Publisher, RingDone, SnapshotSubs, Detach, PublishDone
  <2>2. CASE Unlist
    BY <1>2, <2>2 DEF Unlist
  <2>3. ASSUME NEW s \in Streams, Handler(s) PROVE Carried' \subseteq Carried \cup {cur'}
    BY <1>2, <1>7, <1>8, <1>9, <2>3 DEF Handler, Subscribe, ReplayDone, Hangup
  <2>4. ASSUME NEW c \in Clients, Client(c) PROVE Carried' \subseteq Carried \cup {cur'}
    BY <1>2, <1>10, <2>4 DEF Client, Connect, NotFound
  <2>. QED  BY <1>11, <2>1, <2>2, <2>3, <2>4 DEF StreamStep
<1>12. CASE UNCHANGED streamVars
  BY <1>2, <1>12 DEF streamVars
<1>13. CASE AnyNext
  BY <1>3, <1>4, <1>11, <1>13 DEF AnyNext
<1>. QED  BY <1>12, <1>13

(* Event e carries the data emitted under its number, or is the exit       *)
(* event, which comes after all of them (or publish's cur before it has    *)
(* published anything).                                                    *)
TrueTo(e) ==
  IF e.type = "output" THEN e.seq \in DOMAIN out /\ e.data = out[e.seq]
  ELSE e.seq = 0 \/ (exited /\ e.seq > Len(out))

Matches ==
  /\ \A e \in Carried : TrueTo(e)
  /\ seq = IF exited THEN Len(out) + 1 ELSE Len(out)

LEMMA StreamStepSeq ==
  ASSUME StreamStep
  PROVE  UNCHANGED <<seq, exited, cur>>
  BY DEF StreamStep, Publisher, Evict, RingDone, SnapshotSubs, Deliver, Detach,
         PublishDone, Unlist, Handler, Subscribe, CopyRing, ReplaySkip, ReplayWrite,
         ReplayDone, LiveSkip, LiveOutput, LiveExit, Hangup, Client, Connect, NotFound,
         Receive, Drop, sessionVars, pubVars, handlerVars, clientVars

(* A step either leaves the numbering alone, emits output, or the exit.    *)
LEMMA SessionSteps ==
  ASSUME PartsInv, [Next]_vars
  PROVE  \/ UNCHANGED <<out, seq, exited, cur>>
         \/ \E d \in Payloads \cap Bytes : out' = Append(out, d) /\ EmitOutput(d)
         \/ UNCHANGED out /\ EmitExit
<1>1. CASE UNCHANGED vars
  BY <1>1 DEF vars, pumpVars, streamVars, sessionVars, pubVars
<1>2. CASE PumpOnly
  BY <1>2 DEF PumpOnly, Program, ProgramWrite, ProgramExit, Reader, ReadPty, ReadError,
       SendChunk, Collect, TakeChunk, TakeMore, PublishNothing, ReadLoopEnds, ClosePty,
       streamVars, sessionVars, pubVars
<1>3. CASE StartPublish
  BY <1>3, StartPublishFacts DEF PartsInv
<1>4. CASE EndPublish
  BY <1>4 DEF EndPublish, PublishReturns, streamVars, sessionVars, pubVars
<1>5. CASE PublishExit
  BY <1>5 DEF PublishExit, ReportExit
<1>6. CASE StreamOnly
  BY <1>6, StreamStepSeq DEF StreamOnly, pumpVars
<1>. QED  BY <1>1, <1>2, <1>3, <1>4, <1>5, <1>6 DEF Next

LEMMA MatchesNext ==
  ASSUME PartsInv, Matches, [Next]_vars
  PROVE  Matches'
<1>1. /\ out \in Seq(Bytes) /\ Len(out) \in Nat /\ exited \in BOOLEAN
      /\ Carried' \subseteq Carried \cup {cur'} /\ cur \in Carried
  <2>1. TypeInv /\ out \in Seq(Bytes)
    BY DEF PartsInv, PumpInv, PumpTypes, PumpTypeOK, Inv
  <2>2. exited \in BOOLEAN
    BY <2>1 DEF TypeInv, StreamTypeOK
  <2>3. [AnyNext]_streamVars
    BY StreamStepHolds DEF PartsInv
  <2>. QED  BY <2>1, <2>2, <2>3, CarriedStep DEF Carried
<1>2. CASE UNCHANGED <<out, seq, exited, cur>>
  BY <1>1, <1>2 DEF Matches, TrueTo
<1>3. ASSUME NEW d \in Payloads \cap Bytes, out' = Append(out, d), EmitOutput(d)
      PROVE  Matches'
  <2>1. /\ ~exited /\ ~exited' /\ seq = Len(out) /\ seq' = Len(out) + 1
        /\ cur' = OutputEvent(Len(out) + 1, d)
    BY <1>1, <1>3 DEF EmitOutput, Matches
  <2>2. /\ Len(out') = Len(out) + 1 /\ out'[Len(out) + 1] = d /\ out' \in Seq(Bytes)
        /\ \A i \in 1 .. Len(out) : out'[i] = out[i]
    BY <1>1, <1>3, AppendFacts
  <2>3. DOMAIN out = 1 .. Len(out) /\ DOMAIN out' = 1 .. Len(out) + 1
    BY <1>1, <2>2
  <2>4. ASSUME NEW e \in Carried PROVE TrueTo(e)'
    BY <1>1, <2>1, <2>2, <2>3 DEF Matches, TrueTo
  <2>5. TrueTo(cur)'
    BY <1>1, <2>1, <2>2, <2>3 DEF TrueTo, OutputEvent
  <2>. QED  BY <1>1, <2>1, <2>2, <2>4, <2>5 DEF Matches
<1>4. CASE UNCHANGED out /\ EmitExit
  <2>1. /\ ~exited /\ exited' /\ seq = Len(out) /\ seq' = Len(out) + 1
        /\ cur' = ExitEvent(Len(out) + 1) /\ out' = out
    BY <1>1, <1>4 DEF EmitExit, Matches
  <2>2. ASSUME NEW e \in Carried PROVE TrueTo(e)'
    BY <2>1 DEF Matches, TrueTo
  <2>3. TrueTo(cur)'
    BY <1>1, <2>1 DEF TrueTo, ExitEvent
  <2>. QED  BY <1>1, <2>1, <2>2, <2>3 DEF Matches
<1>. QED  BY <1>2, <1>3, <1>4, SessionSteps

LEMMA MatchesInit == Init => Matches
<1>. SUFFICES ASSUME Init PROVE Matches
  OBVIOUS
<1>1. ToSet(<<>>) = {}
  BY DEF ToSet
<1>2. Carried = {ExitEvent(0)}
  BY <1>1 DEF Init, StreamInit, Carried
<1>. QED  BY <1>2 DEF Matches, TrueTo, ExitEvent, Init, StreamInit, PumpInit

(* Every event in the ring, in a channel, in a replay or on a connection   *)
(* carries exactly the bytes emitted under its number.                     *)
THEOREM EventsMatchOutputHolds == Spec => []EventsMatchOutput
<1>1. PartsInv /\ Matches => EventsMatchOutput
  <2>. SUFFICES ASSUME PartsInv, Matches PROVE EventsMatchOutput
    OBVIOUS
  <2>1. /\ ring \in Seq(Event)
        /\ \A s \in Streams : /\ chan[s] \in Seq(Event) /\ replay[s] \in Seq(Event)
                              /\ wire[s] \in Seq(Event)
    BY DEF PartsInv, Inv, TypeInv, StreamTypeOK
  <2>2. ASSUME NEW q \in Seq(Event), ToSet(q) \subseteq Carried, NEW i \in 1 .. Len(q),
               q[i].type = "output"
        PROVE  q[i].seq \in DOMAIN out /\ q[i].data = out[q[i].seq]
    BY <2>2, ToSetFacts DEF Matches, TrueTo
  <2>3. ToSet(ring) \subseteq Carried
    BY DEF Carried
  <2>4. ASSUME NEW s \in Streams
        PROVE  /\ ToSet(chan[s]) \subseteq Carried /\ ToSet(replay[s]) \subseteq Carried
               /\ ToSet(wire[s]) \subseteq Carried
    BY DEF Carried
  <2>. QED  BY <2>1, <2>2, <2>3, <2>4 DEF EventsMatchOutput
<1>. QED  BY <1>1, PartsInit, PartsNext, MatchesInit, MatchesNext, PTL DEF Spec

-----------------------------------------------------------------------------
(* What the terminals show.                                                *)

(* The pieces client c has shown are the events at e, in their order, and  *)
(* up to the last number it has seen it has shown all that is not evicted. *)
ShownAt(c, e) ==
  /\ e \in [1 .. Len(screen[c]) -> DOMAIN out]
  /\ \A i \in 1 .. Len(screen[c]) : e[i] <= clast[c] /\ screen[c][i] = out[e[i]]
  /\ \A i, j \in 1 .. Len(screen[c]) : i < j => e[i] < e[j]
  /\ \A n \in DOMAIN out : n <= clast[c] =>
       n <= evicted \/ \E i \in 1 .. Len(screen[c]) : e[i] = n

Shown(c) == \E e : ShownAt(c, e)

(* Nothing but Receive changes what a client has seen.                     *)
LEMMA OnlyReceiveShows ==
  ASSUME TypeInv, RingInv, [AnyNext]_streamVars, NEW c \in Clients
  PROVE  /\ evicted <= evicted'
         /\ ~Receive(c) => UNCHANGED <<clast[c], screen[c]>>
<1>. USE DEF sessionVars, pubVars, handlerVars, clientVars
<1>1. /\ evicted \in Nat /\ clast \in [Clients -> Nat]
      /\ screen \in [Clients -> Seq(Payloads \cup {<<>>})]
      /\ ring # <<>> => Head(ring).seq = evicted + 1
  BY DEF TypeInv, StreamTypeOK, RingInv
<1>2. CASE UNCHANGED streamVars
  BY <1>1, <1>2 DEF streamVars
<1>3. CASE \E d \in Payloads : EmitOutput(d)
  BY <1>1, <1>3 DEF EmitOutput
<1>4. CASE EmitExit
  BY <1>1, <1>4 DEF EmitExit
<1>5. CASE Publisher
  BY <1>1, <1>5 DEF Publisher, Evict, RingDone, SnapshotSubs, Deliver, Detach, PublishDone
<1>6. CASE Unlist
  BY <1>1, <1>6 DEF Unlist
<1>7. ASSUME NEW s \in Streams, Handler(s)
      PROVE  UNCHANGED <<evicted, clast, screen>>
  BY <1>7 DEF Handler, Subscribe, CopyRing, ReplaySkip, ReplayWrite, ReplayDone,
              LiveSkip, LiveOutput, LiveExit, Hangup
<1>8. ASSUME NEW d \in Clients, Client(d)
      PROVE  evicted' = evicted /\ (~Receive(c) => UNCHANGED <<clast[c], screen[c]>>)
  <2>1. CASE Receive(d)
    BY <1>1, <2>1 DEF Receive
  <2>. QED  BY <1>8, <2>1 DEF Client, Connect, NotFound, Drop
<1>. QED  BY <1>1, <1>2, <1>3, <1>4, <1>5, <1>6, <1>7, <1>8 DEF AnyNext, StreamStep

(* More output, or more evicted, takes nothing from the screen.            *)
LEMMA ShownQuiet ==
  ASSUME NEW c \in Clients, Shown(c), screen[c] \in Seq(Payloads \cup {<<>>}),
         out \in Seq(Bytes), out' \in Seq(Bytes), clast[c] \in Nat,
         evicted \in Nat, evicted' \in Nat, evicted <= evicted',
         UNCHANGED <<clast[c], screen[c]>>, Len(out) <= Len(out'),
         \A n \in DOMAIN out : out'[n] = out[n],
         \A n \in DOMAIN out' : n \in DOMAIN out \/ n > clast[c]
  PROVE  Shown(c)'
<1>1. PICK e : ShownAt(c, e)
  BY DEF Shown
<1>2. /\ clast'[c] = clast[c] /\ screen'[c] = screen[c]
      /\ DOMAIN out \subseteq DOMAIN out' /\ \A n \in DOMAIN out : n \in Nat
  OBVIOUS
<1>3. PICK q : q = screen[c]
  OBVIOUS
<1>4. /\ e \in [1 .. Len(q) -> DOMAIN out]
      /\ \A i \in 1 .. Len(q) : e[i] <= clast[c] /\ q[i] = out[e[i]]
      /\ \A i, j \in 1 .. Len(q) : i < j => e[i] < e[j]
      /\ \A n \in DOMAIN out : n <= clast[c] =>
           n <= evicted \/ \E i \in 1 .. Len(q) : e[i] = n
  BY <1>1, <1>3 DEF ShownAt
<1>5. e \in [1 .. Len(q) -> DOMAIN out']
  BY <1>2, <1>4
<1>6. \A i \in 1 .. Len(q) : e[i] <= clast[c] /\ q[i] = out'[e[i]]
  BY <1>2, <1>4
<1>7. ASSUME NEW n \in DOMAIN out', n <= clast[c]
      PROVE  n <= evicted' \/ \E i \in 1 .. Len(q) : e[i] = n
  <2>1. n \in DOMAIN out /\ n \in Nat
    BY <1>2, <1>7
  <2>. QED  BY <1>4, <1>7, <2>1
<1>8. ShownAt(c, e)'
  BY <1>2, <1>3, <1>4, <1>5, <1>6, <1>7 DEF ShownAt
<1>. QED  BY <1>8 DEF Shown

(* Receive shows the next piece of output, and if it is not the very next  *)
(* the ones between have been evicted.                                     *)
LEMMA ShownReceive ==
  ASSUME PartsInv, Matches, NEW c \in Clients, Shown(c), Receive(c),
         UNCHANGED <<out, evicted>>
  PROVE  Shown(c)'
<1>1. PICK e : ShownAt(c, e)
  BY DEF Shown
<1>2. PICK s \in Streams : s = attached[c] /\ cstate[c] = "attached" /\ wire[s] # <<>>
  BY DEF Receive, PartsInv, Inv, TypeInv
<1>3. PICK ev \in Event : ev = Head(wire[s]) /\ ev \in Carried
  <2>1. wire[s] \in Seq(Event)
    BY DEF PartsInv, Inv, TypeInv, StreamTypeOK
  <2>. QED  BY <1>2, <2>1, QueueElements, HeadTail DEF Carried
<1>4. /\ out \in Seq(Bytes) /\ clast \in [Clients -> Nat] /\ evicted \in Nat
      /\ screen \in [Clients -> Seq(Payloads \cup {<<>>})]
      /\ ev.seq \in Nat /\ ev.data \in Payloads \cup {<<>>}
      /\ ev.type = "output" \/ ev.type = "exit"
  BY DEF PartsInv, PumpInv, PumpTypes, PumpTypeOK, Inv, TypeInv, StreamTypeOK, Event
<1>5. ev.seq <= clast[c] + 1 \/ ev.seq - 1 <= evicted
  <2>1. ClientInv(c) /\ s # NoStream
    BY <1>2, StreamAssumption DEF PartsInv, Inv, DeliveryInv
  <2>. QED  BY <1>2, <1>3, <2>1 DEF ClientInv, Follows
<1>6. CASE ev.seq <= clast[c]
  <2>1. clast' = clast /\ screen' = screen /\ out' = out /\ evicted' = evicted
    BY <1>2, <1>3, <1>6 DEF Receive
  <2>2. ShownAt(c, e)'
    BY ONLY <1>1, <2>1 DEF ShownAt
  <2>. QED  BY <2>2 DEF Shown
<1>7. CASE ev.seq > clast[c] /\ ev.type = "exit"
  <2>1. screen' = screen /\ clast'[c] = ev.seq
    BY <1>2, <1>3, <1>4, <1>7 DEF Receive
  <2>2. \A n \in DOMAIN out : n < ev.seq
    <3>1. ev.seq > Len(out) /\ DOMAIN out = 1 .. Len(out) /\ Len(out) \in Nat
      BY <1>3, <1>4, <1>7 DEF Matches, TrueTo
    <3>. QED  BY <1>4, <3>1
  <2>3. \A n \in DOMAIN out : n <= clast[c] \/ n <= evicted
    BY <1>4, <1>5, <2>2
  <2>4. ShownAt(c, e)'
    <3>1. \A i \in 1 .. Len(screen[c]) : e[i] <= clast'[c]
      <4>1. \A i \in 1 .. Len(screen[c]) : e[i] \in DOMAIN out
        BY <1>1 DEF ShownAt
      <4>2. \A n \in DOMAIN out : n \in Nat
        BY <1>4
      <4>. QED  BY <1>4, <2>1, <2>2, <4>1, <4>2
    <3>. QED  BY <1>1, <2>1, <2>3, <3>1 DEF ShownAt
  <2>. QED  BY <2>4 DEF Shown
<1>8. CASE ev.seq > clast[c] /\ ev.type = "output"
  <2>1. PICK m : m = ev.seq
    OBVIOUS
  <2>2. /\ screen' = [screen EXCEPT ![c] = Append(@, ev.data)]
        /\ clast' = [clast EXCEPT ![c] = m]
    <3>1. ~(Head(wire[s]).seq <= clast[c]) /\ Head(wire[s]).type = "output"
      BY <1>3, <1>4, <1>8
    <3>. QED  BY <1>2, <1>3, <2>1, <3>1 DEF Receive
  <2>3. m \in DOMAIN out /\ ev.data = out[m] /\ m \in Nat /\ m > clast[c]
    BY <1>3, <1>4, <1>8, <2>1 DEF Matches, TrueTo
  <2>4. PICK q, k : q = screen[c] /\ k = Len(q)
    OBVIOUS
  <2>5. PICK r : r = screen'[c]
    OBVIOUS
  <2>6. /\ r = Append(q, out[m]) /\ q \in Seq(Payloads \cup {<<>>}) /\ k \in Nat
        /\ Len(r) = k + 1 /\ r[k + 1] = out[m] /\ \A i \in 1 .. k : r[i] = q[i]
    BY <1>4, <2>2, <2>3, <2>4, <2>5, AppendFacts
  <2>7. clast'[c] = m
    BY <1>4, <2>2
  <2>8. PICK f : f = [i \in 1 .. k + 1 |-> IF i <= k THEN e[i] ELSE m]
    OBVIOUS
  <2>9. f[k + 1] = m /\ \A i \in 1 .. k : f[i] = e[i]
    BY <2>6, <2>8
  <2>10. \A i \in 1 .. k + 1 : i = k + 1 \/ i \in 1 .. k
    BY <2>6
  <2>11. \A i \in 1 .. k : e[i] \in DOMAIN out /\ e[i] <= clast[c] /\ q[i] = out[e[i]]
    BY <1>1, <2>4 DEF ShownAt
  <2>12. \A i \in 1 .. k : e[i] < m /\ e[i] \in Nat
    BY <1>4, <2>3, <2>11
  <2>13. f \in [1 .. k + 1 -> DOMAIN out]
    BY <2>3, <2>8, <2>9, <2>10, <2>11
  <2>14. \A i \in 1 .. k + 1 : f[i] <= m /\ r[i] = out[f[i]]
    BY <2>3, <2>6, <2>9, <2>10, <2>11, <2>12
  <2>15. ASSUME NEW i \in 1 .. k + 1, NEW j \in 1 .. k + 1, i < j
         PROVE  f[i] < f[j]
    <3>1. i \in 1 .. k
      BY <2>6, <2>15
    <3>2. CASE j = k + 1
      BY <2>9, <2>12, <3>1, <3>2
    <3>3. CASE j \in 1 .. k
      BY <1>1, <2>4, <2>9, <2>15, <3>1, <3>3 DEF ShownAt
    <3>. QED  BY <2>10, <3>2, <3>3
  <2>16. ASSUME NEW n \in DOMAIN out, n <= m
         PROVE  n <= evicted \/ \E i \in 1 .. k + 1 : f[i] = n
    <3>1. k + 1 \in 1 .. k + 1 /\ \A i \in 1 .. k : i \in 1 .. k + 1
      BY <2>6
    <3>2. CASE n = m
      BY <2>9, <3>1, <3>2
    <3>3. CASE n <= clast[c]
      BY <1>1, <2>4, <2>9, <3>1, <3>3 DEF ShownAt
    <3>4. CASE n > clast[c] /\ n # m
      BY <1>4, <1>5, <2>1, <2>16, <3>4
    <3>. QED  BY <1>4, <3>2, <3>3, <3>4
  <2>17. ShownAt(c, f)'
    BY <2>5, <2>6, <2>7, <2>13, <2>14, <2>15, <2>16 DEF ShownAt
  <2>. QED  BY <2>17 DEF Shown
<1>. QED  BY <1>4, <1>6, <1>7, <1>8

(* No client is ahead of the session.                                      *)
Seen == \A c \in Clients : clast[c] <= seq

LEMMA SeenNext ==
  ASSUME PartsInv, Seen, [Next]_vars
  PROVE  Seen'
<1>1. /\ seq \in Nat /\ clast \in [Clients -> Nat]
      /\ [Log!LogNext]_(Log!logVars)
  BY LogStep, StreamStepHolds DEF PartsInv, Inv, TypeInv, StreamTypeOK
<1>2. CASE UNCHANGED Log!logVars
  BY <1>2 DEF Log!logVars, Seen
<1>3. CASE Log!LogAppend \/ Log!LogClose \/ Log!LogTrim
  BY <1>1, <1>3 DEF Log!LogAppend, Log!LogClose, Log!LogTrim, Seen
<1>4. ASSUME NEW r \in Clients, NEW n \in 1 .. seq, Log!LogRead(r, n)
      PROVE  Seen'
  BY <1>1, <1>4 DEF Log!LogRead, Seen
<1>. QED  BY <1>1, <1>2, <1>3, <1>4 DEF Log!LogNext

LEMMA ShownNext ==
  ASSUME PartsInv, Matches, Seen, PartsInv', [Next]_vars, NEW c \in Clients, Shown(c)
  PROVE  Shown(c)'
<1>1. /\ TypeInv /\ RingInv /\ out \in Seq(Bytes) /\ out' \in Seq(Bytes)
      /\ [AnyNext]_streamVars
  BY StreamStepHolds DEF PartsInv, PumpInv, PumpTypes, PumpTypeOK, Inv, DeliveryInv
<1>2. evicted <= evicted' /\ (~Receive(c) => UNCHANGED <<clast[c], screen[c]>>)
  BY <1>1, OnlyReceiveShows
<1>3. /\ screen[c] \in Seq(Payloads \cup {<<>>}) /\ clast[c] \in Nat /\ seq \in Nat
      /\ evicted \in Nat /\ evicted' \in Nat /\ exited \in BOOLEAN
  BY <1>1 DEF PartsInv, Inv, TypeInv, StreamTypeOK
<1>4. CASE Receive(c)
  <2>1. UNCHANGED <<evicted, seq, pub>>
    BY <1>4 DEF Receive, sessionVars, pubVars
  <2>2. out' = out
    <3>1. ~EmitExit /\ \A d \in Payloads : ~EmitOutput(d)
      BY <1>3, <2>1 DEF EmitOutput, EmitExit
    <3>. QED  BY <3>1, SessionSteps
  <2>. QED  BY <1>4, <2>1, <2>2, ShownReceive
<1>5. CASE ~Receive(c)
  <2>1. Shown(c) /\ UNCHANGED <<clast[c], screen[c]>>
    BY <1>2, <1>5
  <2>2. CASE out' = out
    <3>1. Len(out) <= Len(out') /\ \A n \in DOMAIN out : out'[n] = out[n]
      BY <1>1, <2>2
    <3>2. \A n \in DOMAIN out' : n \in DOMAIN out \/ n > clast[c]
      BY <2>2
    <3>. QED  BY <1>1, <1>2, <1>3, <2>1, <3>1, <3>2, ShownQuiet
  <2>3. ASSUME NEW d \in Payloads \cap Bytes, out' = Append(out, d), EmitOutput(d)
        PROVE  Shown(c)'
    <3>1. /\ Len(out') = Len(out) + 1 /\ Len(out) \in Nat
          /\ \A i \in 1 .. Len(out) : out'[i] = out[i]
      BY <1>1, <2>3, AppendFacts
    <3>2. ~exited /\ seq = Len(out)
      BY <1>3, <2>3 DEF EmitOutput, Matches
    <3>3. clast[c] <= seq
      BY DEF Seen
    <3>4. DOMAIN out = 1 .. Len(out) /\ DOMAIN out' = 1 .. Len(out) + 1
      BY <1>1, <3>1
    <3>5. \A n \in DOMAIN out' : n \in DOMAIN out \/ n > clast[c]
      BY <1>3, <3>1, <3>2, <3>3, <3>4
    <3>. QED  BY <1>1, <1>2, <1>3, <2>1, <3>1, <3>4, <3>5, ShownQuiet
  <2>. QED  BY <2>2, <2>3, SessionSteps
<1>. QED  BY <1>4, <1>5

(* Bytes emitted come before every byte that is not.                       *)
LEMMA EmittedFirst ==
  ASSUME PumpInv
  PROVE  /\ Ascending(out) /\ ToSet(FlattenSeq(out)) \subseteq 1 .. written
         /\ \A u \in ToSet(FlattenSeq(out)) : \A v \in 1 .. u :
              v \in ToSet(FlattenSeq(out)) \cup dropped
<1>1. PICK F, r : F = FlattenSeq(out) /\ r = (carry \o batch) \o Waiting
  OBVIOUS
<1>2. /\ F \in Bytes /\ carry \o batch \in Bytes /\ Waiting \in Bytes /\ out \in Seq(Bytes)
      /\ Pipeline = (F \o (carry \o batch)) \o Waiting /\ written \in Nat
  BY <1>1, PipelineTypes
     DEF PumpInv, PipelineTyped, Leaving, PumpTypes, PumpTypeOK
<1>3. r \in Bytes /\ Pipeline = F \o r
  <2>1. PICK q : q = carry \o batch
    OBVIOUS
  <2>2. PICK w : w = Waiting
    OBVIOUS
  <2>3. /\ F \in Bytes /\ q \in Bytes /\ w \in Bytes
        /\ r = q \o w /\ Pipeline = (F \o q) \o w
    BY ONLY <1>1, <1>2, <2>1, <2>2
  <2>4. (F \o q) \o w = F \o (q \o w)
    BY ONLY <2>3, BytesAssoc, Zenon
  <2>5. q \o w \in Bytes
    BY <2>3, BytesConcat
  <2>. QED  BY ONLY <2>3, <2>4, <2>5
<1>4. Increasing(Pipeline) /\ ToSet(Pipeline) \cup dropped = 1 .. written
  BY DEF PumpInv, Ordered
<1>5. F \in Seq(Int) /\ r \in Seq(Int)
  BY <1>2, <1>3, BytesInt
<1>6. Increasing(F) /\ Precede(F, r) /\ ToSet(Pipeline) = ToSet(F) \cup ToSet(r)
  BY <1>3, <1>4, <1>5, IncreasingConcat, ToSetConcat
<1>7. out \in Seq(Seq(Int))
  <2>1. Bytes \subseteq Seq(Int)
    BY BytesInt
  <2>. QED  BY ONLY <1>2, <2>1, SeqGrow, Zenon
<1>8. Ascending(out)
  BY <1>1, <1>6, <1>7, FlattenIncreasing
<1>9. ASSUME NEW u \in ToSet(F), NEW v \in 1 .. u
      PROVE  v \in ToSet(F) \cup dropped
  <2>1. u \in 1 .. written /\ v \in 1 .. written
    BY <1>2, <1>4, <1>6, <1>9
  <2>2. v \notin ToSet(r)
    BY <1>2, <1>6, <1>9, <2>1 DEF Precede
  <2>. QED  BY <1>4, <1>6, <2>1, <2>2
<1>. QED  BY <1>1, <1>4, <1>6, <1>8, <1>9

LEMMA ShownIsOutput ==
  ASSUME PartsInv, Matches, NEW c \in Clients, Shown(c)
  PROVE  LET shown == FlattenSeq(screen[c])
             gone  == ToSet(FlattenSeq(SubSeq(out, 1, evicted))) \cup dropped
         IN /\ \A i \in 1 .. Len(shown) - 1 : shown[i] < shown[i + 1]
            /\ shown # <<>> => 1 .. Last(shown) \subseteq ToSet(shown) \cup gone
<1>1. PICK q : q = screen[c]
  OBVIOUS
<1>2. PICK e : ShownAt(c, e)
  BY DEF Shown
<1>3. /\ e \in [1 .. Len(q) -> DOMAIN out]
      /\ \A i \in 1 .. Len(q) : e[i] <= clast[c] /\ q[i] = out[e[i]]
      /\ \A i, j \in 1 .. Len(q) : i < j => e[i] < e[j]
      /\ \A n \in DOMAIN out : n <= clast[c] =>
           n <= evicted \/ \E i \in 1 .. Len(q) : e[i] = n
  BY <1>1, <1>2 DEF ShownAt
<1>4. /\ out \in Seq(Bytes) /\ clast[c] \in Nat /\ evicted \in Nat /\ Len(out) \in Nat
      /\ q \in Seq(Payloads \cup {<<>>}) /\ evicted <= Len(out)
  <2>1. /\ out \in Seq(Bytes) /\ clast[c] \in Nat /\ evicted \in Nat /\ seq \in Nat
        /\ q \in Seq(Payloads \cup {<<>>}) /\ exited \in BOOLEAN /\ evicted <= LastOutput
    BY <1>1 DEF PartsInv, PumpInv, PumpTypes, PumpTypeOK, Inv, TypeInv, StreamTypeOK,
                DeliveryInv, RingInv
  <2>2. LastOutput = Len(out)
    BY <2>1 DEF Matches, LastOutput
  <2>. QED  BY <2>1, <2>2
<1>5. /\ Ascending(out) /\ ToSet(FlattenSeq(out)) \subseteq 1 .. written
      /\ \A u \in ToSet(FlattenSeq(out)) : \A v \in 1 .. u :
           v \in ToSet(FlattenSeq(out)) \cup dropped
  BY EmittedFirst DEF PartsInv
<1>6. q \in Seq(Bytes) /\ q \in Seq(Seq(Int))
  <2>1. \A i \in 1 .. Len(q) : q[i] \in Bytes
    BY <1>3, <1>4
  <2>2. q \in Seq(Bytes)
    BY <1>4, <2>1
  <2>3. Bytes \subseteq Seq(Int)
    BY BytesInt
  <2>4. q \in Seq(Seq(Int))
    BY ONLY <2>2, <2>3, SeqGrow, Zenon
  <2>. QED  BY <2>2, <2>4
<1>7. DOMAIN out = 1 .. Len(out) /\ DOMAIN q = 1 .. Len(q)
  BY <1>4
<1>8. PICK shown : shown = FlattenSeq(q)
  OBVIOUS
<1>9. shown \in Seq(Int) /\ Increasing(shown)
  <2>1. Ascending(q)
    BY <1>3, <1>5, <1>7 DEF Ascending
  <2>. QED  BY <1>6, <1>8, <2>1, FlattenIncreasing, FlattenType
<1>10. ToSet(shown) = UNION {ToSet(q[i]) : i \in 1 .. Len(q)}
  BY <1>6, <1>7, <1>8, FlattenElements DEF FlattenedElements
<1>11. ToSet(FlattenSeq(out)) = UNION {ToSet(out[n]) : n \in 1 .. Len(out)}
  <2>1. out \in Seq(Seq(1 .. MaxOut))
    BY <1>4 DEF Bytes
  <2>. QED  BY <1>7, <2>1, FlattenElements DEF FlattenedElements
<1>12. PICK old : old = SubSeq(out, 1, evicted)
  OBVIOUS
<1>13. ASSUME NEW n \in 1 .. evicted
       PROVE  ToSet(out[n]) \subseteq ToSet(FlattenSeq(old))
  <2>1. evicted \in 0 .. Len(out)
    BY <1>4
  <2>2. old \in Seq(Bytes) /\ Len(old) = evicted
    BY <1>4, <1>12, <2>1, SplitSeq
  <2>3. old[n] = out[n]
    BY <1>4, <1>12, <2>1
  <2>4. ToSet(FlattenSeq(old)) = UNION {ToSet(old[i]) : i \in DOMAIN old} /\ n \in DOMAIN old
    BY <2>2, FlattenElements DEF FlattenedElements, Bytes
  <2>. QED  BY <2>3, <2>4
<1>14. ASSUME NEW i \in 1 .. Len(shown) - 1
       PROVE  shown[i] < shown[i + 1]
  <2>1. i \in 1 .. Len(shown) /\ i + 1 \in 1 .. Len(shown) /\ i < i + 1
    BY <1>9
  <2>. QED  BY <1>9, <2>1 DEF Increasing
<1>15. ASSUME shown # <<>>, NEW v \in 1 .. Last(shown)
       PROVE  v \in ToSet(shown) \cup (ToSet(FlattenSeq(old)) \cup dropped)
  <2>1. PICK u : u = Last(shown)
    OBVIOUS
  <2>2. u \in ToSet(shown)
    <3>1. Len(shown) \in 1 .. Len(shown)
      BY <1>9, <1>15
    <3>. QED  BY <1>9, <2>1, <3>1, ToSetFacts DEF Last
  <2>3. PICK i \in 1 .. Len(q) : u \in ToSet(q[i])
    BY <1>10, <2>2
  <2>4. /\ e[i] \in 1 .. Len(out) /\ u \in ToSet(out[e[i]]) /\ e[i] <= clast[c]
    BY <1>3, <1>7, <2>3
  <2>5. u \in ToSet(FlattenSeq(out))
    BY <1>11, <2>4
  <2>6. v \in ToSet(FlattenSeq(out)) \cup dropped
    BY <1>5, <1>15, <2>1, <2>5
  <2>7. ASSUME v \in ToSet(FlattenSeq(out))
        PROVE  v \in ToSet(shown) \cup ToSet(FlattenSeq(old))
    <3>1. PICK n \in 1 .. Len(out) : v \in ToSet(out[n])
      BY <1>11, <2>7
    <3>2. n <= e[i]
      <4>1. ASSUME e[i] < n PROVE u < v
        BY <1>5, <2>4, <3>1, <4>1 DEF Ascending, Precede
      <4>2. ~(u < v) /\ n \in Nat /\ e[i] \in Nat
        BY <1>5, <1>15, <2>1, <2>4, <2>5
      <4>. QED  BY <4>1, <4>2
    <3>3. n \in DOMAIN out /\ n <= clast[c]
      BY <1>4, <1>7, <2>4, <3>2
    <3>4. CASE n <= evicted
      BY <1>4, <1>13, <3>1, <3>4
    <3>5. CASE \E j \in 1 .. Len(q) : e[j] = n
      <4>1. PICK j \in 1 .. Len(q) : e[j] = n
        BY <3>5
      <4>2. v \in ToSet(q[j])
        BY <1>3, <3>1, <4>1
      <4>. QED  BY <1>10, <4>2
    <3>. QED  BY <1>3, <3>3, <3>4, <3>5
  <2>. QED  BY <2>6, <2>7
<1>. QED  BY <1>1, <1>8, <1>12, <1>14, <1>15

(* A terminal shows what the program printed: in order, nothing twice over *)
(* any number of reconnects, and up to the last byte shown all but what    *)
(* the ring has evicted or sanitising dropped.                             *)
THEOREM ScreenIsOutputHolds == Spec => []ScreenIsOutput
<1>. DEFINE Session == Matches /\ Seen /\ \A c \in Clients : Shown(c)
<1>1. Init => Session
  <2>. SUFFICES ASSUME Init PROVE Session
    OBVIOUS
  <2>1. Seen
    BY DEF Init, StreamInit, Seen
  <2>2. ASSUME NEW c \in Clients PROVE Shown(c)
    <3>1. screen[c] = <<>> /\ out = <<>>
      BY DEF Init, StreamInit, PumpInit
    <3>2. ShownAt(c, <<>>)
      BY <3>1 DEF ShownAt
    <3>. QED  BY <3>2 DEF Shown
  <2>. QED  BY <2>1, <2>2, MatchesInit
<1>2. PartsInv /\ PartsInv' /\ Session /\ [Next]_vars => Session'
  BY MatchesNext, SeenNext, ShownNext
<1>3. PartsInv /\ Session => ScreenIsOutput
  BY ShownIsOutput DEF ScreenIsOutput
<1>. HIDE DEF Session
<1>. QED  BY <1>1, <1>2, <1>3, PartsInit, PartsNext, PTL DEF Spec

=============================================================================

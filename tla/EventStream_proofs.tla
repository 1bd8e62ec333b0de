------------------------ MODULE EventStream_proofs ------------------------
(***************************************************************************)
(* Theorems about EventStream.tla for every number of streams and clients, *)
(* every set of payloads, every capacity and every length of the output:   *)
(* the state is well typed, DeliveryInv is an invariant, a connection      *)
(* carries consecutive events, and the stream implements the abstract log. *)
(***************************************************************************)
EXTENDS EventStream, Lists_proofs, SequenceTheorems

-----------------------------------------------------------------------------
(* Sequences of events.                                                    *)

(* The first event of a queue is an event and the rest is a queue.         *)
LEMMA HeadTail ==
  ASSUME NEW S, NEW q \in Seq(S), q # <<>>
  PROVE  /\ Head(q) \in S
         /\ Tail(q) \in Seq(S)
         /\ Head(q) = q[1]
         /\ Len(q) \in Nat \ {0}
         /\ Len(Tail(q)) = Len(q) - 1
         /\ \A i \in 1 .. Len(Tail(q)) : Tail(q)[i] = q[i + 1]
         /\ Tail(q) = <<>> <=> Len(q) = 1
<1>1. Len(q) \in Nat \ {0}
  OBVIOUS
<1>2. Head(q) = q[1] /\ Head(q) \in S
  BY <1>1
<1>3. /\ Tail(q) \in Seq(S)
      /\ Len(Tail(q)) = Len(q) - 1
      /\ \A i \in 1 .. Len(Tail(q)) : Tail(q)[i] = q[i + 1]
  BY <1>1, HeadTailProperties
<1>4. Tail(q) = <<>> <=> Len(q) = 1
  BY <1>1, <1>3
<1> QED
  BY <1>1, <1>2, <1>3, <1>4

(* Appending to a queue.                                                   *)
LEMMA QueueAppend ==
  ASSUME NEW S, NEW q \in Seq(S), NEW e \in S
  PROVE  /\ Append(q, e) \in Seq(S)
         /\ Len(q) \in Nat
         /\ Len(Append(q, e)) = Len(q) + 1
         /\ Append(q, e) # <<>>
         /\ \A i \in 1 .. Len(q) : Append(q, e)[i] = q[i]
         /\ Append(q, e)[Len(q) + 1] = e
         /\ Head(Append(q, e)) = IF q = <<>> THEN e ELSE Head(q)
<1>1. /\ Append(q, e) \in Seq(S)
      /\ Len(q) \in Nat
      /\ Len(Append(q, e)) = Len(q) + 1
      /\ \A i \in 1 .. Len(q) : Append(q, e)[i] = q[i]
      /\ Append(q, e)[Len(q) + 1] = e
  OBVIOUS
<1>2. Append(q, e) # <<>>
  BY <1>1
<1>3. Head(Append(q, e)) = IF q = <<>> THEN e ELSE Head(q)
  BY <1>1
<1> QED
  BY <1>1, <1>2, <1>3

(* A queue without holes that takes the next event has no holes.           *)
LEMMA ConsecutiveAppend ==
  ASSUME NEW q \in Seq(Event), NEW e \in Event,
         Consecutive(q),
         q # <<>> => e.seq = LastOf(q) + 1
  PROVE  /\ Consecutive(Append(q, e))
         /\ LastOf(Append(q, e)) = e.seq
<1> DEFINE r == Append(q, e)
           n == Len(q)
<1>1. /\ n \in Nat
      /\ Len(r) = n + 1
      /\ \A i \in 1 .. n : r[i] = q[i]
      /\ r[n + 1] = e
  BY QueueAppend
<1>2. LastOf(r) = e.seq
  BY <1>1 DEF LastOf
<1>3. \A i \in 1 .. n : q[i].seq \in Nat
  <2>1. \A i \in 1 .. n : q[i] \in Event
    BY ElementOfSeq
  <2> QED
    BY <2>1 DEF Event
<1>4. e.seq \in Nat
  BY DEF Event
<1>5. ASSUME NEW i \in 1 .. n + 1
      PROVE  r[i].seq = r[1].seq + i - 1
  <2>1. CASE n = 0
    BY <1>1, <1>4, <2>1
  <2>2. CASE n > 0 /\ i <= n
    BY <1>1, <2>2 DEF Consecutive
  <2>3. CASE n > 0 /\ i = n + 1
    <3>1. q # <<>>
      BY <2>3
    <3>2. q[n].seq = q[1].seq + n - 1
      BY <1>1, <2>3 DEF Consecutive
    <3>3. e.seq = q[n].seq + 1
      BY <3>1 DEF LastOf
    <3>4. r[1] = q[1] /\ r[i] = e
      BY <1>1, <2>3
    <3>5. q[1].seq \in Nat
      BY <1>1, <1>3, <2>3
    <3>6. e.seq = q[1].seq + n
      BY <1>1, <3>2, <3>3, <3>5
    <3> QED
      BY <1>1, <2>3, <3>4, <3>6
  <2> QED
    BY <1>1, <2>1, <2>2, <2>3
<1> HIDE DEF r
<1> QED
  BY <1>1, <1>2, <1>5 DEF Consecutive, r

(* The rest of a queue without holes.                                      *)
LEMMA ConsecutiveTail ==
  ASSUME NEW q \in Seq(Event), Consecutive(q), q # <<>>
  PROVE  /\ Consecutive(Tail(q))
         /\ Head(q).seq <= LastOf(q)
         /\ LastOf(q) \in Nat
         /\ Tail(q) = <<>> => LastOf(q) = Head(q).seq
         /\ Tail(q) # <<>> => /\ Head(Tail(q)).seq = Head(q).seq + 1
                              /\ LastOf(Tail(q)) = LastOf(q)
<1> DEFINE r == Tail(q)
           n == Len(q)
<1>1. /\ n \in Nat \ {0}
      /\ r \in Seq(Event)
      /\ Head(q) = q[1]
      /\ Len(r) = n - 1
      /\ \A i \in 1 .. Len(r) : r[i] = q[i + 1]
      /\ r = <<>> <=> n = 1
  BY HeadTail
<1>2. \A i \in 1 .. n : q[i].seq \in Nat
  <2>1. \A i \in 1 .. n : q[i] \in Event
    BY ElementOfSeq
  <2> QED
    BY <2>1 DEF Event
<1>3. \A i \in 1 .. n : q[i].seq = q[1].seq + i - 1
  BY DEF Consecutive
<1>4. r # <<>> => Head(r) = r[1]
  BY <1>1, HeadTail
<1> HIDE DEF r, n
<1>5. ASSUME NEW i \in 1 .. Len(r)
      PROVE  r[i].seq = r[1].seq + i - 1
  <2>1. /\ i + 1 \in 1 .. n /\ 2 \in 1 .. n
        /\ r[i] = q[i + 1] /\ r[1] = q[2]
    BY <1>1
  <2>2. q[i + 1].seq = q[1].seq + i /\ q[2].seq = q[1].seq + 1
    BY <1>2, <1>3, <2>1
  <2> QED
    BY <1>1, <1>2, <2>1, <2>2
<1>6. q[n].seq = q[1].seq + n - 1 /\ q[n].seq \in Nat /\ q[1].seq \in Nat
  BY <1>1, <1>2, <1>3
<1>7. r # <<>> => r[1].seq = q[1].seq + 1 /\ r[Len(r)] = q[n]
  <2> SUFFICES ASSUME r # <<>> PROVE r[1].seq = q[1].seq + 1 /\ r[Len(r)] = q[n]
    OBVIOUS
  <2>1. n > 1
    BY <1>1
  <2>2. r[1] = q[2] /\ r[n - 1] = q[n]
    BY <1>1, <2>1
  <2>3. q[2].seq = q[1].seq + 1
    BY <1>1, <1>3, <1>6, <2>1
  <2> QED
    BY <1>1, <2>2, <2>3
<1>8. Consecutive(Tail(q))
  BY <1>5 DEF Consecutive, r
<1>9. LastOf(q) = q[n].seq
  BY DEF LastOf, n
<1>10. r # <<>> => Head(r).seq = Head(q).seq + 1 /\ LastOf(r) = LastOf(q)
  BY <1>1, <1>4, <1>7, <1>9 DEF LastOf
<1>11. Head(q).seq <= LastOf(q) /\ LastOf(q) \in Nat
  BY <1>1, <1>6, <1>9
<1>12. r = <<>> => LastOf(q) = Head(q).seq
  BY <1>1, <1>9
<1> QED
  BY <1>8, <1>10, <1>11, <1>12 DEF r

-----------------------------------------------------------------------------
(* Type correctness.                                                       *)

(* The type invariant, strengthened: a client reads a wire only while it   *)
(* has a stream.                                                           *)
TypeInv ==
  /\ StreamTypeOK
  /\ \A c \in Clients : cstate[c] = "attached" => attached[c] \in Streams

(* The steps of a session, however many events it emits: StreamNext        *)
(* without the bound of the runs.                                          *)
AnyNext ==
  \/ \E d \in Payloads : EmitOutput(d)
  \/ EmitExit
  \/ StreamStep

LEMMA BoundedSteps == [StreamNext]_streamVars => [AnyNext]_streamVars
  BY DEF StreamNext, AnyNext

LEMMA PayloadLen ==
  ASSUME NEW d \in Payloads \cup {<<>>}
  PROVE  Len(d) \in Nat
<1>1. CASE d \in Payloads
  <2>1. d \in Seq(ToSet(d))
    BY <1>1, StreamAssumption
  <2>. QED  BY <2>1
<1>2. CASE d = <<>>
  BY <1>2
<1>. QED  BY <1>1, <1>2

(* Writing an event to a stream keeps the types.                           *)
LEMMA WriteEventType ==
  ASSUME StreamTypeOK, NEW s \in Streams, NEW ev \in Event, WriteEvent(s, ev)
  PROVE  /\ lastSeq' \in [Streams -> Nat]
         /\ wire' \in [Streams -> Seq(Event)]
<1>1. ev.seq \in Nat
  BY DEF Event
<1>2. /\ lastSeq \in [Streams -> Nat]
      /\ wire \in [Streams -> Seq(Event)]
      /\ Append(wire[s], ev) \in Seq(Event)
  BY QueueAppend DEF StreamTypeOK
<1> QED
  BY <1>1, <1>2 DEF WriteEvent

(* The first state is well typed.                                          *)
LEMMA TypeInit == StreamInit => TypeInv
<1>1. ExitEvent(0) \in Event
  BY DEF ExitEvent, Event
<1>2. <<>> \in Seq(Event) /\ <<>> \in Seq(Payloads \cup {<<>>})
  OBVIOUS
<1> SUFFICES ASSUME StreamInit PROVE TypeInv
  OBVIOUS
<1>3. /\ chan \in [Streams -> Seq(Event)]
      /\ replay \in [Streams -> Seq(Event)]
      /\ wire \in [Streams -> Seq(Event)]
      /\ screen \in [Clients -> Seq(Payloads \cup {<<>>})]
  BY <1>2 DEF StreamInit
<1>4. /\ ring \in Seq(Event)
      /\ cur \in Event
      /\ \A c \in Clients : cstate[c] = "connecting"
  BY <1>1, <1>2 DEF StreamInit
<1>5. /\ seq \in Nat /\ ringBytes \in Int /\ evicted \in Nat
      /\ pub \in {"idle", "appending", "appended", "sending"}
  BY DEF StreamInit
<1>8. /\ subs \subseteq Streams /\ todo \subseteq Streams
      /\ listed \in BOOLEAN /\ exited \in BOOLEAN
  BY DEF StreamInit
<1>6. /\ hpc \in [Streams ->
           {"none", "opening", "subscribed", "replay", "live", "done"}]
      /\ since \in [Streams -> Nat]
      /\ lastSeq \in [Streams -> Nat]
      /\ broken \in [Streams -> BOOLEAN]
  BY DEF StreamInit
<1>7. /\ attached \in [Clients -> Streams \cup {NoStream}]
      /\ cstate \in [Clients -> {"connecting", "attached", "ended"}]
      /\ clast \in [Clients -> Nat]
  BY DEF StreamInit
<1> QED
  BY <1>3, <1>4, <1>5, <1>6, <1>7, <1>8 DEF TypeInv, StreamTypeOK

(* Every action of the publisher, the handlers and the clients keeps the   *)
(* types.                                                                  *)
LEMMA TypeStep == TypeInv /\ [AnyNext]_streamVars => TypeInv'
<1> SUFFICES ASSUME TypeInv, [AnyNext]_streamVars PROVE TypeInv'
  OBVIOUS
<1> USE DEF sessionVars, pubVars, handlerVars, clientVars
<1>1. /\ StreamTypeOK
      /\ \A c \in Clients : cstate[c] = "attached" => attached[c] \in Streams
  BY DEF TypeInv
<1>2. ASSUME NEW d \in Payloads, EmitOutput(d) PROVE TypeInv'
  <2>1. OutputEvent(seq + 1, d) \in Event
    BY <1>1 DEF OutputEvent, Event, StreamTypeOK
  <2>2. Append(ring, OutputEvent(seq + 1, d)) \in Seq(Event)
    BY <1>1, <2>1 DEF StreamTypeOK
  <2>3. Len(d) \in Nat
    BY PayloadLen
  <2> QED
    BY <1>1, <1>2, <2>1, <2>2, <2>3 DEF EmitOutput, TypeInv, StreamTypeOK
<1>3. CASE EmitExit
  <2>1. ExitEvent(seq + 1) \in Event
    BY <1>1 DEF ExitEvent, Event, StreamTypeOK
  <2> QED
    BY <1>1, <1>3, <2>1 DEF EmitExit, TypeInv, StreamTypeOK
<1>4. CASE Evict
  <2>1. Head(ring) \in Event /\ Tail(ring) \in Seq(Event)
    BY <1>1, <1>4, HeadTail DEF Evict, StreamTypeOK
  <2>2. Head(ring).seq \in Nat /\ Len(Head(ring).data) \in Nat
    <3>1. Head(ring).seq \in Nat /\ Head(ring).data \in Payloads \cup {<<>>}
      BY <2>1 DEF Event
    <3> QED
      BY <3>1, PayloadLen
  <2> QED
    BY <1>1, <1>4, <2>1, <2>2 DEF Evict, TypeInv, StreamTypeOK
<1>5. CASE RingDone
  BY <1>1, <1>5 DEF RingDone, TypeInv, StreamTypeOK
<1>6. CASE SnapshotSubs
  BY <1>1, <1>6 DEF SnapshotSubs, TypeInv, StreamTypeOK
<1>7. ASSUME NEW s \in Streams, Deliver(s) PROVE TypeInv'
  <2>1. Append(chan[s], cur) \in Seq(Event)
    BY <1>1, QueueAppend DEF StreamTypeOK
  <2> QED
    BY <1>1, <1>7, <2>1 DEF Deliver, TypeInv, StreamTypeOK
<1>8. ASSUME NEW s \in Streams, Detach(s) PROVE TypeInv'
  BY <1>1, <1>8 DEF Detach, TypeInv, StreamTypeOK
<1>9. CASE PublishDone
  BY <1>1, <1>9 DEF PublishDone, TypeInv, StreamTypeOK
<1>10. CASE Unlist
  BY <1>1, <1>10 DEF Unlist, TypeInv, StreamTypeOK
<1>11. ASSUME NEW s \in Streams, Handler(s) PROVE TypeInv'
  <2>1. CASE Subscribe(s)
    BY <1>1, <2>1 DEF Subscribe, TypeInv, StreamTypeOK
  <2>2. CASE CopyRing(s)
    BY <1>1, <2>2 DEF CopyRing, TypeInv, StreamTypeOK
  <2>3. replay[s] # <<>> => Head(replay[s]) \in Event /\ Tail(replay[s]) \in Seq(Event)
    BY <1>1, HeadTail DEF StreamTypeOK
  <2>4. chan[s] # <<>> => Head(chan[s]) \in Event /\ Tail(chan[s]) \in Seq(Event)
    BY <1>1, HeadTail DEF StreamTypeOK
  <2>5. CASE ReplaySkip(s)
    BY <1>1, <2>3, <2>5 DEF ReplaySkip, TypeInv, StreamTypeOK
  <2>6. CASE ReplayWrite(s)
    <3>1. /\ lastSeq' \in [Streams -> Nat]
          /\ wire' \in [Streams -> Seq(Event)]
      BY <1>1, <2>3, <2>6, WriteEventType DEF ReplayWrite
    <3> QED
      BY <1>1, <2>3, <2>6, <3>1 DEF ReplayWrite, TypeInv, StreamTypeOK
  <2>7. CASE ReplayDone(s)
    BY <1>1, <2>7 DEF ReplayDone, TypeInv, StreamTypeOK
  <2>8. CASE LiveSkip(s)
    BY <1>1, <2>4, <2>8 DEF LiveSkip, TypeInv, StreamTypeOK
  <2>9. CASE LiveOutput(s)
    <3>1. /\ lastSeq' \in [Streams -> Nat]
          /\ wire' \in [Streams -> Seq(Event)]
      BY <1>1, <2>4, <2>9, WriteEventType DEF LiveOutput
    <3> QED
      BY <1>1, <2>4, <2>9, <3>1 DEF LiveOutput, TypeInv, StreamTypeOK
  <2>10. CASE LiveExit(s)
    <3>1. /\ lastSeq' \in [Streams -> Nat]
          /\ wire' \in [Streams -> Seq(Event)]
      BY <1>1, <2>4, <2>10, WriteEventType DEF LiveExit
    <3> QED
      BY <1>1, <2>4, <2>10, <3>1 DEF LiveExit, TypeInv, StreamTypeOK
  <2>11. CASE Hangup(s)
    BY <1>1, <2>11 DEF Hangup, TypeInv, StreamTypeOK
  <2> QED
    BY <1>11, <2>1, <2>2, <2>5, <2>6, <2>7, <2>8, <2>9, <2>10, <2>11 DEF Handler
<1>12. ASSUME NEW c \in Clients, Client(c) PROVE TypeInv'
  <2>1. ASSUME NEW s \in Streams, Connect(c, s) PROVE TypeInv'
    BY <1>1, <2>1 DEF Connect, TypeInv, StreamTypeOK
  <2>2. CASE NotFound(c)
    BY <1>1, <2>2 DEF NotFound, TypeInv, StreamTypeOK
  <2>3. CASE Receive(c)
    <3> DEFINE s == attached[c]
               ev == Head(wire[s])
    <3>1. s \in Streams
      BY <1>1, <2>3 DEF Receive
    <3>2. ev \in Event /\ Tail(wire[s]) \in Seq(Event)
      BY <1>1, <2>3, <3>1, HeadTail DEF Receive, StreamTypeOK
    <3>3. ev.seq \in Nat /\ ev.data \in Payloads \cup {<<>>}
      BY <3>2 DEF Event
    <3>4. Append(screen[c], ev.data) \in Seq(Payloads \cup {<<>>})
      BY <1>1, <3>3, QueueAppend DEF StreamTypeOK
    <3>5. wire' \in [Streams -> Seq(Event)]
      <4>1. wire' = [wire EXCEPT ![s] = Tail(@)] \/ wire' = [wire EXCEPT ![s] = <<>>]
        BY <2>3 DEF Receive
      <4>2. <<>> \in Seq(Event) /\ wire \in [Streams -> Seq(Event)]
        BY <1>1 DEF StreamTypeOK
      <4> QED
        BY <3>2, <4>1, <4>2
    <3>6. clast' \in [Clients -> Nat] /\ cstate' \in [Clients -> {"connecting", "attached", "ended"}]
      BY <1>1, <2>3, <3>3 DEF Receive, StreamTypeOK
    <3>7. screen' \in [Clients -> Seq(Payloads \cup {<<>>})]
      BY <1>1, <2>3, <3>4 DEF Receive, StreamTypeOK
    <3>8. /\ attached' \in [Clients -> Streams \cup {NoStream}]
          /\ broken' \in [Streams -> BOOLEAN]
      BY <1>1, <2>3 DEF Receive, StreamTypeOK
    <3>9. \A d \in Clients : cstate'[d] = "attached" => attached'[d] \in Streams
      BY <1>1, <2>3 DEF Receive, StreamTypeOK
    <3> QED
      BY <1>1, <2>3, <3>5, <3>6, <3>7, <3>8, <3>9 DEF Receive, TypeInv, StreamTypeOK
  <2>4. CASE Drop(c)
    BY <1>1, <2>4 DEF Drop, TypeInv, StreamTypeOK
  <2> QED
    BY <1>12, <2>1, <2>2, <2>3, <2>4 DEF Client
<1>13. CASE UNCHANGED streamVars
  BY <1>1, <1>13 DEF streamVars, TypeInv, StreamTypeOK
<1> QED
  BY <1>2, <1>3, <1>4, <1>5, <1>6, <1>7, <1>8, <1>9, <1>10, <1>11, <1>12, <1>13
  DEF AnyNext, StreamStep, Publisher

(* The state of a session, of its handlers and of its clients keeps its    *)
(* types: no handler indexes a missing event, no client reads a wire it    *)
(* does not have.                                                          *)
THEOREM StreamTypeCorrect == StreamSpec => []StreamTypeOK
<1>1. StreamSpec => []TypeInv
  BY TypeInit, TypeStep, BoundedSteps, PTL DEF StreamSpec
<1>2. TypeInv => StreamTypeOK
  BY DEF TypeInv
<1> QED
  BY <1>1, <1>2, PTL

-----------------------------------------------------------------------------
(* The ring.                                                               *)

(* What RingInv says about the number of the newest output event.          *)
LEMMA RingFacts ==
  ASSUME TypeInv, RingInv
  PROVE  /\ seq \in Nat /\ evicted \in Nat /\ LastOutput \in Nat
         /\ exited => LastOutput = seq - 1
         /\ ~exited => LastOutput = seq
         /\ evicted <= LastOutput
         /\ ring \in Seq(Event)
         /\ Consecutive(ring)
         /\ ring = <<>> => evicted = LastOutput
         /\ ring # <<>> => /\ Head(ring).seq = evicted + 1
                           /\ LastOf(ring) = LastOutput
                           /\ evicted < LastOutput
<1>1. /\ seq \in Nat /\ evicted \in Nat /\ exited \in BOOLEAN
      /\ ring \in Seq(Event)
  BY DEF TypeInv, StreamTypeOK
<1>2. /\ Consecutive(ring)
      /\ evicted <= LastOutput
      /\ exited => seq > 0
      /\ ring = <<>> => evicted = LastOutput
      /\ ring # <<>> => Head(ring).seq = evicted + 1 /\ LastOf(ring) = LastOutput
  BY DEF RingInv
<1>3. ring # <<>> => Head(ring).seq <= LastOf(ring)
  BY <1>1, <1>2, ConsecutiveTail
<1>4. /\ LastOutput \in Nat
      /\ exited => LastOutput = seq - 1
      /\ ~exited => LastOutput = seq
  BY <1>1, <1>2 DEF LastOutput
<1> QED
  BY <1>1, <1>2, <1>3, <1>4

(* Appending, evicting and the exit keep the ring a hole-free stretch that *)
(* ends at the newest output; nobody else touches it.                      *)
LEMMA RingStep ==
  ASSUME TypeInv, TypeInv', RingInv, [AnyNext]_streamVars
  PROVE  RingInv'
<1> USE DEF sessionVars, pubVars, handlerVars, clientVars
<1>1. /\ seq \in Nat /\ evicted \in Nat /\ LastOutput \in Nat
      /\ exited => LastOutput = seq - 1
      /\ ~exited => LastOutput = seq
      /\ evicted <= LastOutput
      /\ ring \in Seq(Event)
      /\ Consecutive(ring)
      /\ ring = <<>> => evicted = LastOutput
      /\ ring # <<>> => /\ Head(ring).seq = evicted + 1
                        /\ LastOf(ring) = LastOutput
                        /\ evicted < LastOutput
  BY RingFacts
<1>2. /\ exited => seq > 0
      /\ pub = "appending" => ~exited
      /\ pub # "idle" => cur.seq = seq /\ seq > 0
      /\ pub # "sending" => todo = {}
  BY DEF RingInv
<1>3. ASSUME NEW d \in Payloads, EmitOutput(d) PROVE RingInv'
  <2> DEFINE e == OutputEvent(seq + 1, d)
  <2>1. e \in Event /\ e.seq = seq + 1
    BY <1>1 DEF OutputEvent, Event
  <2>2. ring' = Append(ring, e) /\ ring' # <<>>
    BY <1>1, <1>3, <2>1, QueueAppend DEF EmitOutput
  <2>3. ~exited /\ exited' = exited /\ seq' = seq + 1 /\ LastOutput' = seq + 1
    BY <1>3 DEF EmitOutput, LastOutput
  <2>4. Consecutive(ring') /\ LastOf(ring') = seq + 1
    BY <1>1, <2>1, <2>2, <2>3, ConsecutiveAppend
  <2>5. Head(ring').seq = evicted + 1
    <3>1. Head(ring') = IF ring = <<>> THEN e ELSE Head(ring)
      BY <1>1, <2>1, <2>2, QueueAppend
    <3> QED
      BY <1>1, <2>1, <2>3, <3>1
  <2>6. pub' = "appending" /\ cur'.seq = seq + 1 /\ todo' = todo /\ todo = {} /\ evicted' = evicted
    BY <1>2, <1>3, <2>1 DEF EmitOutput
  <2> HIDE DEF e
  <2> QED
    BY <1>1, <2>2, <2>3, <2>4, <2>5, <2>6 DEF RingInv
<1>4. CASE EmitExit
  <2>1. /\ ~exited /\ exited' /\ seq' = seq + 1 /\ LastOutput' = seq
        /\ ring' = ring /\ evicted' = evicted
        /\ pub' = "appended" /\ cur'.seq = seq + 1 /\ todo' = {}
    BY <1>1, <1>2, <1>4 DEF EmitExit, ExitEvent, LastOutput
  <2> QED
    BY <1>1, <2>1 DEF RingInv
<1>5. CASE Evict
  <2>1. /\ ring # <<>> /\ ring' = Tail(ring) /\ evicted' = evicted + 1
        /\ UNCHANGED <<seq, exited, pub, cur, todo>> /\ LastOutput' = LastOutput
    BY <1>1, <1>5 DEF Evict, LastOutput
  <2>2. /\ Consecutive(ring')
        /\ ring' = <<>> => LastOf(ring) = Head(ring).seq
        /\ ring' # <<>> => /\ Head(ring').seq = Head(ring).seq + 1
                           /\ LastOf(ring') = LastOf(ring)
    BY <1>1, <2>1, ConsecutiveTail
  <2> QED
    BY <1>1, <1>2, <2>1, <2>2 DEF RingInv
<1>6. CASE /\ UNCHANGED <<seq, ring, evicted, exited, cur>>
           /\ pub' = "idle" \/ pub # "idle" \/ pub' = pub
           /\ pub' # "appending" \/ pub' = pub
           /\ pub' = "sending" \/ todo' = {} \/ (pub' = pub /\ todo' = todo)
  <2>1. LastOutput' = LastOutput
    BY <1>6 DEF LastOutput
  <2> QED
    BY <1>1, <1>2, <1>6, <2>1 DEF RingInv
<1>7. CASE RingDone
  BY <1>2, <1>6, <1>7 DEF RingDone
<1>8. CASE SnapshotSubs
  BY <1>6, <1>8 DEF SnapshotSubs
<1>9. ASSUME NEW s \in Streams, Deliver(s) \/ Detach(s) PROVE RingInv'
  BY <1>6, <1>9 DEF Deliver, Detach
<1>10. CASE PublishDone
  BY <1>6, <1>10 DEF PublishDone
<1>11. CASE Unlist
  BY <1>6, <1>11 DEF Unlist
<1>12. ASSUME NEW s \in Streams, Handler(s) PROVE RingInv'
  BY <1>6, <1>12 DEF Handler, Subscribe, CopyRing, ReplaySkip, ReplayWrite,
     ReplayDone, LiveSkip, LiveOutput, LiveExit, Hangup
<1>13. ASSUME NEW c \in Clients, Client(c) PROVE RingInv'
  BY <1>6, <1>13 DEF Client, Connect, NotFound, Receive, Drop
<1>14. CASE UNCHANGED streamVars
  BY <1>6, <1>14 DEF streamVars
<1> QED
  BY <1>3, <1>4, <1>5, <1>7, <1>8, <1>9, <1>10, <1>11, <1>12, <1>13, <1>14
  DEF AnyNext, StreamStep, Publisher

-----------------------------------------------------------------------------
(* One stream.                                                             *)

(* The types of what one stream owns.                                      *)
LEMMA StreamTypes ==
  ASSUME TypeInv, NEW s \in Streams
  PROVE  /\ seq \in Nat /\ evicted \in Nat
         /\ chan[s] \in Seq(Event)
         /\ replay[s] \in Seq(Event)
         /\ wire[s] \in Seq(Event)
         /\ since[s] \in Nat /\ lastSeq[s] \in Nat
         /\ Written(s) \in Nat
         /\ cur \in Event
BY DEF TypeInv, StreamTypeOK, Written

(* A step that leaves the queues of a stream alone keeps HandlerInv,       *)
(* whatever it does to the numbers the publisher has handed out and to     *)
(* the part of the log that can be replayed.                               *)
LEMMA HandlerQuiet ==
  ASSUME TypeInv, TypeInv', NEW s \in Streams, HandlerInv(s),
         seq <= seq',
         evicted <= evicted',
         s \in subs' => s \in subs,
         hpc[s] # "done" => (s \in todo' => s \in subs'),
         MoreFor(s)' => MoreFor(s) /\ NextFor(s)' = NextFor(s),
         chan'[s] = chan[s], hpc'[s] = hpc[s], since'[s] = since[s],
         replay'[s] = replay[s], lastSeq'[s] = lastSeq[s],
         wire[s] = <<>> => wire'[s] = <<>>,
         hpc[s] = "none" => broken'[s] = broken[s]
  PROVE  HandlerInv(s)'
<1>1. /\ seq \in Nat /\ seq' \in Nat /\ evicted \in Nat /\ evicted' \in Nat
      /\ chan[s] \in Seq(Event) /\ replay[s] \in Seq(Event)
      /\ since[s] \in Nat /\ lastSeq[s] \in Nat /\ Written(s) \in Nat
  BY StreamTypes DEF TypeInv, StreamTypeOK
<1>2. Written(s)' = Written(s) /\ Covered(s)' = Covered(s)
  BY DEF Written, Covered
<1>5. replay[s] # <<>> => Head(replay[s]).seq \in Nat /\ LastOf(replay[s]) \in Nat
  <2> SUFFICES ASSUME replay[s] # <<>>
               PROVE  Head(replay[s]).seq \in Nat /\ LastOf(replay[s]) \in Nat
    OBVIOUS
  <2>1. Head(replay[s]) \in Event /\ replay[s][Len(replay[s])] \in Event
    BY <1>1, HeadTail, ElementOfSeq
  <2> QED
    BY <2>1 DEF LastOf, Event
<1>6. chan[s] # <<>> => Head(chan[s]).seq \in Nat
  <2>1. chan[s] # <<>> => Head(chan[s]) \in Event
    BY <1>1, HeadTail
  <2> QED
    BY <2>1 DEF Event
<1>7. NextFor(s) \in Nat
  BY <1>1 DEF NextFor
<1>8. Untouched(s) => Untouched(s)' \/ hpc[s] = "done"
  BY DEF Untouched
<1>9. \A i \in 1 .. Len(chan[s]) : chan[s][i].seq <= seq => chan[s][i].seq <= seq'
  <2>1. \A i \in 1 .. Len(chan[s]) : chan[s][i] \in Event
    BY <1>1, ElementOfSeq
  <2>2. \A i \in 1 .. Len(chan[s]) : chan[s][i].seq \in Nat
    BY <2>1 DEF Event
  <2> QED
    BY <1>1, <2>2
<1>10. (hpc[s] = "none" => ~broken[s])' /\ (hpc[s] \in {"none", "opening"} => Untouched(s))'
  BY <1>8 DEF HandlerInv
<1>11. (lastSeq[s] <= seq)' /\ (lastSeq[s] = 0 => wire[s] = <<>>)'
  BY <1>1 DEF HandlerInv
<1>12. hpc'[s] \in {"subscribed", "replay", "live"} =>
         /\ s \in todo' => s \in subs'
         /\ Consecutive(chan[s])'
         /\ \A i \in 1 .. Len(chan'[s]) : chan'[s][i].seq <= seq'
         /\ MoreFor(s)' /\ chan'[s] # <<>> => LastOf(chan[s])' + 1 = NextFor(s)'
  BY <1>9 DEF HandlerInv, Consecutive, LastOf
<1>13. /\ hpc'[s] = "subscribed" => replay'[s] = <<>> /\ lastSeq'[s] = 0
       /\ hpc'[s] = "live" => replay'[s] = <<>>
  BY DEF HandlerInv
<1>14. hpc'[s] = "replay" =>
         /\ Consecutive(replay[s])'
         /\ lastSeq'[s] > 0 => lastSeq'[s] > since'[s]
         /\ replay'[s] # <<>> =>
              /\ LastOf(replay[s])' <= seq'
              /\ lastSeq'[s] > 0 => Head(replay'[s]).seq = lastSeq'[s] + 1
              /\ Follows(Head(replay[s]).seq, Written(s))'
  <2> SUFFICES ASSUME hpc[s] = "replay"
               PROVE  /\ Consecutive(replay[s])
                      /\ lastSeq[s] > 0 => lastSeq[s] > since[s]
                      /\ replay[s] # <<>> =>
                           /\ LastOf(replay[s]) <= seq'
                           /\ lastSeq[s] > 0 => Head(replay[s]).seq = lastSeq[s] + 1
                           /\ Follows(Head(replay[s]).seq, Written(s))'
    BY DEF Consecutive, LastOf
  <2>1. /\ Consecutive(replay[s])
        /\ lastSeq[s] > 0 => lastSeq[s] > since[s]
        /\ replay[s] # <<>> =>
             /\ LastOf(replay[s]) <= seq
             /\ lastSeq[s] > 0 => Head(replay[s]).seq = lastSeq[s] + 1
             /\ Follows(Head(replay[s]).seq, Written(s))
    BY DEF HandlerInv
  <2>2. replay[s] # <<>> => Follows(Head(replay[s]).seq, Written(s))'
    BY <1>1, <1>2, <1>5, <2>1 DEF Follows
  <2> QED
    BY <1>1, <1>5, <2>1, <2>2
<1>15. hpc'[s] \in {"replay", "live"} =>
         /\ chan'[s] # <<>> => Reaches(s, Head(chan[s]).seq)'
         /\ MoreFor(s)' /\ chan'[s] = <<>> => Reaches(s, NextFor(s))'
  <2>1. hpc[s] \in {"replay", "live"} =>
          /\ chan[s] # <<>> => Reaches(s, Head(chan[s]).seq)
          /\ MoreFor(s) /\ chan[s] = <<>> => Reaches(s, NextFor(s))
    BY DEF HandlerInv
  <2>2. chan[s] # <<>> /\ Reaches(s, Head(chan[s]).seq) => Reaches(s, Head(chan[s]).seq)'
    BY <1>1, <1>2, <1>6 DEF Reaches
  <2>3. Reaches(s, NextFor(s)) /\ NextFor(s)' = NextFor(s) => Reaches(s, NextFor(s))'
    BY <1>1, <1>2, <1>7 DEF Reaches
  <2> QED
    BY <2>1, <2>2, <2>3
<1> QED
  BY <1>10, <1>11, <1>12, <1>13, <1>14, <1>15 DEF HandlerInv

(* What the live loop and the replay loop may count on.                    *)
LEMMA HandlerFacts ==
  ASSUME TypeInv, RingInv, NEW s \in Streams, HandlerInv(s)
  PROVE  /\ chan[s] # <<>> =>
              /\ Head(chan[s]) \in Event /\ Head(chan[s]).seq \in Nat
              /\ Tail(chan[s]) \in Seq(Event)
         /\ replay[s] # <<>> =>
              /\ Head(replay[s]) \in Event /\ Head(replay[s]).seq \in Nat
              /\ Tail(replay[s]) \in Seq(Event)
         /\ NextFor(s) \in Nat
         /\ hpc[s] \in {"subscribed", "replay", "live"} =>
              /\ Consecutive(chan[s])
              /\ chan[s] # <<>> =>
                   /\ Head(chan[s]).seq <= seq
                   /\ Consecutive(Tail(chan[s]))
                   /\ Tail(chan[s]) = <<>> => LastOf(chan[s]) = Head(chan[s]).seq
                   /\ Tail(chan[s]) # <<>> =>
                        /\ Head(Tail(chan[s])).seq = Head(chan[s]).seq + 1
                        /\ LastOf(Tail(chan[s])) = LastOf(chan[s])
         /\ hpc[s] = "replay" /\ replay[s] # <<>> =>
              /\ Consecutive(Tail(replay[s]))
              /\ Head(replay[s]).seq <= LastOf(replay[s])
              /\ LastOf(replay[s]) \in Nat /\ LastOf(replay[s]) <= seq
              /\ Tail(replay[s]) = <<>> => LastOf(replay[s]) = Head(replay[s]).seq
              /\ Tail(replay[s]) # <<>> =>
                   /\ Head(Tail(replay[s])).seq = Head(replay[s]).seq + 1
                   /\ LastOf(Tail(replay[s])) = LastOf(replay[s])
<1>1. chan[s] \in Seq(Event) /\ replay[s] \in Seq(Event) /\ seq \in Nat
  BY StreamTypes
<1>2. chan[s] # <<>> =>
        /\ Head(chan[s]) \in Event /\ Tail(chan[s]) \in Seq(Event)
        /\ Head(chan[s]) = chan[s][1] /\ 1 \in 1 .. Len(chan[s])
  BY <1>1, HeadTail
<1>3. replay[s] # <<>> => Head(replay[s]) \in Event /\ Tail(replay[s]) \in Seq(Event)
  BY <1>1, HeadTail
<1>4. \A e \in Event : e.seq \in Nat
  BY DEF Event
<1>5. NextFor(s) \in Nat
  BY <1>1 DEF NextFor
<1>6. ASSUME hpc[s] \in {"subscribed", "replay", "live"}
      PROVE  /\ Consecutive(chan[s])
             /\ chan[s] # <<>> =>
                  /\ Head(chan[s]).seq <= seq
                  /\ Consecutive(Tail(chan[s]))
                  /\ Tail(chan[s]) = <<>> => LastOf(chan[s]) = Head(chan[s]).seq
                  /\ Tail(chan[s]) # <<>> =>
                       /\ Head(Tail(chan[s])).seq = Head(chan[s]).seq + 1
                       /\ LastOf(Tail(chan[s])) = LastOf(chan[s])
  <2>1. /\ Consecutive(chan[s])
        /\ \A i \in 1 .. Len(chan[s]) : chan[s][i].seq <= seq
    BY <1>6 DEF HandlerInv
  <2> QED
    BY <1>1, <1>2, <2>1, ConsecutiveTail
<1>7. ASSUME hpc[s] = "replay", replay[s] # <<>>
      PROVE  /\ Consecutive(Tail(replay[s]))
             /\ Head(replay[s]).seq <= LastOf(replay[s])
             /\ LastOf(replay[s]) \in Nat /\ LastOf(replay[s]) <= seq
             /\ Tail(replay[s]) = <<>> => LastOf(replay[s]) = Head(replay[s]).seq
             /\ Tail(replay[s]) # <<>> =>
                  /\ Head(Tail(replay[s])).seq = Head(replay[s]).seq + 1
                  /\ LastOf(Tail(replay[s])) = LastOf(replay[s])
  <2>1. Consecutive(replay[s]) /\ LastOf(replay[s]) <= seq
    BY <1>7 DEF HandlerInv
  <2> QED
    BY <1>1, <1>7, <2>1, ConsecutiveTail
<1> QED
  BY <1>2, <1>3, <1>4, <1>5, <1>6, <1>7

(* The event a handler is about to write continues what it has written.    *)
Fits(s, n) ==
  /\ n > 0
  /\ n <= seq
  /\ lastSeq[s] > 0 => n = lastSeq[s] + 1
  /\ Follows(n, Written(s))

(* The replay loop writes an event that fits.                              *)
LEMMA ReplayFits ==
  ASSUME TypeInv, RingInv, NEW s \in Streams, HandlerInv(s), ReplayWrite(s)
  PROVE  /\ WriteEvent(s, Head(replay[s]))
         /\ Head(replay[s]) \in Event
         /\ Fits(s, Head(replay[s]).seq)
<1>1. /\ hpc[s] = "replay" /\ replay[s] # <<>>
      /\ Head(replay[s]).seq > since[s]
      /\ WriteEvent(s, Head(replay[s]))
  BY DEF ReplayWrite
<1>2. since[s] \in Nat /\ seq \in Nat
  BY StreamTypes
<1>3. /\ Head(replay[s]) \in Event /\ Head(replay[s]).seq \in Nat
      /\ Head(replay[s]).seq <= LastOf(replay[s])
      /\ LastOf(replay[s]) \in Nat /\ LastOf(replay[s]) <= seq
  BY <1>1, HandlerFacts
<1>4. /\ lastSeq[s] > 0 => Head(replay[s]).seq = lastSeq[s] + 1
      /\ Follows(Head(replay[s]).seq, Written(s))
  BY <1>1 DEF HandlerInv
<1> QED
  BY <1>1, <1>2, <1>3, <1>4 DEF Fits

(* So does the live loop, for output and for the exit event.               *)
LEMMA LiveFits ==
  ASSUME TypeInv, RingInv, NEW s \in Streams, HandlerInv(s),
         LiveOutput(s) \/ LiveExit(s)
  PROVE  /\ WriteEvent(s, Head(chan[s]))
         /\ Head(chan[s]) \in Event
         /\ Fits(s, Head(chan[s]).seq)
<1>1. /\ hpc[s] = "live" /\ chan[s] # <<>>
      /\ Head(chan[s]).seq > lastSeq[s]
      /\ WriteEvent(s, Head(chan[s]))
  BY DEF LiveOutput, LiveExit
<1>2. lastSeq[s] \in Nat /\ seq \in Nat /\ evicted \in Nat /\ since[s] \in Nat
  BY StreamTypes
<1>3. Head(chan[s]) \in Event /\ Head(chan[s]).seq \in Nat /\ Head(chan[s]).seq <= seq
  BY <1>1, HandlerFacts
<1>4. Reaches(s, Head(chan[s]).seq) /\ replay[s] = <<>>
  BY <1>1 DEF HandlerInv
<1>5. /\ lastSeq[s] > 0 => Head(chan[s]).seq = lastSeq[s] + 1
      /\ Follows(Head(chan[s]).seq, Written(s))
  BY <1>1, <1>2, <1>3, <1>4 DEF Reaches, Covered, Written, Follows
<1> QED
  BY <1>1, <1>2, <1>3, <1>5 DEF Fits

(* Publishing to the stream itself.                                        *)
LEMMA HandlerDeliver ==
  ASSUME TypeInv, TypeInv', RingInv, NEW s \in Streams, HandlerInv(s), Deliver(s)
  PROVE  HandlerInv(s)'
<1> USE DEF sessionVars, handlerVars, clientVars
<1>1. /\ pub = "sending" /\ s \in todo
      /\ chan' = [chan EXCEPT ![s] = Append(@, cur)]
      /\ todo' = todo \ {s}
      /\ UNCHANGED <<seq, evicted, exited, subs, pub, hpc, since, replay,
                     lastSeq, wire, broken>>
  BY DEF Deliver
<1>2. /\ chan \in [Streams -> Seq(Event)] /\ cur \in Event /\ seq \in Nat
  BY DEF TypeInv, StreamTypeOK
<1>3. cur.seq = seq
  BY <1>1 DEF RingInv
<1>4. chan'[s] = Append(chan[s], cur) /\ chan[s] \in Seq(Event)
  BY <1>1, <1>2
<1>5. /\ Len(chan[s]) \in Nat
      /\ Len(chan'[s]) = Len(chan[s]) + 1
      /\ chan'[s] # <<>>
      /\ \A i \in 1 .. Len(chan[s]) : chan'[s][i] = chan[s][i]
      /\ chan'[s][Len(chan[s]) + 1] = cur
      /\ Head(chan'[s]) = IF chan[s] = <<>> THEN cur ELSE Head(chan[s])
  BY <1>2, <1>4, QueueAppend
<1>6. hpc[s] \notin {"none", "opening"}
  BY <1>1 DEF HandlerInv, Untouched
<1>7. ~Owed(s)' /\ Owed(s) /\ NextFor(s) = seq /\ NextFor(s)' = seq + 1
  BY <1>1 DEF Owed, NextFor
<1>8. ASSUME hpc[s] \in {"subscribed", "replay", "live"}
      PROVE  /\ Consecutive(chan'[s])
             /\ \A i \in 1 .. Len(chan'[s]) : chan'[s][i].seq <= seq
             /\ LastOf(chan'[s]) = seq
  <2>1. MoreFor(s)
    BY <1>1, <1>7, <1>8 DEF HandlerInv, MoreFor
  <2>2. /\ chan[s] # <<>> => LastOf(chan[s]) + 1 = seq
        /\ Consecutive(chan[s])
        /\ \A i \in 1 .. Len(chan[s]) : chan[s][i].seq <= seq
    BY <1>7, <1>8, <2>1 DEF HandlerInv
  <2>3. Consecutive(chan'[s]) /\ LastOf(chan'[s]) = seq
    BY <1>2, <1>3, <1>4, <2>2, ConsecutiveAppend
  <2> QED
    BY <1>2, <1>3, <1>5, <2>2, <2>3
<1>9. ASSUME hpc[s] \in {"replay", "live"}
      PROVE  Reaches(s, Head(chan'[s]).seq)
  <2>1. MoreFor(s)
    BY <1>1, <1>7, <1>9 DEF HandlerInv, MoreFor
  <2>2. chan[s] = <<>> => Reaches(s, seq)
    BY <1>7, <1>9, <2>1 DEF HandlerInv
  <2>3. chan[s] # <<>> => Reaches(s, Head(chan[s]).seq)
    BY <1>9 DEF HandlerInv
  <2> QED
    BY <1>3, <1>5, <2>2, <2>3
<1>10. \A n : Reaches(s, n)' <=> Reaches(s, n)
  BY <1>1 DEF Reaches, Covered, Written
<1>11. ASSUME hpc[s] \in {"subscribed", "replay", "live"}
       PROVE  s \in todo' => s \in subs'
  BY <1>1
<1>12. hpc[s] = "replay" =>
         (Follows(Head(replay[s]).seq, Written(s)))' = Follows(Head(replay[s]).seq, Written(s))
  BY <1>1 DEF Follows, Written
<1> QED
  BY <1>1, <1>5, <1>6, <1>7, <1>8, <1>9, <1>10, <1>11, <1>12
  DEF HandlerInv, Consecutive, LastOf

(* Subscribing and copying the ring: whatever is published in between is   *)
(* in the channel, and the ring reaches up to it.                          *)
LEMMA HandlerSubscribe ==
  ASSUME TypeInv, NEW s \in Streams, HandlerInv(s), Subscribe(s)
  PROVE  HandlerInv(s)'
<1> USE DEF sessionVars, pubVars, handlerVars, clientVars
<1>1. /\ Untouched(s) /\ lastSeq[s] <= seq
      /\ hpc'[s] = "subscribed"
      /\ UNCHANGED <<seq, todo, chan, replay, lastSeq, wire>>
  BY DEF Subscribe, HandlerInv, TypeInv, StreamTypeOK
<1>2. Consecutive(chan[s]) /\ Len(chan[s]) = 0
  BY <1>1 DEF Untouched, Consecutive
<1> QED
  BY <1>1, <1>2 DEF HandlerInv, Untouched, Consecutive

(* The ring snapshot reaches up to the first event of the channel.         *)
LEMMA HandlerCopyRing ==
  ASSUME TypeInv, TypeInv', RingInv, NEW s \in Streams, HandlerInv(s), CopyRing(s)
  PROVE  HandlerInv(s)'
<1> USE DEF sessionVars, pubVars, handlerVars, clientVars
<1>1. /\ hpc[s] = "subscribed" /\ hpc'[s] = "replay"
      /\ replay'[s] = ring
      /\ pub # "appending"
      /\ UNCHANGED <<seq, evicted, exited, subs, pub, cur, todo, chan, since,
                     lastSeq, wire, broken>>
  BY DEF CopyRing, MuFree, TypeInv, StreamTypeOK
<1>2. /\ replay[s] = <<>> /\ lastSeq[s] = 0 /\ wire[s] = <<>>
      /\ s \in todo => s \in subs
      /\ Consecutive(chan[s])
      /\ \A i \in 1 .. Len(chan[s]) : chan[s][i].seq <= seq
      /\ MoreFor(s) /\ chan[s] # <<>> => LastOf(chan[s]) + 1 = NextFor(s)
  BY <1>1 DEF HandlerInv
<1>3. /\ seq \in Nat /\ evicted \in Nat /\ LastOutput \in Nat
      /\ exited => LastOutput = seq - 1
      /\ ~exited => LastOutput = seq
      /\ Consecutive(ring)
      /\ ring = <<>> => evicted = LastOutput
      /\ ring # <<>> => Head(ring).seq = evicted + 1 /\ LastOf(ring) = LastOutput
  BY RingFacts
<1>4. chan[s] # <<>> => Head(chan[s]).seq <= seq /\ Head(chan[s]).seq \in Nat
  BY <1>1, HandlerFacts
<1>5. since[s] \in Nat
  BY StreamTypes
<1>6. \A n \in Nat : n <= LastOutput + 1 => Reaches(s, n)'
  <2> SUFFICES ASSUME NEW n \in Nat, n <= LastOutput + 1 PROVE Reaches(s, n)'
    OBVIOUS
  <2>1. CASE ring = <<>>
    BY <1>1, <1>2, <1>3, <2>1 DEF Reaches
  <2>2. CASE ring # <<>>
    <3>1. Covered(s)' = LastOutput
      BY <1>1, <1>3, <2>2 DEF Covered, LastOf
    <3> QED
      BY <3>1 DEF Reaches
  <2> QED
    BY <2>1, <2>2
<1>7. MoreFor(s) => NextFor(s) <= LastOutput + 1 /\ NextFor(s) \in Nat
  BY <1>3 DEF MoreFor, NextFor
<1>8. MoreFor(s)' = MoreFor(s) /\ NextFor(s)' = NextFor(s)
  BY <1>1 DEF MoreFor, NextFor, Owed
<1>9. ring # <<>> => Follows(Head(replay[s]).seq, Written(s))'
  BY <1>1, <1>3 DEF Follows
<1>10. hpc'[s] \in {"replay", "live"} =>
         /\ chan'[s] # <<>> => Reaches(s, Head(chan[s]).seq)'
         /\ MoreFor(s)' /\ chan'[s] = <<>> => Reaches(s, NextFor(s))'
  BY <1>1, <1>3, <1>4, <1>6, <1>7, <1>8
<1>11. /\ Consecutive(replay[s])'
       /\ replay'[s] # <<>> => LastOf(replay[s])' <= seq'
  BY <1>1, <1>3 DEF Consecutive, LastOf
<1>12. /\ Consecutive(chan[s])' = Consecutive(chan[s])
       /\ LastOf(chan[s])' = LastOf(chan[s])
  BY <1>1 DEF Consecutive, LastOf
<1> QED
  BY <1>1, <1>2, <1>3, <1>8, <1>9, <1>10, <1>11, <1>12 DEF HandlerInv

(* The replay loop.                                                        *)
LEMMA HandlerReplay ==
  ASSUME TypeInv, TypeInv', RingInv, NEW s \in Streams, HandlerInv(s),
         ReplaySkip(s) \/ ReplayWrite(s)
  PROVE  HandlerInv(s)'
<1> USE DEF sessionVars, pubVars, handlerVars, clientVars
<1> DEFINE h == Head(replay[s]).seq
<1>1. /\ hpc[s] = "replay" /\ replay[s] # <<>>
      /\ replay'[s] = Tail(replay[s])
      /\ UNCHANGED <<seq, evicted, exited, subs, pub, cur, todo, chan, hpc,
                     since, broken>>
  BY DEF ReplaySkip, ReplayWrite, TypeInv, StreamTypeOK
<1>2. /\ seq \in Nat /\ evicted \in Nat
      /\ since[s] \in Nat /\ lastSeq[s] \in Nat /\ lastSeq'[s] \in Nat
  BY StreamTypes DEF TypeInv, StreamTypeOK
<1>3. /\ h \in Nat
      /\ Consecutive(Tail(replay[s]))
      /\ LastOf(replay[s]) \in Nat /\ h <= LastOf(replay[s]) /\ LastOf(replay[s]) <= seq
      /\ Tail(replay[s]) = <<>> => LastOf(replay[s]) = h
      /\ Tail(replay[s]) # <<>> => /\ Head(Tail(replay[s])).seq = h + 1
                                   /\ LastOf(Tail(replay[s])) = LastOf(replay[s])
  BY <1>1, HandlerFacts
<1>4. /\ lastSeq[s] <= seq
      /\ lastSeq[s] = 0 => wire[s] = <<>>
      /\ lastSeq[s] > 0 => lastSeq[s] > since[s] /\ h = lastSeq[s] + 1
      /\ s \in todo => s \in subs
      /\ Consecutive(chan[s])
      /\ \A i \in 1 .. Len(chan[s]) : chan[s][i].seq <= seq
      /\ MoreFor(s) /\ chan[s] # <<>> => LastOf(chan[s]) + 1 = NextFor(s)
      /\ chan[s] # <<>> => Reaches(s, Head(chan[s]).seq)
      /\ MoreFor(s) /\ chan[s] = <<>> => Reaches(s, NextFor(s))
  BY <1>1 DEF HandlerInv
<1>5. \/ h <= since[s] /\ lastSeq'[s] = lastSeq[s] /\ lastSeq[s] = 0 /\ wire'[s] = wire[s]
      \/ h > since[s] /\ lastSeq'[s] = h
  <2>1. CASE ReplaySkip(s)
    <3>1. h <= since[s] /\ lastSeq' = lastSeq /\ wire' = wire
      BY <2>1 DEF ReplaySkip
    <3>2. lastSeq[s] = 0
      BY <1>2, <1>3, <1>4, <3>1
    <3> QED
      BY <3>1, <3>2
  <2>2. CASE ReplayWrite(s)
    BY <2>2 DEF ReplayWrite, WriteEvent, TypeInv, StreamTypeOK
  <2> QED
    BY <2>1, <2>2
<1> HIDE DEF h
<1>6. Written(s)' \in Nat /\ h <= Written(s)'
  BY <1>1, <1>2, <1>3, <1>5 DEF Written
<1>7. Covered(s) = LastOf(replay[s])
  BY <1>1 DEF Covered
<1>8. Covered(s)' \in Nat /\ LastOf(replay[s]) <= Covered(s)'
  <2>1. CASE Tail(replay[s]) = <<>>
    BY <1>1, <1>3, <1>6, <2>1 DEF Covered
  <2>2. CASE Tail(replay[s]) # <<>>
    BY <1>1, <1>3, <2>2 DEF Covered, LastOf
  <2> QED
    BY <2>1, <2>2
<1>9. \A n \in Nat : Reaches(s, n) => Reaches(s, n)'
  BY <1>1, <1>3, <1>7, <1>8 DEF Reaches
<1>10. /\ chan[s] # <<>> => Head(chan[s]).seq \in Nat
       /\ NextFor(s) \in Nat
  BY HandlerFacts
<1>11. MoreFor(s)' = MoreFor(s) /\ NextFor(s)' = NextFor(s)
  BY <1>1 DEF MoreFor, NextFor, Owed
<1>12. /\ Consecutive(chan[s])' = Consecutive(chan[s])
       /\ LastOf(chan[s])' = LastOf(chan[s])
  BY <1>1 DEF Consecutive, LastOf
<1>13. /\ chan'[s] # <<>> => Reaches(s, Head(chan[s]).seq)'
       /\ MoreFor(s)' /\ chan'[s] = <<>> => Reaches(s, NextFor(s))'
  BY <1>1, <1>4, <1>9, <1>10, <1>11
<1>14. /\ Consecutive(replay[s])'
       /\ replay'[s] # <<>> =>
            /\ LastOf(replay[s])' <= seq'
            /\ Head(replay'[s]).seq = h + 1
  BY <1>1, <1>3 DEF Consecutive, LastOf
<1>15. lastSeq'[s] > 0 => lastSeq'[s] > since[s] /\ lastSeq'[s] = h
  BY <1>2, <1>5
<1>16. replay'[s] # <<>> => Follows(Head(replay[s]).seq, Written(s))'
  BY <1>1, <1>3, <1>6, <1>14 DEF Follows
<1>17. lastSeq'[s] <= seq
  BY <1>2, <1>3, <1>5
<1>18. lastSeq'[s] = 0 => wire'[s] = <<>>
  BY <1>2, <1>3, <1>4, <1>5
<1> QED
  BY <1>1, <1>4, <1>11, <1>12, <1>13, <1>14, <1>15, <1>16, <1>17, <1>18
  DEF HandlerInv

(* Leaving the replay loop.                                                *)
LEMMA HandlerReplayDone ==
  ASSUME TypeInv, NEW s \in Streams, HandlerInv(s), ReplayDone(s)
  PROVE  HandlerInv(s)'
<1> USE DEF sessionVars, pubVars, handlerVars, clientVars
<1>1. /\ hpc[s] = "replay" /\ hpc'[s] = "live" /\ replay[s] = <<>>
      /\ UNCHANGED <<seq, evicted, exited, subs, pub, cur, todo, chan, since,
                     replay, lastSeq, wire, broken>>
  BY DEF ReplayDone, TypeInv, StreamTypeOK
<1>2. /\ Consecutive(chan[s])' = Consecutive(chan[s])
      /\ LastOf(chan[s])' = LastOf(chan[s])
      /\ MoreFor(s)' = MoreFor(s) /\ NextFor(s)' = NextFor(s)
  BY <1>1 DEF Consecutive, LastOf, MoreFor, NextFor, Owed
<1>3. \A n : Reaches(s, n)' <=> Reaches(s, n)
  BY <1>1 DEF Reaches, Covered, Written
<1> QED
  BY <1>1, <1>2, <1>3 DEF HandlerInv

(* The live loop.                                                          *)
LEMMA HandlerLive ==
  ASSUME TypeInv, TypeInv', RingInv, NEW s \in Streams, HandlerInv(s),
         LiveSkip(s) \/ LiveOutput(s)
  PROVE  HandlerInv(s)'
<1> USE DEF sessionVars, pubVars, handlerVars, clientVars
<1> DEFINE h == Head(chan[s]).seq
<1>1. /\ hpc[s] = "live" /\ chan[s] # <<>>
      /\ chan'[s] = Tail(chan[s])
      /\ UNCHANGED <<seq, evicted, exited, subs, pub, cur, todo, hpc, since,
                     replay, broken>>
  BY DEF LiveSkip, LiveOutput, TypeInv, StreamTypeOK
<1>2. /\ seq \in Nat /\ since[s] \in Nat /\ lastSeq[s] \in Nat /\ lastSeq'[s] \in Nat
  BY StreamTypes DEF TypeInv, StreamTypeOK
<1>3. /\ h \in Nat /\ h <= seq
      /\ Consecutive(Tail(chan[s]))
      /\ Tail(chan[s]) = <<>> => LastOf(chan[s]) = h
      /\ Tail(chan[s]) # <<>> => /\ Head(Tail(chan[s])).seq = h + 1
                                 /\ LastOf(Tail(chan[s])) = LastOf(chan[s])
      /\ Tail(chan[s]) \in Seq(Event)
  BY <1>1, HandlerFacts
<1>4. /\ lastSeq[s] <= seq
      /\ lastSeq[s] = 0 => wire[s] = <<>>
      /\ s \in todo => s \in subs
      /\ replay[s] = <<>>
      /\ \A i \in 1 .. Len(chan[s]) : chan[s][i].seq <= seq
      /\ MoreFor(s) => LastOf(chan[s]) + 1 = NextFor(s)
  BY <1>1 DEF HandlerInv
<1>5. \/ h <= lastSeq[s] /\ lastSeq'[s] = lastSeq[s] /\ wire'[s] = wire[s]
      \/ h > lastSeq[s] /\ lastSeq'[s] = h
  BY <1>1 DEF LiveSkip, LiveOutput, WriteEvent, TypeInv, StreamTypeOK
<1>6. \A i \in 1 .. Len(Tail(chan[s])) : Tail(chan[s])[i].seq <= seq
  <2>1. chan[s] \in Seq(Event)
    BY StreamTypes
  <2>2. /\ Len(Tail(chan[s])) = Len(chan[s]) - 1 /\ Len(chan[s]) \in Nat
        /\ \A i \in 1 .. Len(Tail(chan[s])) : Tail(chan[s])[i] = chan[s][i + 1]
    BY <1>1, <2>1, HeadTail
  <2> QED
    BY <1>4, <2>2
<1> HIDE DEF h
<1>7. Covered(s)' = Written(s)' /\ Written(s)' \in Nat /\ h <= Written(s)'
  BY <1>1, <1>2, <1>3, <1>4, <1>5 DEF Covered, Written
<1>8. \A n \in Nat : n <= h + 1 => Reaches(s, n)'
  BY <1>3, <1>7 DEF Reaches
<1>9. MoreFor(s)' = MoreFor(s) /\ NextFor(s)' = NextFor(s)
  BY <1>1 DEF MoreFor, NextFor, Owed
<1>10. /\ Consecutive(chan[s])'
       /\ chan'[s] # <<>> => LastOf(chan[s])' = LastOf(chan[s])
       /\ chan'[s] # <<>> => Head(chan'[s]).seq = h + 1
  BY <1>1, <1>3 DEF Consecutive, LastOf
<1>11. /\ chan'[s] # <<>> => Reaches(s, Head(chan[s]).seq)'
       /\ MoreFor(s)' /\ chan'[s] = <<>> => Reaches(s, NextFor(s))'
  <2>1. MoreFor(s)' /\ chan'[s] = <<>> => NextFor(s)' = h + 1
    BY <1>1, <1>3, <1>4, <1>9
  <2> QED
    BY <1>3, <1>8, <1>10, <2>1
<1>12. lastSeq'[s] <= seq /\ (lastSeq'[s] = 0 => wire'[s] = <<>>)
  BY <1>2, <1>3, <1>4, <1>5
<1> QED
  BY <1>1, <1>4, <1>6, <1>9, <1>10, <1>11, <1>12 DEF HandlerInv

(* The ways a handler ends.                                                *)
LEMMA HandlerEnds ==
  ASSUME TypeInv, TypeInv', RingInv, NEW s \in Streams, HandlerInv(s),
         LiveExit(s) \/ Hangup(s)
  PROVE  HandlerInv(s)'
<1> USE DEF sessionVars, pubVars, handlerVars, clientVars
<1>1. hpc'[s] = "done" /\ UNCHANGED seq
  BY DEF LiveExit, Hangup, TypeInv, StreamTypeOK
<1>2. lastSeq[s] <= seq /\ (lastSeq[s] = 0 => wire[s] = <<>>)
  BY DEF HandlerInv
<1>3. lastSeq'[s] <= seq /\ (lastSeq'[s] = 0 => wire'[s] = <<>>)
  <2>1. CASE LiveExit(s)
    <3>1. /\ Fits(s, Head(chan[s]).seq)
          /\ lastSeq'[s] = Head(chan[s]).seq
      BY <2>1, LiveFits DEF WriteEvent, TypeInv, StreamTypeOK
    <3>2. lastSeq'[s] \in Nat
      BY DEF TypeInv, StreamTypeOK
    <3> QED
      BY <3>1, <3>2 DEF Fits
  <2>2. CASE Hangup(s)
    BY <1>2, <2>2 DEF Hangup
  <2> QED
    BY <2>1, <2>2
<1> QED
  BY <1>1, <1>3 DEF HandlerInv

(* A new request starts with empty queues.                                 *)
LEMMA HandlerConnect ==
  ASSUME TypeInv, NEW c \in Clients, NEW s \in Streams, HandlerInv(s), Connect(c, s)
  PROVE  HandlerInv(s)'
<1> USE DEF sessionVars, pubVars, handlerVars, clientVars
<1>1. /\ hpc[s] = "none" /\ hpc'[s] = "opening"
      /\ UNCHANGED <<seq, subs, todo, chan, replay, lastSeq, wire>>
  BY DEF Connect, TypeInv, StreamTypeOK
<1>2. Untouched(s) /\ lastSeq[s] <= seq
  BY <1>1 DEF HandlerInv
<1>3. Untouched(s)'
  BY <1>1, <1>2 DEF Untouched
<1> QED
  BY <1>1, <1>2, <1>3 DEF HandlerInv, Untouched

(* Every step, seen from one stream.                                       *)
LEMMA HandlerStep ==
  ASSUME TypeInv, TypeInv', RingInv, [AnyNext]_streamVars,
         NEW s \in Streams, HandlerInv(s),
         \A c \in Clients : ClientInv(c)
  PROVE  HandlerInv(s)'
<1> USE DEF sessionVars, pubVars, handlerVars, clientVars
<1>1. /\ seq \in Nat /\ evicted \in Nat
      /\ hpc[s] \in {"none", "opening"} => Untouched(s)
      /\ hpc[s] \in {"subscribed", "replay", "live"} => (s \in todo => s \in subs)
      /\ hpc[s] \in {"none", "opening", "subscribed", "replay", "live", "done"}
  BY DEF HandlerInv, TypeInv, StreamTypeOK
<1>2. hpc[s] # "done" => (s \in todo => s \in subs)
  BY <1>1 DEF Untouched
<1>3. ASSUME /\ seq <= seq' /\ evicted <= evicted'
             /\ s \in subs' => s \in subs
             /\ hpc[s] # "done" => (s \in todo' => s \in subs')
             /\ MoreFor(s)' => MoreFor(s) /\ NextFor(s)' = NextFor(s)
             /\ UNCHANGED <<chan[s], hpc[s], since[s], replay[s], lastSeq[s]>>
             /\ wire[s] = <<>> => wire'[s] = <<>>
             /\ hpc[s] = "none" => broken'[s] = broken[s]
      PROVE  HandlerInv(s)'
  BY <1>3, HandlerQuiet
<1>4. ASSUME /\ UNCHANGED <<seq, exited, pub>>
             /\ evicted <= evicted'
             /\ s \in subs' <=> s \in subs
             /\ s \in todo' <=> s \in todo
      PROVE  /\ seq <= seq' /\ evicted <= evicted'
             /\ s \in subs' => s \in subs
             /\ hpc[s] # "done" => (s \in todo' => s \in subs')
             /\ MoreFor(s)' => MoreFor(s) /\ NextFor(s)' = NextFor(s)
  BY <1>1, <1>2, <1>4 DEF MoreFor, NextFor, Owed
<1>5. ASSUME NEW d \in Payloads, EmitOutput(d) PROVE HandlerInv(s)'
  <2>1. todo = {}
    BY <1>5 DEF EmitOutput, RingInv
  <2>2. MoreFor(s)' => MoreFor(s) /\ NextFor(s)' = NextFor(s)
    BY <1>5 DEF EmitOutput, MoreFor, NextFor, Owed
  <2> QED
    BY <1>1, <1>3, <1>5, <2>1, <2>2 DEF EmitOutput
<1>6. CASE EmitExit
  <2>1. todo = {}
    BY <1>6 DEF EmitExit, RingInv
  <2>2. MoreFor(s)' => MoreFor(s) /\ NextFor(s)' = NextFor(s)
    BY <1>6 DEF EmitExit, MoreFor, NextFor, Owed
  <2> QED
    BY <1>1, <1>3, <1>6, <2>1, <2>2 DEF EmitExit
<1>7. CASE Evict
  <2>1. ring # <<>> /\ evicted' = Head(ring).seq
    BY <1>7 DEF Evict
  <2>2. evicted <= evicted'
    BY <1>1, <2>1, RingFacts
  <2> QED
    BY <1>3, <1>4, <1>7, <2>2 DEF Evict
<1>8. CASE RingDone
  <2>1. MoreFor(s)' => MoreFor(s) /\ NextFor(s)' = NextFor(s)
    BY <1>8 DEF RingDone, MoreFor, NextFor, Owed
  <2> QED
    BY <1>1, <1>2, <1>3, <1>8, <2>1 DEF RingDone
<1>9. CASE SnapshotSubs
  <2>1. MoreFor(s)' => MoreFor(s) /\ NextFor(s)' = NextFor(s)
    BY <1>9 DEF SnapshotSubs, MoreFor, NextFor, Owed
  <2> QED
    BY <1>1, <1>3, <1>9, <2>1 DEF SnapshotSubs
<1>10. CASE PublishDone
  <2>1. MoreFor(s)' => MoreFor(s) /\ NextFor(s)' = NextFor(s)
    BY <1>10 DEF PublishDone, MoreFor, NextFor, Owed
  <2> QED
    BY <1>1, <1>2, <1>3, <1>10, <2>1 DEF PublishDone
<1>11. ASSUME NEW r \in Streams, Deliver(r) PROVE HandlerInv(s)'
  <2>1. CASE r = s
    BY <1>11, <2>1, HandlerDeliver
  <2>2. CASE r # s
    <3>1. chan'[s] = chan[s] /\ (s \in todo' <=> s \in todo)
      BY <1>11, <2>2 DEF Deliver, TypeInv, StreamTypeOK
    <3>2. evicted <= evicted'
      BY <1>1, <1>11 DEF Deliver
    <3> QED
      BY <1>3, <1>4, <1>11, <3>1, <3>2 DEF Deliver
  <2> QED
    BY <2>1, <2>2
<1>12. ASSUME NEW r \in Streams, Detach(r) PROVE HandlerInv(s)'
  <2>1. /\ s \in subs' => s \in subs
        /\ hpc[s] # "done" => (s \in todo' => s \in subs')
    BY <1>2, <1>12 DEF Detach
  <2>2. MoreFor(s)' => MoreFor(s) /\ NextFor(s)' = NextFor(s)
    BY <1>12 DEF Detach, MoreFor, NextFor, Owed
  <2> QED
    BY <1>1, <1>3, <1>12, <2>1, <2>2 DEF Detach
<1>13. CASE Unlist
  BY <1>1, <1>3, <1>4, <1>13 DEF Unlist
<1>14. ASSUME NEW r \in Streams, Handler(r) PROVE HandlerInv(s)'
  <2>1. CASE r = s
    <3>1. CASE Subscribe(s)
      BY <3>1, HandlerSubscribe
    <3>2. CASE CopyRing(s)
      BY <3>2, HandlerCopyRing
    <3>3. CASE ReplaySkip(s) \/ ReplayWrite(s)
      BY <3>3, HandlerReplay
    <3>4. CASE ReplayDone(s)
      BY <3>4, HandlerReplayDone
    <3>5. CASE LiveSkip(s) \/ LiveOutput(s)
      BY <3>5, HandlerLive
    <3>6. CASE LiveExit(s) \/ Hangup(s)
      BY <3>6, HandlerEnds
    <3> QED
      BY <1>14, <2>1, <3>1, <3>2, <3>3, <3>4, <3>5, <3>6 DEF Handler
  <2>2. CASE r # s
    <3>1. /\ UNCHANGED <<seq, exited, pub, evicted, todo>>
          /\ s \in subs' <=> s \in subs
      BY <1>14, <2>2 DEF Handler, Subscribe, CopyRing, ReplaySkip, ReplayWrite,
         ReplayDone, LiveSkip, LiveOutput, LiveExit, Hangup
    <3>2. UNCHANGED <<chan[s], hpc[s], since[s], replay[s], broken[s]>>
      BY <1>14, <2>2 DEF Handler, Subscribe, CopyRing, ReplaySkip, ReplayWrite,
         ReplayDone, LiveSkip, LiveOutput, LiveExit, Hangup, TypeInv, StreamTypeOK
    <3>3. UNCHANGED <<lastSeq[s], wire[s]>>
      BY <1>14, <2>2 DEF Handler, Subscribe, CopyRing, ReplaySkip, ReplayWrite,
         ReplayDone, LiveSkip, LiveOutput, LiveExit, Hangup, WriteEvent, TypeInv, StreamTypeOK
    <3>4. evicted <= evicted'
      BY <1>1, <3>1
    <3> QED
      BY <1>3, <1>4, <3>1, <3>2, <3>3, <3>4
  <2> QED
    BY <2>1, <2>2
<1>15. ASSUME NEW c \in Clients, Client(c) PROVE HandlerInv(s)'
  <2>1. ASSUME NEW r \in Streams, Connect(c, r) PROVE HandlerInv(s)'
    <3>1. CASE r = s
      BY <2>1, <3>1, HandlerConnect
    <3>2. CASE r # s
      <4>1. UNCHANGED <<chan[s], hpc[s], since[s], replay[s], lastSeq[s], wire[s], broken[s]>>
        BY <2>1, <3>2 DEF Connect, TypeInv, StreamTypeOK
      <4> QED
        BY <1>1, <1>3, <1>4, <2>1, <4>1 DEF Connect
    <3> QED
      BY <3>1, <3>2
  <2>2. CASE NotFound(c)
    BY <1>1, <1>3, <1>4, <2>2 DEF NotFound
  <2>3. CASE Receive(c) \/ Drop(c)
    <3>1. attached[c] \in Streams /\ hpc[attached[c]] # "none"
      <4>1. cstate[c] = "attached"
        BY <2>3 DEF Receive, Drop
      <4> QED
        BY <4>1 DEF ClientInv, TypeInv
    <3>2. /\ UNCHANGED <<seq, exited, pub, evicted, subs, todo>>
          /\ UNCHANGED <<chan, hpc, since, replay, lastSeq>>
      BY <2>3 DEF Receive, Drop
    <3>3. wire'[s] = wire[s] \/ wire'[s] = <<>> \/ wire[s] # <<>>
      BY <2>3 DEF Receive, Drop, TypeInv, StreamTypeOK
    <3>4. s # attached[c] => broken'[s] = broken[s]
      BY <2>3 DEF Receive, Drop, TypeInv, StreamTypeOK
    <3>5. evicted <= evicted'
      BY <1>1, <3>2
    <3> QED
      BY <1>3, <1>4, <3>1, <3>2, <3>3, <3>4, <3>5
  <2> QED
    BY <1>15, <2>1, <2>2, <2>3 DEF Client
<1>16. CASE UNCHANGED streamVars
  BY <1>1, <1>3, <1>4, <1>16 DEF streamVars
<1> QED
  BY <1>5, <1>6, <1>7, <1>8, <1>9, <1>10, <1>11, <1>12, <1>13, <1>14, <1>15, <1>16
  DEF AnyNext, StreamStep, Publisher

-----------------------------------------------------------------------------
(* One client.                                                             *)

(* A step that touches neither the client nor what its handler has sent.   *)
LEMMA ClientQuiet ==
  ASSUME TypeInv, TypeInv', NEW c \in Clients, ClientInv(c),
         evicted <= evicted',
         attached'[c] = attached[c], clast'[c] = clast[c],
         cstate'[c] = "attached" <=> cstate[c] = "attached",
         attached[c] \in Streams =>
           /\ hpc'[attached[c]] # "none"
           /\ broken'[attached[c]] = broken[attached[c]]
           /\ since'[attached[c]] = since[attached[c]]
           /\ wire'[attached[c]] = wire[attached[c]]
           /\ lastSeq'[attached[c]] = lastSeq[attached[c]]
           /\ \A d \in Clients :
                attached'[d] = attached[c] => attached[d] = attached[c]
  PROVE  ClientInv(c)'
<1> DEFINE s == attached[c]
<1>1. CASE s = NoStream
  BY <1>1 DEF ClientInv
<1>2. CASE s # NoStream
  <2>1. s \in Streams
    BY <1>2 DEF TypeInv, StreamTypeOK
  <2>2. /\ attached'[c] = s /\ hpc'[s] # "none"
        /\ broken'[s] = broken[s] /\ since'[s] = since[s]
        /\ wire'[s] = wire[s] /\ lastSeq'[s] = lastSeq[s]
        /\ \A d \in Clients : attached'[d] = s => attached[d] = s
    BY <2>1
  <2>3. /\ cstate[c] = "attached"
        /\ ~broken[s]
        /\ since[s] <= clast[c]
        /\ Consecutive(wire[s])
        /\ wire[s] = <<>> => Written(s) <= clast[c]
        /\ wire[s] # <<>> => LastOf(wire[s]) = lastSeq[s] /\ Follows(Head(wire[s]).seq, clast[c])
        /\ \A d \in Clients : attached[d] = s => d = c
    BY <1>2 DEF ClientInv
  <2>4. /\ clast[c] \in Nat /\ evicted \in Nat /\ evicted' \in Nat
        /\ wire[s] \in Seq(Event)
    BY <2>1 DEF TypeInv, StreamTypeOK
  <2>5. wire[s] # <<>> => Head(wire[s]).seq \in Nat
    <3>1. wire[s] # <<>> => Head(wire[s]) \in Event
      BY <2>4, HeadTail
    <3> QED
      BY <3>1 DEF Event
  <2> HIDE DEF s
  <2>6. wire[s] # <<>> =>
          evicted' >= evicted /\ (Head(wire[s]).seq <= clast[c] + 1 \/ Head(wire[s]).seq - 1 <= evicted')
    BY <2>3, <2>4, <2>5 DEF Follows
  <2>7. s # NoStream
    BY <1>2 DEF s
  <2> QED
    BY <2>2, <2>3, <2>6, <2>7 DEF ClientInv, Consecutive, LastOf, Written, Follows
<1> QED
  BY <1>1, <1>2

(* The handler of the client's stream writes an event.                     *)
LEMMA ClientWrite ==
  ASSUME TypeInv, TypeInv', RingInv, NEW c \in Clients, ClientInv(c),
         NEW s \in Streams, attached[c] = s, HandlerInv(s),
         NEW ev \in Event, WriteEvent(s, ev), Fits(s, ev.seq),
         hpc'[s] # "none", broken' = broken, since' = since,
         evicted' = evicted, UNCHANGED clientVars
  PROVE  ClientInv(c)'
<1> USE DEF clientVars
<1>1. /\ s # NoStream /\ cstate[c] = "attached"
      /\ ~broken[s]
      /\ since[s] <= clast[c]
      /\ Consecutive(wire[s])
      /\ wire[s] = <<>> => Written(s) <= clast[c]
      /\ wire[s] # <<>> => LastOf(wire[s]) = lastSeq[s] /\ Follows(Head(wire[s]).seq, clast[c])
      /\ \A d \in Clients : attached[d] = s => d = c
  BY StreamAssumption DEF ClientInv
<1>2. /\ clast[c] \in Nat /\ evicted \in Nat /\ wire[s] \in Seq(Event)
      /\ lastSeq[s] \in Nat /\ Written(s) \in Nat /\ ev.seq \in Nat
  BY StreamTypes DEF TypeInv, StreamTypeOK, Event
<1>3. /\ wire'[s] = Append(wire[s], ev) /\ lastSeq'[s] = ev.seq
  BY <1>1 DEF WriteEvent, TypeInv, StreamTypeOK
<1>4. /\ ev.seq > 0
      /\ lastSeq[s] > 0 => ev.seq = lastSeq[s] + 1
      /\ Follows(ev.seq, Written(s))
  BY DEF Fits
<1>5. lastSeq[s] = 0 => wire[s] = <<>>
  BY DEF HandlerInv
<1>6. wire[s] # <<>> => ev.seq = LastOf(wire[s]) + 1
  BY <1>1, <1>2, <1>4, <1>5
<1>7. Consecutive(wire'[s]) /\ LastOf(wire'[s]) = ev.seq
  BY <1>1, <1>2, <1>3, <1>6, ConsecutiveAppend
<1>8. wire'[s] # <<>> /\ Head(wire'[s]) = IF wire[s] = <<>> THEN ev ELSE Head(wire[s])
  BY <1>2, <1>3, QueueAppend
<1>9. Follows(Head(wire'[s]).seq, clast[c])
  BY <1>1, <1>2, <1>4, <1>8 DEF Follows
<1>10. hpc'[s] # "none" /\ ~broken'[s] /\ since'[s] <= clast'[c] /\ attached'[c] = s
  BY <1>1
<1> QED
  BY <1>1, <1>3, <1>7, <1>8, <1>9, <1>10 DEF ClientInv, Consecutive, LastOf, Follows

(* A step of a handler, seen from a client: a write to its own stream or a *)
(* step it does not see.                                                   *)
LEMMA ClientHandler ==
  ASSUME TypeInv, TypeInv', RingInv, NEW c \in Clients, ClientInv(c),
         NEW s \in Streams, HandlerInv(s), Handler(s)
  PROVE  ClientInv(c)'
<1> USE DEF sessionVars, pubVars, handlerVars, clientVars
<1>1. /\ UNCHANGED clientVars /\ UNCHANGED <<evicted, since, broken>>
      /\ \A r \in Streams : hpc[r] # "none" => hpc'[r] # "none"
      /\ \A r \in Streams : r # s => wire'[r] = wire[r] /\ lastSeq'[r] = lastSeq[r]
  <2>1. UNCHANGED clientVars /\ UNCHANGED <<evicted, since, broken>>
    BY DEF Handler, Subscribe, CopyRing, ReplaySkip, ReplayWrite, ReplayDone,
       LiveSkip, LiveOutput, LiveExit, Hangup
  <2>2. \/ hpc' = hpc
        \/ \E p \in {"subscribed", "replay", "live", "done"} : hpc' = [hpc EXCEPT ![s] = p]
    BY DEF Handler, Subscribe, CopyRing, ReplaySkip, ReplayWrite, ReplayDone,
       LiveSkip, LiveOutput, LiveExit, Hangup
  <2>3. \A r \in Streams : hpc[r] # "none" => hpc'[r] # "none"
    BY <2>2 DEF TypeInv, StreamTypeOK
  <2>4. UNCHANGED <<wire, lastSeq>> \/ \E e : WriteEvent(s, e)
    BY DEF Handler, Subscribe, CopyRing, ReplaySkip, ReplayWrite, ReplayDone,
       LiveSkip, LiveOutput, LiveExit, Hangup
  <2>5. \A r \in Streams : r # s => wire'[r] = wire[r] /\ lastSeq'[r] = lastSeq[r]
    BY <2>4 DEF WriteEvent, TypeInv, StreamTypeOK
  <2> QED
    BY <2>1, <2>3, <2>5
<1>2. evicted <= evicted'
  BY <1>1 DEF TypeInv, StreamTypeOK
<1>3. attached[c] \in Streams => hpc[attached[c]] # "none"
  BY StreamAssumption DEF ClientInv
<1>4. CASE attached[c] # s \/ UNCHANGED <<wire, lastSeq>>
  BY <1>1, <1>2, <1>3, <1>4, ClientQuiet
<1>5. CASE attached[c] = s /\ ReplayWrite(s)
  <2>1. hpc'[s] # "none"
    BY <1>5 DEF ReplayWrite
  <2> QED
    BY <1>1, <1>5, <2>1, ReplayFits, ClientWrite
<1>6. CASE attached[c] = s /\ (LiveOutput(s) \/ LiveExit(s))
  <2>1. hpc'[s] # "none"
    BY <1>6 DEF LiveOutput, LiveExit, TypeInv, StreamTypeOK
  <2> QED
    BY <1>1, <1>6, <2>1, LiveFits, ClientWrite
<1>7. ReplayWrite(s) \/ LiveOutput(s) \/ LiveExit(s) \/ UNCHANGED <<wire, lastSeq>>
  BY DEF Handler, Subscribe, CopyRing, ReplaySkip, ReplayDone, LiveSkip, Hangup
<1> QED
  BY <1>4, <1>5, <1>6, <1>7

(* Reading a line of the response.                                         *)
LEMMA ClientReceive ==
  ASSUME TypeInv, TypeInv', NEW c \in Clients, ClientInv(c),
         \A s \in Streams : HandlerInv(s),
         Receive(c)
  PROVE  ClientInv(c)'
<1> USE DEF sessionVars, pubVars, handlerVars, clientVars
<1> DEFINE s == attached[c]
           n == Head(wire[s]).seq
<1>1. cstate[c] = "attached" /\ wire[s] # <<>> /\ s \in Streams /\ s # NoStream
  BY StreamAssumption DEF Receive, TypeInv
<1>2. /\ hpc[s] # "none" /\ ~broken[s] /\ since[s] <= clast[c]
      /\ Consecutive(wire[s]) /\ LastOf(wire[s]) = lastSeq[s]
      /\ \A d \in Clients : attached[d] = s => d = c
  BY <1>1 DEF ClientInv
<1>3. /\ clast[c] \in Nat /\ since[s] \in Nat /\ lastSeq[s] \in Nat /\ seq \in Nat
      /\ wire[s] \in Seq(Event) /\ evicted \in Nat
  BY <1>1 DEF TypeInv, StreamTypeOK
<1>4. /\ n \in Nat /\ n <= LastOf(wire[s])
      /\ Consecutive(Tail(wire[s]))
      /\ Tail(wire[s]) = <<>> => LastOf(wire[s]) = n
      /\ Tail(wire[s]) # <<>> => Head(Tail(wire[s])).seq = n + 1
                                 /\ LastOf(Tail(wire[s])) = LastOf(wire[s])
  <2>1. Head(wire[s]) \in Event
    BY <1>1, <1>3, HeadTail
  <2> QED
    BY <1>1, <1>2, <1>3, <2>1, ConsecutiveTail DEF Event
<1>5. lastSeq[s] > 0
  BY <1>1, <1>3 DEF HandlerInv
<1>6. UNCHANGED <<hpc, since, lastSeq, evicted>>
  BY DEF Receive
<1>7. CASE attached' = attached
  <2>1. /\ cstate' = cstate /\ broken' = broken
        /\ wire'[s] = Tail(wire[s])
        /\ \/ n <= clast[c] /\ clast' = clast
           \/ n > clast[c] /\ clast'[c] = n
    BY <1>1, <1>7 DEF Receive, TypeInv, StreamTypeOK
  <2>2. attached'[c] = s /\ cstate'[c] = "attached" /\ hpc'[s] # "none"
        /\ ~broken'[s]
    BY <1>1, <1>2, <1>6, <1>7, <2>1
  <2> HIDE DEF s, n
  <2>3. clast'[c] \in Nat /\ n <= clast'[c] /\ since'[s] <= clast'[c]
    BY <1>2, <1>3, <1>4, <1>6, <2>1
  <2>4. wire'[s] = <<>> => lastSeq'[s] <= clast'[c] /\ lastSeq'[s] > 0
    BY <1>2, <1>4, <1>5, <1>6, <2>1, <2>3
  <2>5. wire'[s] # <<>> => /\ wire'[s][Len(wire'[s])].seq = lastSeq'[s]
                           /\ Head(wire'[s]).seq <= clast'[c] + 1
    BY <1>2, <1>4, <1>6, <2>1, <2>3 DEF LastOf
  <2>6. \A i \in 1 .. Len(wire'[s]) : wire'[s][i].seq = wire'[s][1].seq + i - 1
    BY <1>4, <2>1 DEF Consecutive
  <2>7. \A d \in Clients : attached'[d] = s => d = c
    BY <1>2, <1>7
  <2> QED
    BY <1>1, <2>2, <2>3, <2>4, <2>5, <2>6, <2>7
    DEF ClientInv, Consecutive, LastOf, Follows, Written
<1>8. CASE attached' # attached
  <2>1. attached'[c] = NoStream /\ cstate'[c] = "ended"
    BY <1>8 DEF Receive, TypeInv, StreamTypeOK
  <2> QED
    BY <2>1 DEF ClientInv
<1> QED
  BY <1>7, <1>8

(* Connecting to a stream nobody has used.                                 *)
LEMMA ClientConnect ==
  ASSUME TypeInv, TypeInv', NEW c \in Clients, NEW s \in Streams,
         \A r \in Streams : HandlerInv(r),
         \A d \in Clients : ClientInv(d),
         Connect(c, s)
  PROVE  ClientInv(c)'
<1> USE DEF sessionVars, pubVars, handlerVars, clientVars
<1>1. /\ hpc[s] = "none" /\ hpc'[s] = "opening"
      /\ since'[s] = clast[c] /\ attached' = [attached EXCEPT ![c] = s]
      /\ attached'[c] = s /\ cstate'[c] = "attached"
      /\ UNCHANGED <<wire, lastSeq, broken, clast>>
  BY DEF Connect, TypeInv, StreamTypeOK
<1>2. ~broken[s] /\ wire[s] = <<>> /\ lastSeq[s] = 0
  BY <1>1 DEF HandlerInv, Untouched
<1>3. \A d \in Clients : attached'[d] = s => d = c
  <2>1. \A d \in Clients : attached[d] # s
    BY <1>1, StreamAssumption DEF ClientInv
  <2> QED
    BY <1>1, <2>1 DEF TypeInv, StreamTypeOK
<1>4. clast[c] \in Nat /\ s # NoStream /\ Len(wire[s]) = 0
  BY <1>2, StreamAssumption DEF TypeInv, StreamTypeOK
<1>5. Written(s)' = clast[c]
  BY <1>1, <1>2 DEF Written
<1> QED
  BY <1>1, <1>2, <1>3, <1>4, <1>5 DEF ClientInv, Consecutive

(* Every step, seen from one client.                                       *)
LEMMA ClientStep ==
  ASSUME TypeInv, TypeInv', RingInv, [AnyNext]_streamVars,
         \A s \in Streams : HandlerInv(s),
         \A c \in Clients : ClientInv(c),
         NEW c \in Clients
  PROVE  ClientInv(c)'
<1> USE DEF sessionVars, pubVars, handlerVars, clientVars
<1>1. evicted \in Nat /\ (attached[c] \in Streams => hpc[attached[c]] # "none")
  BY StreamAssumption DEF ClientInv, TypeInv, StreamTypeOK
<1>2. ASSUME UNCHANGED <<handlerVars, clientVars>>, evicted <= evicted'
      PROVE  ClientInv(c)'
  BY <1>1, <1>2, ClientQuiet
<1>3. ASSUME NEW d \in Payloads, EmitOutput(d) PROVE ClientInv(c)'
  BY <1>1, <1>2, <1>3 DEF EmitOutput
<1>4. CASE EmitExit
  BY <1>1, <1>2, <1>4 DEF EmitExit
<1>5. CASE Evict
  <2>1. evicted <= evicted'
    BY <1>1, <1>5, RingFacts DEF Evict
  <2> QED
    BY <1>2, <1>5, <2>1 DEF Evict
<1>6. CASE RingDone \/ SnapshotSubs \/ PublishDone \/ Unlist
  BY <1>1, <1>2, <1>6 DEF RingDone, SnapshotSubs, PublishDone, Unlist
<1>7. ASSUME NEW s \in Streams, Deliver(s) \/ Detach(s) PROVE ClientInv(c)'
  BY <1>1, <1>2, <1>7 DEF Deliver, Detach
<1>8. ASSUME NEW s \in Streams, Handler(s) PROVE ClientInv(c)'
  BY <1>8, ClientHandler
<1>9. ASSUME NEW d \in Clients, Client(d) PROVE ClientInv(c)'
  <2>1. ASSUME NEW s \in Streams, Connect(d, s) PROVE ClientInv(c)'
    <3>1. CASE d = c
      BY <2>1, <3>1, ClientConnect
    <3>2. CASE d # c
      <4>1. /\ hpc[s] = "none" /\ attached' = [attached EXCEPT ![d] = s]
            /\ hpc' = [hpc EXCEPT ![s] = "opening"]
            /\ since' = [since EXCEPT ![s] = clast[d]]
            /\ cstate' = [cstate EXCEPT ![d] = "attached"]
            /\ UNCHANGED <<evicted, clast, wire, lastSeq, broken>>
        BY <2>1 DEF Connect
      <4>2. attached'[c] = attached[c] /\ cstate'[c] = cstate[c] /\ attached[c] # s
        BY <1>1, <3>2, <4>1 DEF TypeInv, StreamTypeOK
      <4>3. ASSUME attached[c] \in Streams
            PROVE  /\ hpc'[attached[c]] # "none"
                   /\ since'[attached[c]] = since[attached[c]]
                   /\ wire'[attached[c]] = wire[attached[c]]
                   /\ lastSeq'[attached[c]] = lastSeq[attached[c]]
                   /\ broken'[attached[c]] = broken[attached[c]]
                   /\ \A e \in Clients :
                        attached'[e] = attached[c] => attached[e] = attached[c]
        BY <1>1, <4>1, <4>2, <4>3 DEF TypeInv, StreamTypeOK
      <4>4. evicted <= evicted' /\ clast'[c] = clast[c]
        BY <1>1, <4>1
      <4> QED
        BY <4>2, <4>3, <4>4, ClientQuiet
    <3> QED
      BY <3>1, <3>2
  <2>2. CASE NotFound(d)
    <3>1. /\ UNCHANGED <<evicted, clast, attached, handlerVars>>
          /\ cstate'[c] = "attached" <=> cstate[c] = "attached"
      BY <2>2 DEF NotFound, TypeInv, StreamTypeOK
    <3>2. evicted <= evicted'
      BY <1>1, <3>1
    <3> QED
      BY <1>1, <3>1, <3>2, ClientQuiet
  <2>3. CASE Receive(d)
    <3>1. CASE d = c
      BY <2>3, <3>1, ClientReceive
    <3>2. CASE d # c
      <4>1. cstate[d] = "attached" /\ attached[d] \in Streams /\ attached[d] # NoStream
        BY <2>3, StreamAssumption DEF Receive, TypeInv
      <4>2. attached[c] # attached[d]
        BY <3>2, <4>1 DEF ClientInv
      <4>3. /\ UNCHANGED <<evicted, hpc, since, lastSeq>>
            /\ clast'[c] = clast[c] /\ cstate'[c] = cstate[c] /\ attached'[c] = attached[c]
        BY <2>3, <3>2 DEF Receive, TypeInv, StreamTypeOK
      <4>4. attached[c] \in Streams =>
              /\ wire'[attached[c]] = wire[attached[c]]
              /\ broken'[attached[c]] = broken[attached[c]]
        BY <2>3, <4>1, <4>2 DEF Receive, TypeInv, StreamTypeOK
      <4>5. \A e \in Clients : attached'[e] = attached[e] \/ attached'[e] = NoStream
        BY <2>3 DEF Receive, TypeInv, StreamTypeOK
      <4>6. evicted <= evicted'
        BY <1>1, <4>3
      <4>7. attached[c] \in Streams =>
              \A e \in Clients :
                attached'[e] = attached[c] => attached[e] = attached[c]
        BY <4>5, StreamAssumption
      <4> QED
        BY <1>1, <4>3, <4>4, <4>6, <4>7, ClientQuiet
    <3> QED
      BY <3>1, <3>2
  <2>4. CASE Drop(d)
    <3>1. CASE d = c
      BY <2>4, <3>1 DEF Drop, ClientInv, TypeInv, StreamTypeOK
    <3>2. CASE d # c
      <4>1. cstate[d] = "attached" /\ attached[d] \in Streams /\ attached[d] # NoStream
        BY <2>4, StreamAssumption DEF Drop, TypeInv
      <4>2. attached[c] # attached[d]
        BY <3>2, <4>1 DEF ClientInv
      <4>3. /\ UNCHANGED <<evicted, hpc, since, lastSeq, clast>>
            /\ cstate'[c] = cstate[c] /\ attached'[c] = attached[c]
        BY <2>4, <3>2 DEF Drop, TypeInv, StreamTypeOK
      <4>4. attached[c] \in Streams =>
              /\ wire'[attached[c]] = wire[attached[c]]
              /\ broken'[attached[c]] = broken[attached[c]]
        BY <2>4, <4>1, <4>2 DEF Drop, TypeInv, StreamTypeOK
      <4>5. \A e \in Clients : attached'[e] = attached[e] \/ attached'[e] = NoStream
        BY <2>4 DEF Drop, TypeInv, StreamTypeOK
      <4>6. evicted <= evicted'
        BY <1>1, <4>3
      <4>7. attached[c] \in Streams =>
              \A e \in Clients :
                attached'[e] = attached[c] => attached[e] = attached[c]
        BY <4>5, StreamAssumption
      <4> QED
        BY <1>1, <4>3, <4>4, <4>6, <4>7, ClientQuiet
    <3> QED
      BY <3>1, <3>2
  <2> QED
    BY <1>9, <2>1, <2>2, <2>3, <2>4 DEF Client
<1>10. CASE UNCHANGED streamVars
  BY <1>1, <1>2, <1>10 DEF streamVars
<1> QED
  BY <1>3, <1>4, <1>5, <1>6, <1>7, <1>8, <1>9, <1>10
  DEF AnyNext, StreamStep, Publisher

-----------------------------------------------------------------------------
(* The theorems.                                                           *)

(* The whole inductive invariant.                                          *)
Inv == TypeInv /\ DeliveryInv

(* The inductive invariant holds in the first state ...                    *)
LEMMA InvInit == StreamInit => Inv
<1> SUFFICES ASSUME StreamInit PROVE Inv
  OBVIOUS
<1>1. TypeInv
  BY TypeInit
<1>2. Consecutive(<<>>)
  BY DEF Consecutive
<1>3. RingInv
  BY <1>2 DEF StreamInit, RingInv, LastOutput
<1>4. ASSUME NEW s \in Streams PROVE HandlerInv(s)
  BY DEF StreamInit, HandlerInv, Untouched
<1>5. ASSUME NEW c \in Clients PROVE ClientInv(c)
  BY DEF StreamInit, ClientInv
<1> QED
  BY <1>1, <1>3, <1>4, <1>5 DEF Inv, DeliveryInv

(* ... and every step keeps it ...                                         *)
LEMMA InvStep == Inv /\ [AnyNext]_streamVars => Inv'
<1> SUFFICES ASSUME Inv, [AnyNext]_streamVars PROVE Inv'
  OBVIOUS
<1>1. /\ TypeInv /\ RingInv
      /\ \A s \in Streams : HandlerInv(s)
      /\ \A c \in Clients : ClientInv(c)
  BY DEF Inv, DeliveryInv
<1>2. TypeInv'
  BY <1>1, TypeStep
<1>3. RingInv'
  BY <1>1, <1>2, RingStep
<1>4. \A s \in Streams : HandlerInv(s)'
  BY <1>1, <1>2, HandlerStep
<1>5. \A c \in Clients : ClientInv(c)'
  BY <1>1, <1>2, ClientStep
<1> QED
  BY <1>2, <1>3, <1>4, <1>5 DEF Inv, DeliveryInv

(* ... so it holds throughout.                                             *)
LEMMA InvHolds == StreamSpec => []Inv
BY InvInit, InvStep, BoundedSteps, PTL DEF StreamSpec

(* Between the ring, the channel, the handler and the wire of every stream *)
(* no event is out of place: the channel of a stream starts no later than  *)
(* its replay ends, and the wire continues what the client has seen.       *)
THEOREM DeliveryInvariant == StreamSpec => []DeliveryInv
<1>1. Inv => DeliveryInv
  BY DEF Inv
<1> QED
  BY <1>1, InvHolds, PTL

-----------------------------------------------------------------------------
(* What a connection carries and what a client reads.                      *)

(* A wire grows by exactly the next event.                                 *)
LEMMA WireStep ==
  ASSUME Inv, Inv', [AnyNext]_streamVars, NEW s \in Streams,
         lastSeq[s] > 0, Len(wire'[s]) > Len(wire[s])
  PROVE  LastOf(wire'[s]) = lastSeq[s] + 1
<1> USE DEF sessionVars, pubVars, handlerVars, clientVars
<1>1. /\ TypeInv /\ RingInv /\ HandlerInv(s)
  BY DEF Inv, DeliveryInv
<1>2. wire \in [Streams -> Seq(Event)] /\ Len(wire[s]) \in Nat
  BY <1>1 DEF TypeInv, StreamTypeOK
<1>3. \A r \in Streams : wire[r] # <<>> => Len(Tail(wire[r])) < Len(wire[r])
  <2>1. \A r \in Streams : wire[r] \in Seq(Event)
    BY <1>2
  <2> QED
    BY <2>1, HeadTail
<1>4. wire' # wire
  BY <1>2
<1>5. ASSUME NEW ev \in Event, WriteEvent(s, ev), Fits(s, ev.seq)
      PROVE  LastOf(wire'[s]) = lastSeq[s] + 1
  <2>1. wire'[s] = Append(wire[s], ev)
    BY <1>2, <1>4, <1>5 DEF WriteEvent
  <2>2. Len(wire'[s]) = Len(wire[s]) + 1 /\ wire'[s][Len(wire[s]) + 1] = ev
    BY <1>2, <2>1, QueueAppend
  <2>3. ev.seq = lastSeq[s] + 1
    BY <1>5 DEF Fits
  <2> QED
    BY <2>2, <2>3 DEF LastOf
<1>6. ASSUME NEW r \in Streams, Handler(r)
      PROVE  LastOf(wire'[s]) = lastSeq[s] + 1
  <2>1. r = s
    <3>1. \E e : WriteEvent(r, e)
      BY <1>4, <1>6 DEF Handler, Subscribe, CopyRing, ReplaySkip, ReplayWrite,
         ReplayDone, LiveSkip, LiveOutput, LiveExit, Hangup
    <3> QED
      BY <1>2, <3>1 DEF WriteEvent
  <2>2. ReplayWrite(s) \/ LiveOutput(s) \/ LiveExit(s)
    BY <1>4, <1>6, <2>1 DEF Handler, Subscribe, CopyRing, ReplaySkip, ReplayDone,
       LiveSkip, Hangup
  <2>3. CASE ReplayWrite(s)
    BY <1>1, <1>5, <2>3, ReplayFits
  <2>4. CASE LiveOutput(s) \/ LiveExit(s)
    BY <1>1, <1>5, <2>4, LiveFits
  <2> QED
    BY <2>2, <2>3, <2>4
<1>7. ASSUME NEW c \in Clients PROVE ~Client(c)
  <2>1. ASSUME Receive(c) PROVE FALSE
    <3>1. /\ cstate[c] = "attached" /\ wire[attached[c]] # <<>>
          /\ \/ wire' = [wire EXCEPT ![attached[c]] = Tail(@)]
             \/ wire' = [wire EXCEPT ![attached[c]] = <<>>]
      BY <2>1 DEF Receive
    <3>2. attached[c] \in Streams
      BY <1>1, <3>1 DEF TypeInv
    <3>3. Len(<<>>) = 0
      OBVIOUS
    <3>4. Len(wire'[s]) <= Len(wire[s])
      <4>1. CASE s = attached[c]
        <5>1. wire'[s] = Tail(wire[s]) \/ wire'[s] = <<>>
          BY <1>2, <3>1, <4>1
        <5>2. Len(Tail(wire[s])) < Len(wire[s]) /\ Len(Tail(wire[s])) \in Nat
          BY <1>2, <3>1, <4>1, HeadTail
        <5> QED
          BY <1>2, <5>1, <5>2
      <4>2. CASE s # attached[c]
        BY <1>2, <3>1, <4>2
      <4> QED
        BY <4>1, <4>2
    <3>5. Len(wire'[s]) \in Nat
      <4>1. wire'[s] \in Seq(Event)
        BY DEF Inv, TypeInv, StreamTypeOK
      <4> QED
        BY <4>1
    <3> QED
      BY <1>2, <3>4, <3>5
  <2>2. ASSUME Drop(c) PROVE FALSE
    <3>1. wire' = [wire EXCEPT ![attached[c]] = <<>>]
      BY <2>2 DEF Drop
    <3>2. wire'[s] = wire[s] \/ wire'[s] = <<>>
      BY <1>2, <3>1
    <3> QED
      BY <1>2, <3>2
  <2> QED
    BY <1>4, <2>1, <2>2 DEF Client, Connect, NotFound
<1> QED
  BY <1>4, <1>6, <1>7 DEF AnyNext, StreamStep, Publisher, EmitOutput, EmitExit,
     Evict, RingDone, SnapshotSubs, Deliver, Detach, PublishDone, Unlist, streamVars

(* Once the handler of a connection has started to write, every write is   *)
(* the event right after the one before, across the switch from the ring   *)
(* to the live channel and whatever the ring evicts meanwhile.             *)
THEOREM ConnectionIsConsecutive == StreamSpec => WireConsecutive
<1>1. Inv /\ Inv' /\ [AnyNext]_streamVars =>
        [\A s \in Streams :
           lastSeq[s] > 0 /\ Len(wire'[s]) > Len(wire[s])
             => LastOf(wire'[s]) = lastSeq[s] + 1]_streamVars
  BY WireStep
<1> QED
  BY <1>1, InvHolds, BoundedSteps, PTL DEF StreamSpec, WireConsecutive

(* The first state of a session is the empty log.                          *)
LEMMA LogInitial == StreamInit => Log!LogInit
BY DEF StreamInit, Log!LogInit

(* Every step of the session is a step of the log or leaves it alone.      *)
LEMMA LogStep == Inv /\ [AnyNext]_streamVars => [Log!LogNext]_(Log!logVars)
<1> SUFFICES ASSUME Inv, [AnyNext]_streamVars
             PROVE  [Log!LogNext]_(Log!logVars)
  OBVIOUS
<1> USE DEF sessionVars, pubVars, handlerVars, clientVars
<1>1. /\ TypeInv /\ RingInv
      /\ \A s \in Streams : HandlerInv(s)
      /\ \A c \in Clients : ClientInv(c)
  BY DEF Inv, DeliveryInv
<1>2. CASE UNCHANGED <<seq, exited, evicted, clast>>
  BY <1>2 DEF Log!logVars
<1>3. ASSUME NEW d \in Payloads, EmitOutput(d) PROVE Log!LogNext
  BY <1>3 DEF EmitOutput, Log!LogNext, Log!LogAppend
<1>4. CASE EmitExit
  BY <1>4 DEF EmitExit, Log!LogNext, Log!LogClose
<1>5. CASE Evict
  <2>1. /\ ring # <<>> /\ evicted' = Head(ring).seq
        /\ UNCHANGED <<seq, exited, clast>>
        /\ ~exited
    BY <1>1, <1>5 DEF Evict, RingInv
  <2>2. evicted < seq /\ evicted' = evicted + 1
    BY <1>1, <2>1, RingFacts
  <2> QED
    BY <2>1, <2>2 DEF Log!LogNext, Log!LogTrim
<1>6. ASSUME NEW c \in Clients, Receive(c), clast' # clast
      PROVE  Log!LogNext
  <2> DEFINE s == attached[c]
             n == Head(wire[s]).seq
  <2>1. /\ cstate[c] = "attached" /\ wire[s] # <<>>
        /\ ~(n <= clast[c]) /\ clast' = [clast EXCEPT ![c] = n]
        /\ UNCHANGED <<seq, exited, evicted>>
    BY <1>6 DEF Receive
  <2>2. s \in Streams /\ s # NoStream
    BY <1>1, <2>1, StreamAssumption DEF TypeInv
  <2>3. /\ LastOf(wire[s]) = lastSeq[s] /\ Consecutive(wire[s])
        /\ Follows(n, clast[c])
    BY <1>1, <2>1, <2>2 DEF ClientInv
  <2>4. /\ wire[s] \in Seq(Event) /\ clast[c] \in Nat /\ seq \in Nat
        /\ lastSeq[s] \in Nat
    BY <1>1, <2>2 DEF TypeInv, StreamTypeOK
  <2>5. n \in Nat /\ n <= lastSeq[s]
    <3>1. Head(wire[s]) \in Event
      BY <2>1, <2>4, HeadTail
    <3>2. n <= LastOf(wire[s])
      BY <2>1, <2>3, <2>4, ConsecutiveTail
    <3> QED
      BY <2>3, <3>1, <3>2 DEF Event
  <2>6. lastSeq[s] <= seq
    BY <1>1, <2>2 DEF HandlerInv
  <2> HIDE DEF n, s
  <2>7. n \in 1 .. seq /\ (n = clast[c] + 1 \/ n - 1 <= evicted)
    BY <2>1, <2>3, <2>4, <2>5, <2>6 DEF Follows
  <2>8. clast[c] < n /\ n <= seq
    BY <2>1, <2>4, <2>5, <2>7
  <2>9. Log!LogRead(c, n)
    BY <2>1, <2>7, <2>8 DEF Log!LogRead
  <2> QED
    BY <2>7, <2>9 DEF Log!LogNext
<1>7. ASSUME NEW c \in Clients, Client(c)
      PROVE  UNCHANGED <<seq, exited, evicted, clast>> \/ (Receive(c) /\ clast' # clast)
  BY <1>7 DEF Client, Connect, NotFound, Receive, Drop
<1>8. ASSUME NEW s \in Streams, Handler(s)
      PROVE  UNCHANGED <<seq, exited, evicted, clast>>
  BY <1>8 DEF Handler, Subscribe, CopyRing, ReplaySkip, ReplayWrite, ReplayDone,
     LiveSkip, LiveOutput, LiveExit, Hangup
<1>9. ASSUME RingDone \/ SnapshotSubs \/ PublishDone \/ Unlist \/ UNCHANGED streamVars
      PROVE  UNCHANGED <<seq, exited, evicted, clast>>
  BY <1>9 DEF RingDone, SnapshotSubs, PublishDone, Unlist, streamVars
<1>10. ASSUME NEW s \in Streams, Deliver(s) \/ Detach(s)
       PROVE  UNCHANGED <<seq, exited, evicted, clast>>
  BY <1>10 DEF Deliver, Detach
<1> QED
  BY <1>2, <1>3, <1>4, <1>5, <1>6, <1>7, <1>8, <1>9, <1>10
  DEF AnyNext, StreamStep, Publisher

(* The session, its ring, its handlers, its connections and its clients    *)
(* implement the log: every client consumes the events in order, each at   *)
(* most once, and skips only what the ring has evicted.                    *)
THEOREM StreamImplementsLog == StreamSpec => ImplementsLog
BY LogInitial, LogStep, InvHolds, BoundedSteps, PTL
DEF StreamSpec, ImplementsLog, Log!LogSpec

-----------------------------------------------------------------------------
(* The size of the ring.                                                   *)

DataOf(q) == [i \in DOMAIN q |-> q[i].data]

RingSize(q) == Len(FlattenSeq(DataOf(q)))

Letters == UNION {ToSet(d) : d \in Payloads}

LEMMA DataSeq ==
  ASSUME NEW q \in Seq(Event)
  PROVE  /\ DataOf(q) \in Seq(Seq(Letters)) /\ Len(DataOf(q)) = Len(q)
         /\ RingSize(q) \in Nat
<1>1. ASSUME NEW i \in DOMAIN q PROVE q[i].data \in Seq(Letters)
  <2>1. q[i] \in Event
    OBVIOUS
  <2>2. q[i].data \in Payloads \cup {<<>>}
    BY <2>1 DEF Event
  <2>3. CASE q[i].data \in Payloads
    <3>1. PICK d : d = q[i].data
      OBVIOUS
    <3>2. d \in Seq(ToSet(d)) /\ ToSet(d) \subseteq Letters
      BY <2>3, <3>1, StreamAssumption DEF Letters
    <3>3. d \in Seq(Letters)
      BY ONLY <3>2, SeqGrow, Zenon
    <3>. QED  BY <3>1, <3>3
  <2>4. CASE q[i].data = <<>>
    BY <2>4
  <2>. QED  BY <2>2, <2>3, <2>4
<1>2. DOMAIN q = 1 .. Len(q) /\ Len(q) \in Nat
  OBVIOUS
<1>3. DataOf(q) \in Seq(Seq(Letters)) /\ Len(DataOf(q)) = Len(q)
  BY <1>1, <1>2 DEF DataOf
<1>4. FlattenSeq(DataOf(q)) \in Seq(Letters)
  BY <1>3, FlattenType
<1>. QED  BY <1>3, <1>4 DEF RingSize

LEMMA RingSizeAppend ==
  ASSUME NEW q \in Seq(Event), NEW e \in Event
  PROVE  RingSize(Append(q, e)) = RingSize(q) + Len(e.data)
<1>1. PICK p : p = Append(q, e)
  OBVIOUS
<1>2. /\ p \in Seq(Event) /\ Len(p) = Len(q) + 1 /\ Len(q) \in Nat
      /\ p[Len(q) + 1] = e /\ \A i \in 1 .. Len(q) : p[i] = q[i]
  BY <1>1, AppendFacts
<1>3. PICK a, b, d : a = DataOf(q) /\ b = DataOf(p) /\ d = e.data
  OBVIOUS
<1>4. /\ a \in Seq(Seq(Letters)) /\ Len(a) = Len(q)
      /\ b \in Seq(Seq(Letters)) /\ Len(b) = Len(q) + 1
  BY <1>2, <1>3, DataSeq
<1>5. b[Len(q) + 1] = d /\ \A i \in 1 .. Len(q) : b[i] = a[i]
  <2>1. DOMAIN p = 1 .. Len(q) + 1 /\ DOMAIN q = 1 .. Len(q)
    BY <1>2
  <2>. QED  BY <1>2, <1>3, <2>1 DEF DataOf
<1>6. d \in Seq(Letters)
  BY <1>2, <1>4, <1>5
<1>7. b = Append(a, d)
  BY <1>4, <1>5, <1>6, SameSeq, AppendFacts
<1>8. FlattenSeq(b) = FlattenSeq(a) \o d
  BY <1>4, <1>6, <1>7, FlattenAppend
<1>9. FlattenSeq(a) \in Seq(Letters)
  BY <1>4, FlattenType
<1>10. Len(FlattenSeq(a) \o d) = Len(FlattenSeq(a)) + Len(d)
  BY <1>6, <1>9, ConcatFacts
<1>. QED  BY <1>1, <1>3, <1>8, <1>10 DEF RingSize

LEMMA RingSizeTail ==
  ASSUME NEW q \in Seq(Event), q # <<>>
  PROVE  RingSize(q) = Len(Head(q).data) + RingSize(Tail(q))
<1>1. PICK t : t = Tail(q)
  OBVIOUS
<1>2. /\ t \in Seq(Event) /\ Len(q) = Len(t) + 1 /\ Len(t) \in Nat
      /\ Head(q) = q[1] /\ \A i \in 1 .. Len(t) : t[i] = q[i + 1]
  BY <1>1, TailFacts
<1>3. PICK a, b : a = DataOf(q) /\ b = DataOf(t)
  OBVIOUS
<1>4. /\ a \in Seq(Seq(Letters)) /\ Len(a) = Len(q)
      /\ b \in Seq(Seq(Letters)) /\ Len(b) = Len(t)
  BY <1>2, <1>3, DataSeq
<1>5. a # <<>> /\ a[1] = Head(q).data /\ \A i \in 1 .. Len(t) : b[i] = a[i + 1]
  <2>1. DOMAIN q = 1 .. Len(t) + 1 /\ DOMAIN t = 1 .. Len(t)
    BY <1>2
  <2>. QED  BY <1>2, <1>3, <1>4, <2>1 DEF DataOf
<1>6. Head(a) = Head(q).data /\ Tail(a) = b
  <2>1. /\ Tail(a) \in Seq(Seq(Letters)) /\ Head(a) = a[1]
        /\ Len(Tail(a)) = Len(t) /\ \A i \in 1 .. Len(t) : Tail(a)[i] = a[i + 1]
    BY <1>2, <1>4, <1>5, TailFacts
  <2>. QED  BY <1>4, <1>5, <2>1, SameSeq
<1>7. FlattenSeq(a) = Head(a) \o FlattenSeq(b)
  BY <1>4, <1>5, <1>6, FlattenCons
<1>8. Head(a) \in Seq(Letters) /\ FlattenSeq(b) \in Seq(Letters)
  BY <1>4, <1>5, FlattenType
<1>9. Len(Head(a) \o FlattenSeq(b)) = Len(Head(a)) + Len(FlattenSeq(b))
  BY <1>8, ConcatFacts
<1>. QED  BY <1>1, <1>3, <1>6, <1>7, <1>9 DEF RingSize

(* The ring while appendRing works on it, too.                             *)
RingAccounts ==
  /\ ringBytes = RingSize(ring)
  /\ MuFree => ringBytes <= RingMax
  /\ EventsFit /\ LastOutput > 0 => ring # <<>>

LEMMA RingAccountsStep == Inv /\ RingAccounts /\ [AnyNext]_streamVars => RingAccounts'
<1>. SUFFICES ASSUME Inv, RingAccounts, [AnyNext]_streamVars PROVE RingAccounts'
  OBVIOUS
<1>1. /\ ring \in Seq(Event) /\ seq \in Nat /\ RingMax \in Nat /\ RingInv
      /\ exited \in BOOLEAN
  BY StreamAssumption DEF Inv, TypeInv, StreamTypeOK, DeliveryInv
<1>2. RingSize(<<>>) = 0
  <2>1. DataOf(<<>>) = <<>>
    BY DEF DataOf
  <2>. QED  BY <2>1, FlattenEmpty DEF RingSize
<1>3. CASE UNCHANGED <<ring, ringBytes, pub, seq, exited>>
  BY <1>3 DEF RingAccounts, MuFree, LastOutput
<1>4. ASSUME NEW d \in Payloads, EmitOutput(d) PROVE RingAccounts'
  <2>1. OutputEvent(seq + 1, d) \in Event /\ OutputEvent(seq + 1, d).data = d
    BY <1>1 DEF OutputEvent, Event
  <2>2. /\ ring' = Append(ring, OutputEvent(seq + 1, d))
        /\ ringBytes' = ringBytes + Len(d) /\ pub' = "appending"
    BY <1>4 DEF EmitOutput
  <2>3. ringBytes' = RingSize(ring')
    BY <1>1, <2>1, <2>2, RingSizeAppend DEF RingAccounts
  <2>4. ring' # <<>>
    BY <1>1, <2>1, <2>2
  <2>. QED  BY <2>2, <2>3, <2>4 DEF RingAccounts, MuFree
<1>5. CASE EmitExit
  BY <1>1, <1>5 DEF EmitExit, RingAccounts, MuFree, LastOutput
<1>6. CASE Evict
  <2>1. /\ ring # <<>> /\ ring' = Tail(ring) /\ ringBytes > RingMax
        /\ ringBytes' = ringBytes - Len(Head(ring).data) /\ pub' = "appending"
        /\ UNCHANGED <<seq, exited>>
    BY <1>6 DEF Evict, pubVars
  <2>2. RingSize(ring) = Len(Head(ring).data) + RingSize(Tail(ring))
    BY <1>1, <2>1, RingSizeTail
  <2>3. Tail(ring) \in Seq(Event) /\ Head(ring) \in Event
    BY <1>1, <2>1, TailFacts
  <2>4. Head(ring).data \in Payloads \cup {<<>>}
    BY <2>3 DEF Event
  <2>5. Len(Head(ring).data) \in Nat /\ RingSize(Tail(ring)) \in Nat
    BY <2>3, <2>4, PayloadLen, DataSeq
  <2>6. ringBytes' = RingSize(ring')
    BY <2>1, <2>2, <2>5 DEF RingAccounts
  <2>7. EventsFit => ring' # <<>>
    <3>. SUFFICES ASSUME EventsFit, ring' = <<>> PROVE FALSE
      OBVIOUS
    <3>1. ringBytes = Len(Head(ring).data)
      <4>1. Tail(ring) = <<>>
        BY <2>1
      <4>2. RingSize(Tail(ring)) = 0
        BY <1>2, <4>1
      <4>3. ringBytes = RingSize(ring)
        BY DEF RingAccounts
      <4>. QED  BY <2>2, <2>5, <4>2, <4>3
    <3>2. Len(Head(ring).data) <= RingMax
      BY <1>1, <2>4 DEF EventsFit
    <3>. QED  BY <1>1, <2>1, <2>5, <3>1, <3>2
  <2>. QED  BY <2>1, <2>6, <2>7 DEF RingAccounts, MuFree
<1>7. CASE RingDone
  BY <1>1, <1>2, <1>7 DEF RingDone, RingAccounts, MuFree, LastOutput, sessionVars
<1>8. CASE SnapshotSubs \/ PublishDone
  BY <1>8 DEF SnapshotSubs, PublishDone, RingAccounts, MuFree, LastOutput, sessionVars
<1>. QED
  BY <1>3, <1>4, <1>5, <1>6, <1>7, <1>8
     DEF AnyNext, StreamStep, Publisher, Handler, Client, Deliver, Detach, Unlist,
         Subscribe, CopyRing, ReplaySkip, ReplayWrite, ReplayDone, LiveSkip,
         LiveOutput, LiveExit, Hangup, Connect, NotFound, Receive, Drop,
         sessionVars, pubVars, streamVars

LEMMA RingAccountsInit == StreamInit => RingAccounts
<1>1. DataOf(<<>>) = <<>>
  BY DEF DataOf
<1>. QED
  BY <1>1, FlattenEmpty, StreamAssumption
     DEF StreamInit, RingAccounts, RingSize, MuFree, LastOutput

(* The ring accounts for its bytes, keeps its limit between two appends    *)
(* and never loses the event that was just appended.                       *)
THEOREM RingAccountingHolds == StreamSpec => []RingAccounting
<1>1. RingAccounts => RingAccounting
  BY DEF RingAccounts, RingAccounting, RingSize, DataOf
<1>. QED
  BY <1>1, RingAccountsInit, RingAccountsStep, InvHolds, BoundedSteps, PTL DEF StreamSpec

-----------------------------------------------------------------------------
(* Drained streams.                                                        *)

(* What has become of the exit event on its way to stream s.               *)
ExitUnderWay(s) ==
  s \in subs /\ exited /\ ~Owed(s) =>
    /\ chan[s] # <<>> => LastOf(chan[s]) = seq
    /\ chan[s] = <<>> /\ hpc[s] \in {"replay", "live"}
         => Covered(s) >= seq - 1 \/ ring = <<>>

(* A step that leaves the queues of a stream alone.                        *)
LEMMA ExitUnderWayQuiet ==
  ASSUME Inv, NEW s \in Streams, ExitUnderWay(s),
         UNCHANGED <<seq, ring, exited>>, Owed(s) => Owed(s)', s \in subs' => s \in subs,
         UNCHANGED <<chan[s], replay[s], lastSeq[s], since[s], hpc[s]>>
  PROVE  ExitUnderWay(s)'
  BY DEF ExitUnderWay, Covered, Written, LastOf

LEMMA ExitUnderWayHandler ==
  ASSUME Inv, Inv', NEW s \in Streams, Handler(s), ExitUnderWay(s)
  PROVE  ExitUnderWay(s)'
<1> USE DEF sessionVars, pubVars, handlerVars, clientVars
<1>1. TypeInv /\ TypeInv' /\ RingInv /\ HandlerInv(s)
  BY DEF Inv, DeliveryInv
<1>2. /\ seq \in Nat /\ since[s] \in Nat /\ lastSeq[s] \in Nat /\ Written(s) \in Nat
      /\ chan[s] \in Seq(Event) /\ replay[s] \in Seq(Event) /\ exited \in BOOLEAN
  BY <1>1, StreamTypes DEF TypeInv, StreamTypeOK
<1>3. UNCHANGED <<seq, ring, exited, pub, todo>> /\ (Owed(s) <=> Owed(s)')
  BY DEF Handler, Subscribe, CopyRing, ReplaySkip, ReplayWrite, ReplayDone, LiveSkip,
         LiveOutput, LiveExit, Hangup, Owed
<1>4. SUFFICES ASSUME exited, ~Owed(s), s \in subs'
               PROVE  /\ chan'[s] # <<>> => LastOf(chan[s])' = seq
                      /\ chan'[s] = <<>> /\ hpc'[s] \in {"replay", "live"}
                           => Covered(s)' >= seq - 1 \/ ring = <<>>
  BY <1>3 DEF ExitUnderWay
<1>5. CASE Subscribe(s)
  <2>1. hpc'[s] = "subscribed" /\ chan' = chan /\ chan[s] = <<>>
    BY <1>1, <1>5 DEF Subscribe, HandlerInv, Untouched, TypeInv, StreamTypeOK
  <2>. QED  BY <2>1
<1>6. CASE CopyRing(s)
  <2>1. /\ hpc[s] = "subscribed" /\ chan' = chan /\ s \in subs /\ replay'[s] = ring
    BY <1>1, <1>4, <1>6 DEF CopyRing, TypeInv, StreamTypeOK
  <2>2. chan'[s] # <<>> => LastOf(chan[s])' = seq
    BY <1>4, <2>1 DEF ExitUnderWay, LastOf
  <2>3. ring # <<>> => Covered(s)' = seq - 1
    BY <1>1, <1>4, <2>1 DEF Covered, RingInv, LastOutput, LastOf
  <2>. QED  BY <1>2, <2>2, <2>3
<1>7. CASE ReplaySkip(s) \/ ReplayWrite(s)
  <2>1. /\ hpc[s] = "replay" /\ chan' = chan /\ s \in subs /\ replay[s] # <<>>
        /\ replay'[s] = Tail(replay[s]) /\ since' = since
    BY <1>1, <1>4, <1>7 DEF ReplaySkip, ReplayWrite, TypeInv, StreamTypeOK
  <2>2. \/ Head(replay[s]).seq <= since[s] /\ lastSeq'[s] = lastSeq[s]
        \/ Head(replay[s]).seq > since[s] /\ lastSeq'[s] = Head(replay[s]).seq
    BY <1>1, <1>7 DEF ReplaySkip, ReplayWrite, WriteEvent, TypeInv, StreamTypeOK
  <2>3. /\ Head(replay[s]).seq \in Nat /\ LastOf(replay[s]) \in Nat
        /\ Tail(replay[s]) = <<>> => LastOf(replay[s]) = Head(replay[s]).seq
        /\ Tail(replay[s]) # <<>> => LastOf(Tail(replay[s])) = LastOf(replay[s])
    BY <1>1, <2>1, HandlerFacts
  <2>4. lastSeq[s] > 0 => lastSeq[s] > since[s]
    BY <1>1, <2>1 DEF HandlerInv
  <2>5. Covered(s) = LastOf(replay[s])
    BY <2>1 DEF Covered
  <2>6. Covered(s)' >= LastOf(replay[s])
    <3>1. CASE Tail(replay[s]) = <<>>
      <4>1. Covered(s)' = Written(s)' /\ LastOf(replay[s]) = Head(replay[s]).seq
        BY <2>1, <2>3, <3>1 DEF Covered
      <4>2. Written(s)' >= Head(replay[s]).seq
        BY <1>2, <2>1, <2>2, <2>3, <2>4 DEF Written
      <4>. QED  BY <4>1, <4>2
    <3>2. CASE Tail(replay[s]) # <<>>
      <4>1. Covered(s)' = LastOf(replay[s])
        BY <2>1, <2>3, <3>2 DEF Covered, LastOf
      <4>. QED  BY <2>3, <4>1
    <3>. QED  BY <3>1, <3>2
  <2>7. Covered(s)' \in Nat
    <3>1. Covered(s)' = IF Tail(replay[s]) = <<>> THEN Written(s)' ELSE LastOf(replay[s])
      BY <2>1, <2>3 DEF Covered, LastOf
    <3>2. Written(s)' \in Nat
      BY <1>2, <2>1, <2>2, <2>3 DEF Written
    <3>. QED  BY <2>3, <3>1, <3>2
  <2>8. chan[s] = <<>> => LastOf(replay[s]) >= seq - 1 \/ ring = <<>>
    BY <1>4, <2>1, <2>5 DEF ExitUnderWay
  <2>9. chan[s] # <<>> => LastOf(chan[s])' = seq
    BY <1>4, <2>1 DEF ExitUnderWay, LastOf
  <2>. QED  BY <1>2, <2>1, <2>3, <2>6, <2>7, <2>8, <2>9
<1>8. CASE ReplayDone(s)
  <2>1. UNCHANGED <<chan, replay, since, lastSeq>> /\ hpc[s] = "replay" /\ s \in subs
    BY <1>4, <1>8 DEF ReplayDone
  <2>2. Covered(s)' = Covered(s)
    BY <2>1 DEF Covered, Written, LastOf
  <2>. QED  BY <1>4, <2>1, <2>2 DEF ExitUnderWay, LastOf
<1>9. CASE LiveSkip(s) \/ LiveOutput(s)
  <2>1. /\ hpc[s] = "live" /\ s \in subs /\ chan[s] # <<>> /\ replay' = replay
        /\ chan'[s] = Tail(chan[s])
    BY <1>1, <1>4, <1>9 DEF LiveSkip, LiveOutput, TypeInv, StreamTypeOK
  <2>2. /\ LastOf(chan[s]) = seq /\ replay[s] = <<>>
    BY <1>1, <1>4, <2>1 DEF ExitUnderWay, HandlerInv
  <2>3. /\ Tail(chan[s]) = <<>> => LastOf(chan[s]) = Head(chan[s]).seq
        /\ Tail(chan[s]) # <<>> => LastOf(Tail(chan[s])) = LastOf(chan[s])
        /\ Head(chan[s]).seq \in Nat
    BY <1>1, <2>1, HandlerFacts
  <2>4. chan'[s] # <<>> => LastOf(chan[s])' = seq
    BY <2>1, <2>2, <2>3 DEF LastOf
  <2>5. ASSUME chan'[s] = <<>> PROVE Covered(s)' >= seq - 1
    <3>1. Head(chan[s]).seq = seq
      BY <2>1, <2>2, <2>3, <2>5
    <3>2. lastSeq'[s] >= seq \/ lastSeq'[s] = seq
      BY <1>1, <1>2, <1>9, <3>1 DEF LiveSkip, LiveOutput, WriteEvent, TypeInv, StreamTypeOK
    <3>3. lastSeq'[s] \in Nat /\ since'[s] = since[s] /\ lastSeq'[s] >= seq
      BY <1>1, <1>2, <1>9, <3>2 DEF LiveSkip, LiveOutput, TypeInv, StreamTypeOK
    <3>4. Covered(s)' = Written(s)'
      BY <2>1, <2>2 DEF Covered
    <3>. QED  BY <1>2, <3>3, <3>4 DEF Written
  <2>. QED  BY <2>4, <2>5
<1>10. CASE LiveExit(s) \/ Hangup(s)
  BY <1>4, <1>10 DEF LiveExit, Hangup
<1>. QED  BY <1>5, <1>6, <1>7, <1>8, <1>9, <1>10 DEF Handler

LEMMA ExitUnderWayStep ==
  ASSUME Inv, Inv', [AnyNext]_streamVars, NEW s \in Streams, ExitUnderWay(s)
  PROVE  ExitUnderWay(s)'
<1> USE DEF sessionVars, pubVars, handlerVars, clientVars
<1>1. TypeInv /\ TypeInv' /\ RingInv /\ HandlerInv(s)
  BY DEF Inv, DeliveryInv
<1>2. CASE UNCHANGED streamVars
  BY <1>2, ExitUnderWayQuiet DEF streamVars, Owed
<1>3. ASSUME NEW d \in Payloads, EmitOutput(d) PROVE ExitUnderWay(s)'
  BY <1>3 DEF EmitOutput, ExitUnderWay
<1>4. CASE EmitExit
  BY <1>4 DEF EmitExit, ExitUnderWay, Owed
<1>5. CASE Evict \/ RingDone
  BY <1>1, <1>5 DEF Evict, RingDone, RingInv, ExitUnderWay
<1>6. CASE SnapshotSubs
  BY <1>6 DEF SnapshotSubs, ExitUnderWay, Owed
<1>7. CASE PublishDone \/ Unlist
  BY <1>7, ExitUnderWayQuiet DEF PublishDone, Unlist, Owed
<1>8. ASSUME NEW r \in Streams, Deliver(r) PROVE ExitUnderWay(s)'
  <2>1. CASE r = s
    <3>1. chan'[s] = Append(chan[s], cur) /\ UNCHANGED <<seq, ring, exited>>
      BY <1>1, <1>8, <2>1 DEF Deliver, TypeInv, StreamTypeOK
    <3>2. chan[s] \in Seq(Event) /\ cur \in Event /\ cur.seq = seq
      BY <1>1, <1>8, StreamTypes DEF Deliver, RingInv
    <3>3. chan'[s] # <<>> /\ LastOf(chan[s])' = seq
      BY <3>1, <3>2, AppendFacts DEF LastOf
    <3>. QED  BY <3>1, <3>3 DEF ExitUnderWay
  <2>2. CASE r # s
    <3>1. chan'[s] = chan[s]
      BY <1>1, <1>8, <2>2 DEF Deliver, TypeInv, StreamTypeOK
    <3>. QED  BY <1>8, <2>2, <3>1, ExitUnderWayQuiet DEF Deliver, Owed
  <2>. QED  BY <2>1, <2>2
<1>9. ASSUME NEW r \in Streams, Detach(r) PROVE ExitUnderWay(s)'
  <2>1. CASE r = s
    BY <1>9, <2>1 DEF Detach, ExitUnderWay
  <2>2. CASE r # s
    BY <1>9, <2>2, ExitUnderWayQuiet DEF Detach, Owed
  <2>. QED  BY <2>1, <2>2
<1>10. ASSUME NEW r \in Streams, Handler(r) PROVE ExitUnderWay(s)'
  <2>1. CASE r = s
    BY <1>10, <2>1, ExitUnderWayHandler
  <2>2. CASE r # s
    <3>1. /\ UNCHANGED <<seq, exited, ring, pub, todo>>
          /\ s \in subs' <=> s \in subs
      BY <1>10, <2>2 DEF Handler, Subscribe, CopyRing, ReplaySkip, ReplayWrite,
         ReplayDone, LiveSkip, LiveOutput, LiveExit, Hangup
    <3>2. UNCHANGED <<chan[s], hpc[s], since[s], replay[s]>>
      BY <1>1, <1>10, <2>2 DEF Handler, Subscribe, CopyRing, ReplaySkip, ReplayWrite,
         ReplayDone, LiveSkip, LiveOutput, LiveExit, Hangup, TypeInv, StreamTypeOK
    <3>3. UNCHANGED lastSeq[s]
      BY <1>1, <1>10, <2>2 DEF Handler, Subscribe, CopyRing, ReplaySkip, ReplayWrite,
         ReplayDone, LiveSkip, LiveOutput, LiveExit, Hangup, WriteEvent, TypeInv, StreamTypeOK
    <3>. QED  BY <3>1, <3>2, <3>3, ExitUnderWayQuiet DEF Owed
  <2>. QED  BY <2>1, <2>2
<1>11. ASSUME NEW c \in Clients, Client(c) PROVE ExitUnderWay(s)'
  <2>1. ASSUME NEW r \in Streams, Connect(c, r) PROVE ExitUnderWay(s)'
    <3>1. CASE r = s
      <4>1. hpc'[s] = "opening" /\ chan' = chan /\ chan[s] = <<>>
        BY <1>1, <2>1, <3>1 DEF Connect, HandlerInv, Untouched, TypeInv, StreamTypeOK
      <4>. QED  BY <4>1 DEF ExitUnderWay
    <3>2. CASE r # s
      <4>1. UNCHANGED <<chan[s], hpc[s], since[s], replay[s], lastSeq[s]>>
        BY <1>1, <2>1, <3>2 DEF Connect, TypeInv, StreamTypeOK
      <4>. QED  BY <2>1, <4>1, ExitUnderWayQuiet DEF Connect, Owed
    <3>. QED  BY <3>1, <3>2
  <2>2. CASE NotFound(c) \/ Receive(c) \/ Drop(c)
    BY <2>2, ExitUnderWayQuiet DEF NotFound, Receive, Drop, Owed
  <2>. QED  BY <1>11, <2>1, <2>2 DEF Client
<1>. QED
  BY <1>2, <1>3, <1>4, <1>5, <1>6, <1>7, <1>8, <1>9, <1>10, <1>11
  DEF AnyNext, StreamStep, Publisher

LEMMA Drained ==
  ASSUME Inv, RingAccounts, EventsFit, \A s \in Streams : ExitUnderWay(s)
  PROVE  DrainedIsComplete
<1>1. SUFFICES ASSUME NEW c \in Clients, NEW s, s = attached[c], cstate[c] = "attached",
                      hpc[s] = "live", s \in subs, wire[s] = <<>>, chan[s] = <<>>,
                      pub = "idle"
               PROVE  clast[c] >= LastOutput
  BY DEF DrainedIsComplete
<1>2. TypeInv /\ RingInv /\ ClientInv(c) /\ s \in Streams
  BY <1>1 DEF Inv, DeliveryInv, TypeInv
<1>3. HandlerInv(s) /\ ExitUnderWay(s) /\ ~Owed(s)
  BY <1>1, <1>2 DEF Inv, DeliveryInv, Owed, RingInv
<1>4. /\ seq \in Nat /\ evicted \in Nat /\ Written(s) \in Nat /\ clast[c] \in Nat
      /\ exited \in BOOLEAN /\ ring \in Seq(Event)
  BY <1>2, StreamTypes DEF TypeInv, StreamTypeOK
<1>5. Written(s) <= clast[c] /\ Covered(s) = Written(s)
  BY <1>1, <1>2, <1>3, StreamAssumption DEF ClientInv, HandlerInv, Covered, TypeInv
<1>6. LastOutput \in Nat /\ (LastOutput > 0 => ring # <<>>)
  BY <1>2, <1>4 DEF RingAccounts, LastOutput, RingInv
<1>7. ring # <<>> => evicted < LastOutput
  BY <1>2, <1>4, <1>6, RingFacts DEF RingInv
<1>8. CASE exited
  <2>1. Covered(s) >= seq - 1 \/ ring = <<>>
    BY <1>1, <1>3, <1>8 DEF ExitUnderWay
  <2>. QED  BY <1>4, <1>5, <1>6, <1>8, <2>1 DEF LastOutput
<1>9. CASE ~exited
  <2>1. Reaches(s, seq + 1)
    BY <1>1, <1>3, <1>9 DEF HandlerInv, MoreFor, NextFor
  <2>2. seq + 1 <= Covered(s) + 1 \/ seq <= evicted
    BY <1>4, <2>1 DEF Reaches
  <2>. QED  BY <1>4, <1>5, <1>6, <1>7, <1>9, <2>2 DEF LastOutput
<1>. QED  BY <1>8, <1>9

(* A client whose live stream is drained has all the output there is, also *)
(* when it came after the exit.                                            *)
THEOREM DrainedIsCompleteHolds ==
  ASSUME EventsFit
  PROVE  StreamSpec => []DrainedIsComplete
<1>. DEFINE AllUnderWay == \A s \in Streams : ExitUnderWay(s)
<1>1. StreamInit => AllUnderWay
  BY DEF StreamInit, ExitUnderWay
<1>2. Inv /\ Inv' /\ AllUnderWay /\ [AnyNext]_streamVars => AllUnderWay'
  BY ExitUnderWayStep
<1>3. Inv /\ RingAccounts /\ AllUnderWay => DrainedIsComplete
  BY Drained
<1>. HIDE DEF AllUnderWay
<1>. QED
  BY <1>1, <1>2, <1>3, RingAccountsInit, RingAccountsStep, InvHolds, BoundedSteps, PTL
  DEF StreamSpec
=============================================================================

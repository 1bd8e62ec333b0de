---------------------------- MODULE EventStream ----------------------------
(***************************************************************************)
(* One terminal session of yoloitd from the moment a piece of output is    *)
(* emitted: the sequence counter, the replay ring and the fan-out to the   *)
(* subscribers (session/session.go), the HTTP handler that streams the     *)
(* session (handler/handler.go) and the client that reads the stream and   *)
(* reconnects with ?since=N (runtime_terminal_client.dart).                *)
(*                                                                         *)
(* Each Go statement that another goroutine can observe is a step of its   *)
(* own: the eviction loop runs with Session.mu held (pub = "appending"),   *)
(* publish copies the subscriber slice and sends to each channel later,    *)
(* and the handler subscribes before it copies the ring.                   *)
(*                                                                         *)
(* Abstractions.  An event is its sequence number, its type and a payload  *)
(* of which only the length matters.  A stream request is used once.  The  *)
(* order in which publish visits its snapshot is left open (the slice      *)
(* order is one of the orders allowed).  Heartbeats carry no event and are *)
(* left out, and so is ?replay=0, which no client of the repository sends. *)
(***************************************************************************)
EXTENDS Integers, Sequences, SequencesExt

CONSTANTS
  Streams,    \* GET /sessions/{id}/stream requests, each used once
  Clients,    \* calls of the Dart streamSession generator
  Responsive, \* the clients whose app keeps reading its connection
  NoStream,   \* a client without a connection
  Payloads,   \* the data an output event may carry
  SubCap,     \* capacity of a subscriber channel (256 in the code)
  WireCap,    \* events a connection holds before a write to it blocks
  RingMax,    \* maxRingBytes
  MaxEvents   \* bound: output events emitted

ASSUME StreamAssumption ==
  /\ NoStream \notin Streams
  /\ Responsive \subseteq Clients
  /\ \A d \in Payloads : d \in Seq(ToSet(d))
  /\ SubCap \in Nat \ {0}
  /\ WireCap \in Nat \ {0}
  /\ RingMax \in Nat
  /\ MaxEvents \in Nat

VARIABLES
  (* Session *)
  seq,        \* Session.seq
  ring,       \* Session.ring
  ringBytes,  \* Session.ringBytes
  evicted,    \* history: number of the last event the ring dropped
  subs,       \* Session.subscribers
  listed,     \* the session is still in Server.sessions
  exited,     \* waitLoop has taken a sequence number for the exit event
  pub,        \* where the goroutine inside emitOutput/publish stands
  cur,        \* the event it publishes
  todo,       \* subscribers of publish's snapshot not yet served
  (* streamSession handlers, one per stream *)
  chan,       \* chan[s]: the subscriber channel
  hpc,        \* hpc[s]: where the handler stands
  since,      \* since[s]: the ?since parameter
  replay,     \* replay[s]: what is left of the ring snapshot
  lastSeq,    \* lastSeq[s]: the handler's lastSeq
  wire,       \* wire[s]: events written and not yet read by the client
  broken,     \* broken[s]: the connection is gone
  (* clients *)
  attached,   \* attached[c]: the stream client c reads
  cstate,     \* cstate[c]: where the client's loop stands
  clast,      \* clast[c]: the client's lastSeq
  screen      \* screen[c]: payloads yielded to the terminal, in order

sessionVars == <<seq, ring, ringBytes, evicted, subs, listed, exited>>
pubVars == <<pub, cur, todo>>
handlerVars == <<hpc, since, replay, lastSeq, wire, broken>>
clientVars == <<attached, cstate, clast, screen>>
streamVars == <<sessionVars, pubVars, chan, handlerVars, clientVars>>

Event == [seq : Nat, type : {"output", "exit"}, data : Payloads \cup {<<>>}]

OutputEvent(n, d) == [seq |-> n, type |-> "output", data |-> d]
ExitEvent(n) == [seq |-> n, type |-> "exit", data |-> <<>>]

StreamInit ==
  /\ seq = 0
  /\ ring = <<>>
  /\ ringBytes = 0
  /\ evicted = 0
  /\ subs = {}
  /\ listed = TRUE
  /\ exited = FALSE
  /\ pub = "idle"
  /\ cur = ExitEvent(0)
  /\ todo = {}
  /\ chan = [s \in Streams |-> <<>>]
  /\ hpc = [s \in Streams |-> "none"]
  /\ since = [s \in Streams |-> 0]
  /\ replay = [s \in Streams |-> <<>>]
  /\ lastSeq = [s \in Streams |-> 0]
  /\ wire = [s \in Streams |-> <<>>]
  /\ broken = [s \in Streams |-> FALSE]
  /\ attached = [c \in Clients |-> NoStream]
  /\ cstate = [c \in Clients |-> "connecting"]
  /\ clast = [c \in Clients |-> 0]
  /\ screen = [c \in Clients |-> <<>>]

(* Session.mu is write-locked while appendRing runs its eviction loop.     *)
MuFree == pub # "appending"

-----------------------------------------------------------------------------
(* emitOutput and publish.                                                 *)

(* Faulty variant: the event takes the number before the increment.        *)
EmitOutputStaleSeq(d) ==
  /\ pub = "idle"
  /\ ~exited
  /\ seq' = seq + 1
  /\ cur' = OutputEvent(seq, d)
  /\ ring' = Append(ring, OutputEvent(seq, d))
  /\ ringBytes' = ringBytes + Len(d)
  /\ pub' = "appending"
  /\ UNCHANGED <<evicted, subs, listed, exited, todo,
                 chan, handlerVars, clientVars>>

(* emitOutput up to the append in appendRing, which leaves mu held.        *)
EmitOutput(d) ==
  /\ pub = "idle"
  /\ ~exited
  /\ seq' = seq + 1
  /\ cur' = OutputEvent(seq + 1, d)
  /\ ring' = Append(ring, OutputEvent(seq + 1, d))
  /\ ringBytes' = ringBytes + Len(d)
  /\ pub' = "appending"
  /\ UNCHANGED <<evicted, subs, listed, exited, todo,
                 chan, handlerVars, clientVars>>

(* One iteration of the eviction loop of appendRing.                       *)
Evict ==
  /\ pub = "appending"
  /\ ringBytes > RingMax
  /\ ring # <<>>
  /\ ringBytes' = ringBytes - Len(Head(ring).data)
  /\ evicted' = Head(ring).seq
  /\ ring' = Tail(ring)
  /\ UNCHANGED <<seq, subs, listed, exited, pubVars,
                 chan, handlerVars, clientVars>>

(* Faulty variant: at most one event is evicted per append.                *)
RingDoneEarly ==
  /\ pub = "appending"
  /\ pub' = "appended"
  /\ UNCHANGED <<sessionVars, cur, todo, chan, handlerVars, clientVars>>

(* appendRing returns and releases mu.                                     *)
RingDone ==
  /\ pub = "appending"
  /\ ringBytes <= RingMax \/ ring = <<>>
  /\ pub' = "appended"
  /\ UNCHANGED <<sessionVars, cur, todo, chan, handlerVars, clientVars>>

(* Faulty variant: the exit event reuses the last sequence number.         *)
EmitExitNoSeq ==
  /\ pub = "idle"
  /\ ~exited
  /\ exited' = TRUE
  /\ cur' = ExitEvent(seq)
  /\ pub' = "appended"
  /\ UNCHANGED <<seq, ring, ringBytes, evicted, subs, listed, todo,
                 chan, handlerVars, clientVars>>

(* waitLoop after readDone: the session is dead and its exit event takes   *)
(* a sequence number, but is not put in the ring.                          *)
EmitExit ==
  /\ pub = "idle"
  /\ ~exited
  /\ exited' = TRUE
  /\ seq' = seq + 1
  /\ cur' = ExitEvent(seq + 1)
  /\ pub' = "appended"
  /\ UNCHANGED <<ring, ringBytes, evicted, subs, listed, todo,
                 chan, handlerVars, clientVars>>

(* publish copies the subscriber slice under the read lock.                *)
SnapshotSubs ==
  /\ pub = "appended"
  /\ todo' = subs
  /\ pub' = "sending"
  /\ UNCHANGED <<sessionVars, cur, chan, handlerVars, clientVars>>

(* publish sends to a subscriber whose channel has room.                   *)
Deliver(s) ==
  /\ pub = "sending"
  /\ s \in todo
  /\ Len(chan[s]) < SubCap
  /\ chan' = [chan EXCEPT ![s] = Append(@, cur)]
  /\ todo' = todo \ {s}
  /\ UNCHANGED <<sessionVars, pub, cur, handlerVars, clientVars>>

(* Faulty variant: the timeout drops the event and keeps the subscriber.   *)
DetachKeepsSubscriber(s) ==
  /\ pub = "sending"
  /\ s \in todo
  /\ Len(chan[s]) = SubCap
  /\ todo' = todo \ {s}
  /\ UNCHANGED <<sessionVars, pub, cur, chan, handlerVars, clientVars>>

(* Faulty variant: publish waits for a slow subscriber without a timeout.  *)
DetachNever(s) == FALSE /\ s \in todo /\ UNCHANGED streamVars

(* slowSubscriberTimeout expires on a full channel: publish unsubscribes   *)
(* it and goes on without delivering the event.                            *)
Detach(s) ==
  /\ pub = "sending"
  /\ s \in todo
  /\ Len(chan[s]) = SubCap
  /\ subs' = subs \ {s}
  /\ todo' = todo \ {s}
  /\ UNCHANGED <<seq, ring, ringBytes, evicted, listed, exited,
                 pub, cur, chan, handlerVars, clientVars>>

(* publish has visited every subscriber of its snapshot.                   *)
PublishDone ==
  /\ pub = "sending"
  /\ todo = {}
  /\ pub' = "idle"
  /\ UNCHANGED <<sessionVars, cur, todo, chan, handlerVars, clientVars>>

-----------------------------------------------------------------------------
(* The session's life in the server.                                       *)

(* The session leaves the server's map: cleanupLoop found it dead after a  *)
(* kill or after its exit (RuntimeRegistry models when that happens).  The *)
(* handlers keep their pointer to it.                                      *)
Unlist ==
  /\ listed
  /\ listed' = FALSE
  /\ UNCHANGED <<seq, ring, ringBytes, evicted, subs, exited,
                 pubVars, chan, handlerVars, clientVars>>

-----------------------------------------------------------------------------
(* The handler streamSession.                                              *)

(* Subscribe, before the ring is copied.                                   *)
Subscribe(s) ==
  /\ hpc[s] = "opening"
  /\ MuFree
  /\ subs' = subs \cup {s}
  /\ hpc' = [hpc EXCEPT ![s] = "subscribed"]
  /\ UNCHANGED <<seq, ring, ringBytes, evicted, listed, exited, pubVars,
                 chan, since, replay, lastSeq, wire, broken, clientVars>>

(* Ring() copies the whole ring under the read lock.                       *)
CopyRing(s) ==
  /\ hpc[s] = "subscribed"
  /\ MuFree
  /\ replay' = [replay EXCEPT ![s] = ring]
  /\ hpc' = [hpc EXCEPT ![s] = "replay"]
  /\ UNCHANGED <<sessionVars, pubVars, chan, since, lastSeq, wire, broken,
                 clientVars>>

(* A write blocks while the connection is full; on a broken connection it  *)
(* fails at once and the handler ignores the error.                        *)
CanWrite(s) == broken[s] \/ Len(wire[s]) < WireCap

WriteEvent(s, ev) ==
  /\ CanWrite(s)
  /\ lastSeq' = [lastSeq EXCEPT ![s] = ev.seq]
  /\ wire' = IF broken[s] THEN wire ELSE [wire EXCEPT ![s] = Append(@, ev)]

(* The replay loop on an event the client already has.                     *)
ReplaySkip(s) ==
  /\ hpc[s] = "replay"
  /\ replay[s] # <<>>
  /\ Head(replay[s]).seq <= since[s]
  /\ replay' = [replay EXCEPT ![s] = Tail(@)]
  /\ UNCHANGED <<sessionVars, pubVars, chan, hpc, since, lastSeq, wire, broken,
                 clientVars>>

(* The replay loop on a newer event.                                       *)
ReplayWrite(s) ==
  /\ hpc[s] = "replay"
  /\ replay[s] # <<>>
  /\ Head(replay[s]).seq > since[s]
  /\ WriteEvent(s, Head(replay[s]))
  /\ replay' = [replay EXCEPT ![s] = Tail(@)]
  /\ UNCHANGED <<sessionVars, pubVars, chan, hpc, since, broken, clientVars>>

ReplayDone(s) ==
  /\ hpc[s] = "replay"
  /\ replay[s] = <<>>
  /\ hpc' = [hpc EXCEPT ![s] = "live"]
  /\ UNCHANGED <<sessionVars, pubVars, chan, since, replay, lastSeq, wire,
                 broken, clientVars>>

(* Faulty variant: the deduplication is off by one.                        *)
LiveSkipNext(s) ==
  /\ hpc[s] = "live"
  /\ chan[s] # <<>>
  /\ Head(chan[s]).seq <= lastSeq[s] + 1
  /\ chan' = [chan EXCEPT ![s] = Tail(@)]
  /\ UNCHANGED <<sessionVars, pubVars, handlerVars, clientVars>>

(* The live loop on an event the ring replay already delivered.            *)
LiveSkip(s) ==
  /\ hpc[s] = "live"
  /\ chan[s] # <<>>
  /\ Head(chan[s]).seq <= lastSeq[s]
  /\ chan' = [chan EXCEPT ![s] = Tail(@)]
  /\ UNCHANGED <<sessionVars, pubVars, handlerVars, clientVars>>

(* Faulty variant: no deduplication against the ring replay.               *)
LiveOutputNoDedupe(s) ==
  /\ hpc[s] = "live"
  /\ chan[s] # <<>>
  /\ Head(chan[s]).type = "output"
  /\ WriteEvent(s, Head(chan[s]))
  /\ chan' = [chan EXCEPT ![s] = Tail(@)]
  /\ UNCHANGED <<sessionVars, pubVars, hpc, since, replay, broken, clientVars>>

LiveOutput(s) ==
  /\ hpc[s] = "live"
  /\ chan[s] # <<>>
  /\ Head(chan[s]).seq > lastSeq[s]
  /\ Head(chan[s]).type = "output"
  /\ WriteEvent(s, Head(chan[s]))
  /\ chan' = [chan EXCEPT ![s] = Tail(@)]
  /\ UNCHANGED <<sessionVars, pubVars, hpc, since, replay, broken, clientVars>>

(* The exit event ends the stream; the deferred Unsubscribe runs.          *)
LiveExit(s) ==
  /\ hpc[s] = "live"
  /\ chan[s] # <<>>
  /\ Head(chan[s]).seq > lastSeq[s]
  /\ Head(chan[s]).type = "exit"
  /\ MuFree
  /\ WriteEvent(s, Head(chan[s]))
  /\ chan' = [chan EXCEPT ![s] = Tail(@)]
  /\ hpc' = [hpc EXCEPT ![s] = "done"]
  /\ subs' = subs \ {s}
  /\ UNCHANGED <<seq, ring, ringBytes, evicted, listed, exited, pubVars,
                 since, replay, broken, clientVars>>

(* The request context is done: only the live loop looks at it.            *)
Hangup(s) ==
  /\ hpc[s] = "live"
  /\ broken[s]
  /\ MuFree
  /\ hpc' = [hpc EXCEPT ![s] = "done"]
  /\ subs' = subs \ {s}
  /\ UNCHANGED <<seq, ring, ringBytes, evicted, listed, exited, pubVars,
                 chan, since, replay, lastSeq, wire, broken, clientVars>>

-----------------------------------------------------------------------------
(* The client's streamSession loop.                                        *)

(* Faulty variant: asks for everything after the event before the last.    *)
ConnectInclusive(c, s) ==
  /\ cstate[c] = "connecting"
  /\ listed
  /\ hpc[s] = "none"
  /\ hpc' = [hpc EXCEPT ![s] = "opening"]
  /\ since' = [since EXCEPT ![s] = clast[c] - 1]
  /\ attached' = [attached EXCEPT ![c] = s]
  /\ cstate' = [cstate EXCEPT ![c] = "attached"]
  /\ UNCHANGED <<sessionVars, pubVars, chan, replay, lastSeq, wire, broken,
                 clast, screen>>

(* Faulty variant: resumes where the session is, not where the client was. *)
ConnectAtTail(c, s) ==
  /\ cstate[c] = "connecting"
  /\ listed
  /\ hpc[s] = "none"
  /\ hpc' = [hpc EXCEPT ![s] = "opening"]
  /\ since' = [since EXCEPT ![s] = seq]
  /\ attached' = [attached EXCEPT ![c] = s]
  /\ cstate' = [cstate EXCEPT ![c] = "attached"]
  /\ UNCHANGED <<sessionVars, pubVars, chan, replay, lastSeq, wire, broken,
                 clast, screen>>

(* A request with ?since=<clast> finds the session and starts a handler.   *)
Connect(c, s) ==
  /\ cstate[c] = "connecting"
  /\ listed
  /\ hpc[s] = "none"
  /\ hpc' = [hpc EXCEPT ![s] = "opening"]
  /\ since' = [since EXCEPT ![s] = clast[c]]
  /\ attached' = [attached EXCEPT ![c] = s]
  /\ cstate' = [cstate EXCEPT ![c] = "attached"]
  /\ UNCHANGED <<sessionVars, pubVars, chan, replay, lastSeq, wire, broken,
                 clast, screen>>

(* 404: the session is gone and the generator returns.                     *)
NotFound(c) ==
  /\ cstate[c] = "connecting"
  /\ ~listed
  /\ cstate' = [cstate EXCEPT ![c] = "ended"]
  /\ UNCHANGED <<sessionVars, pubVars, chan, handlerVars, attached, clast,
                 screen>>

(* One line of the response: stale events are skipped, output is yielded,  *)
(* the exit event ends the generator and cancels the subscription.         *)
Receive(c) ==
  LET s  == attached[c]
      ev == Head(wire[s])
  IN /\ cstate[c] = "attached"
     /\ wire[s] # <<>>
     /\ IF ev.seq <= clast[c]
        THEN /\ wire' = [wire EXCEPT ![s] = Tail(@)]
             /\ UNCHANGED <<clast, screen, cstate, attached, broken>>
        ELSE /\ clast' = [clast EXCEPT ![c] = ev.seq]
             /\ IF ev.type = "output"
                THEN /\ screen' = [screen EXCEPT ![c] = Append(@, ev.data)]
                     /\ wire' = [wire EXCEPT ![s] = Tail(@)]
                     /\ UNCHANGED <<cstate, attached, broken>>
                ELSE /\ cstate' = [cstate EXCEPT ![c] = "ended"]
                     /\ attached' = [attached EXCEPT ![c] = NoStream]
                     /\ broken' = [broken EXCEPT ![s] = TRUE]
                     /\ wire' = [wire EXCEPT ![s] = <<>>]
                     /\ UNCHANGED screen
     /\ UNCHANGED <<sessionVars, pubVars, chan, hpc, since, replay, lastSeq>>

(* The connection breaks: what was in flight is lost.  The client comes    *)
(* back with the last sequence number it has seen, or its generator ends:  *)
(* the break is an error it does not catch, the runtime does not pass the  *)
(* health check, or the next request fails.                                *)
Drop(c) ==
  /\ cstate[c] = "attached"
  /\ broken' = [broken EXCEPT ![attached[c]] = TRUE]
  /\ wire' = [wire EXCEPT ![attached[c]] = <<>>]
  /\ attached' = [attached EXCEPT ![c] = NoStream]
  /\ \E next \in {"connecting", "ended"} : cstate' = [cstate EXCEPT ![c] = next]
  /\ UNCHANGED <<sessionVars, pubVars, chan, hpc, since, replay, lastSeq, clast,
                 screen>>

-----------------------------------------------------------------------------
Publisher ==
  \/ Evict
  \/ RingDone
  \/ SnapshotSubs
  \/ \E s \in Streams : Deliver(s) \/ Detach(s)
  \/ PublishDone

Handler(s) ==
  \/ Subscribe(s)
  \/ CopyRing(s)
  \/ ReplaySkip(s)
  \/ ReplayWrite(s)
  \/ ReplayDone(s)
  \/ LiveSkip(s)
  \/ LiveOutput(s)
  \/ LiveExit(s)
  \/ Hangup(s)

Client(c) ==
  \/ \E s \in Streams : Connect(c, s)
  \/ NotFound(c)
  \/ Receive(c)
  \/ Drop(c)

(* Everything but the two emissions, which the producer of output decides. *)
StreamStep ==
  \/ Publisher
  \/ Unlist
  \/ \E s \in Streams : Handler(s)
  \/ \E c \in Clients : Client(c)

StreamNext ==
  \/ \E d \in Payloads : seq < MaxEvents /\ EmitOutput(d)
  \/ EmitExit
  \/ StreamStep

StreamSpec == StreamInit /\ [][StreamNext]_streamVars

-----------------------------------------------------------------------------
(* Fairness.  The publisher and the handlers are goroutines the runtime    *)
(* keeps scheduling and slowSubscriberTimeout is a timer, so each of their *)
(* steps that stays possible happens.  Nothing is assumed of a client      *)
(* outside Responsive (its app may be suspended for good), of the network, *)
(* or of when the program prints or exits.                                 *)
ServerFairness ==
  /\ WF_streamVars(Evict)
  /\ WF_streamVars(RingDone)
  /\ WF_streamVars(SnapshotSubs)
  /\ WF_streamVars(PublishDone)
  /\ \A s \in Streams : /\ WF_streamVars(Deliver(s))
                        /\ WF_streamVars(Detach(s))
                        /\ WF_streamVars(Handler(s))

FairStreamSpec ==
  /\ StreamSpec
  /\ ServerFairness
  /\ \A c \in Responsive : WF_streamVars(Receive(c))

-----------------------------------------------------------------------------
(* Type invariant of the session, its handlers and its clients.            *)
StreamTypeOK ==
  /\ seq \in Nat
  /\ ring \in Seq(Event)
  /\ ringBytes \in Int
  /\ evicted \in Nat
  /\ subs \subseteq Streams
  /\ listed \in BOOLEAN
  /\ exited \in BOOLEAN
  /\ pub \in {"idle", "appending", "appended", "sending"}
  /\ cur \in Event
  /\ todo \subseteq Streams
  /\ chan \in [Streams -> Seq(Event)]
  /\ hpc \in [Streams ->
       {"none", "opening", "subscribed", "replay", "live", "done"}]
  /\ since \in [Streams -> Nat]
  /\ replay \in [Streams -> Seq(Event)]
  /\ lastSeq \in [Streams -> Nat]
  /\ wire \in [Streams -> Seq(Event)]
  /\ broken \in [Streams -> BOOLEAN]
  /\ attached \in [Clients -> Streams \cup {NoStream}]
  /\ cstate \in [Clients -> {"connecting", "attached", "ended"}]
  /\ clast \in [Clients -> Nat]
  /\ screen \in [Clients -> Seq(Payloads \cup {<<>>})]

(* Number of the newest output event.                                      *)
LastOutput == IF exited THEN seq - 1 ELSE seq

(* The events of q are numbered without holes.                             *)
Consecutive(q) == \A i \in 1 .. Len(q) : q[i].seq = q[1].seq + i - 1

LastOf(q) == q[Len(q)].seq

(* Event n may be shown right after event m: nothing between them can      *)
(* still be replayed.                                                      *)
Follows(n, m) == n <= m + 1 \/ n - 1 <= evicted

(* The ring is the newest stretch of the emitted output, without holes.    *)
RingInv ==
  /\ exited => seq > 0
  /\ pub = "appending" => ~exited
  /\ pub # "idle" => cur.seq = seq /\ seq > 0
  /\ pub # "sending" => todo = {}
  /\ Consecutive(ring)
  /\ evicted <= LastOutput
  /\ IF ring = <<>> THEN evicted = LastOutput
     ELSE Head(ring).seq = evicted + 1 /\ LastOf(ring) = LastOutput

(* publish still owes stream s the event cur.                              *)
Owed(s) ==
  \/ pub \in {"appending", "appended"}
  \/ pub = "sending" /\ s \in todo

(* Sequence number of the next event the channel of s will receive.        *)
NextFor(s) == IF Owed(s) THEN seq ELSE seq + 1

MoreFor(s) == s \in subs /\ (Owed(s) \/ ~exited)

(* Last event the client of s has once it has read its connection.         *)
Written(s) == IF lastSeq[s] > 0 THEN lastSeq[s] ELSE since[s]

(* The same once the handler has also written the rest of its replay.      *)
Covered(s) == IF replay[s] = <<>> THEN Written(s) ELSE LastOf(replay[s])

(* Event n does not leave a hole behind what the handler has covered.      *)
Reaches(s, n) ==
  \/ n <= Covered(s) + 1
  \/ lastSeq[s] = 0 /\ replay[s] = <<>> /\ n - 1 <= evicted

Untouched(s) ==
  /\ s \notin subs /\ s \notin todo
  /\ chan[s] = <<>> /\ replay[s] = <<>> /\ wire[s] = <<>>
  /\ lastSeq[s] = 0

(* What the publisher, the channel and the handler of one stream share:    *)
(* the channel is consecutive up to what publish owes it, and it starts no *)
(* later than where the ring replay ends.                                  *)
HandlerInv(s) ==
  /\ hpc[s] = "none" => ~broken[s]
  /\ hpc[s] \in {"none", "opening"} => Untouched(s)
  /\ lastSeq[s] <= seq
  /\ lastSeq[s] = 0 => wire[s] = <<>>
  /\ hpc[s] \in {"subscribed", "replay", "live"} =>
       /\ s \in todo => s \in subs
       /\ Consecutive(chan[s])
       /\ \A i \in 1 .. Len(chan[s]) : chan[s][i].seq <= seq
       /\ MoreFor(s) /\ chan[s] # <<>> => LastOf(chan[s]) + 1 = NextFor(s)
  /\ hpc[s] = "subscribed" => replay[s] = <<>> /\ lastSeq[s] = 0
  /\ hpc[s] = "live" => replay[s] = <<>>
  /\ hpc[s] = "replay" =>
       /\ Consecutive(replay[s])
       /\ lastSeq[s] > 0 => lastSeq[s] > since[s]
       /\ replay[s] # <<>> =>
            /\ LastOf(replay[s]) <= seq
            /\ lastSeq[s] > 0 => Head(replay[s]).seq = lastSeq[s] + 1
            /\ Follows(Head(replay[s]).seq, Written(s))
  /\ hpc[s] \in {"replay", "live"} =>
       /\ chan[s] # <<>> => Reaches(s, Head(chan[s]).seq)
       /\ MoreFor(s) /\ chan[s] = <<>> => Reaches(s, NextFor(s))

(* What a handler has on the wire continues what its client has seen.      *)
ClientInv(c) ==
  LET s == attached[c] IN
  /\ cstate[c] = "attached" <=> s # NoStream
  /\ s # NoStream =>
       /\ hpc[s] # "none"
       /\ ~broken[s]
       /\ since[s] <= clast[c]
       /\ Consecutive(wire[s])
       /\ wire[s] = <<>> => Written(s) <= clast[c]
       /\ wire[s] # <<>> => /\ LastOf(wire[s]) = lastSeq[s]
                            /\ Follows(Head(wire[s]).seq, clast[c])
       /\ \A d \in Clients : attached[d] = s => d = c

(* The inductive invariant behind the theorems on EventStream: every       *)
(* event travels from the ring or the channel to the screen in order.      *)
DeliveryInv ==
  /\ RingInv
  /\ \A s \in Streams : HandlerInv(s)
  /\ \A c \in Clients : ClientInv(c)

(* On one connection the handler never writes an event twice and never     *)
(* leaves one out once it has started, whatever the ring evicts meanwhile. *)
WireConsecutive ==
  [][\A s \in Streams :
       lastSeq[s] > 0 /\ Len(wire'[s]) > Len(wire[s])
         => LastOf(wire'[s]) = lastSeq[s] + 1]_streamVars

(* maxRingBytes is four times maxBatchBytes.                               *)
EventsFit == \A d \in Payloads : Len(d) <= RingMax

(* ringBytes is the size of the ring, the ring is within its limit as soon *)
(* as the lock is free, and the eviction loop of appendRing never throws   *)
(* away the event it was called for.                                       *)
RingAccounting ==
  /\ ringBytes = Len(FlattenSeq([i \in DOMAIN ring |-> ring[i].data]))
  /\ MuFree => ringBytes <= RingMax
  /\ EventsFit /\ MuFree /\ LastOutput > 0 => ring # <<>>

(* A client that has drained a live, still subscribed stream of an idle    *)
(* publisher has seen the newest output: nothing is stuck between the      *)
(* subscription and the ring copy.                                         *)
DrainedIsComplete ==
  \A c \in Clients :
    LET s == attached[c] IN
    /\ cstate[c] = "attached"
    /\ hpc[s] = "live" /\ s \in subs
    /\ wire[s] = <<>> /\ chan[s] = <<>>
    /\ pub = "idle"
    => clast[c] >= LastOutput

Log == INSTANCE ReplayLog WITH
  Readers <- Clients, last <- seq, closed <- exited, trimmed <- evicted,
  position <- clast

(* The stream is a log every client reads in order, without duplicates and *)
(* with holes only where the ring evicted: the promise of the since        *)
(* parameter and of the client's own deduplication, over any reconnects.   *)
ImplementsLog == Log!LogSpec
=============================================================================

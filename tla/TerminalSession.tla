-------------------------- MODULE TerminalSession --------------------------
(***************************************************************************)
(* A whole terminal session: the pump (OutputPump) that turns what the     *)
(* program prints into events and the stream (EventStream) that carries    *)
(* the events to the clients, joined as session.go joins them.  The        *)
(* publisher goroutine of the pump runs publish itself: it emits, waits    *)
(* until every subscriber has taken the event or has been detached, and    *)
(* only then goes back to the chunks channel, so a client that stops       *)
(* reading slows the program down.                                         *)
(***************************************************************************)
EXTENDS OutputPump, EventStream

(* An event carries what the pump emits.                                   *)
ASSUME SessionAssumption ==
  \A n \in 0 .. BatchMax + ReadMax + CarryMax :
    [1 .. n -> 1 .. MaxOut] \subseteq Payloads

vars == <<pumpVars, streamVars>>

Init == PumpInit /\ StreamInit

(* Goroutines of the pump that touch nothing the stream can see.           *)
PumpOnly ==
  /\ Program \/ Reader \/ Collect \/ ClosePty
  /\ UNCHANGED streamVars

(* The publisher calls emitOutput with the data it has just appended.      *)
StartPublish ==
  /\ PublishOutput
  /\ EmitOutput(Last(out'))

(* Faulty variant: publish runs in the background.                         *)
EndPublishEarly ==
  /\ PublishReturns
  /\ UNCHANGED streamVars

(* emitOutput returns when publish has visited every subscriber.           *)
EndPublish ==
  /\ pub = "idle"
  /\ PublishReturns
  /\ UNCHANGED streamVars

(* The tail of waitLoop.                                                   *)
PublishExit ==
  /\ ReportExit
  /\ EmitExit

StreamOnly ==
  /\ StreamStep
  /\ UNCHANGED pumpVars

Next ==
  \/ PumpOnly
  \/ StartPublish
  \/ EndPublish
  \/ PublishExit
  \/ StreamOnly

Spec == Init /\ [][Next]_vars

(* The fairness of the two parts; of the clients nothing is assumed.       *)
Fairness ==
  /\ WF_vars(Reader /\ UNCHANGED streamVars)
  /\ WF_vars((Collect /\ UNCHANGED streamVars) \/ StartPublish)
  /\ WF_vars(EndPublish)
  /\ WF_vars(ClosePty /\ UNCHANGED streamVars)
  /\ WF_vars(PublishExit)
  /\ WF_vars((Evict \/ RingDone \/ SnapshotSubs \/ PublishDone)
               /\ UNCHANGED pumpVars)
  /\ \A s \in Streams :
       /\ WF_vars((Deliver(s) \/ Detach(s)) /\ UNCHANGED pumpVars)
       /\ WF_vars(Handler(s) /\ UNCHANGED pumpVars)

FairSpec == Spec /\ Fairness

-----------------------------------------------------------------------------
(* The publisher and publish agree on who is working.                      *)
HandOver ==
  /\ pub # "idle" => publisher = "publishing" \/ waiter = "exited"
  /\ exited <=> waiter = "exited"

(* Every event, wherever it is, carries the data emitted under its number. *)
EventsMatchOutput ==
  LET Faithful(q) == \A i \in 1 .. Len(q) :
        q[i].type = "output"
          => q[i].seq \in DOMAIN out /\ q[i].data = out[q[i].seq]
  IN /\ Faithful(ring)
     /\ \A s \in Streams : /\ Faithful(chan[s])
                           /\ Faithful(replay[s])
                           /\ Faithful(wire[s])

(* What a terminal shows is what the program printed: in order, no byte    *)
(* twice across any number of reconnects, and up to the last byte shown    *)
(* nothing is missing but what the ring evicted or sanitising dropped.     *)
ScreenIsOutput ==
  \A c \in Clients :
    LET shown == FlattenSeq(screen[c])
        gone  == ToSet(FlattenSeq(SubSeq(out, 1, evicted))) \cup dropped
    IN /\ \A i \in 1 .. Len(shown) - 1 : shown[i] < shown[i + 1]
       /\ shown # <<>> => 1 .. Last(shown) \subseteq ToSet(shown) \cup gone

(* A program that exits is reported to the subscribers, even when every    *)
(* client has stopped reading and the whole chain is full.                 *)
ExitPublished == ~running ~> (exited /\ pub = "idle")
=============================================================================

------------------------------- MODULE Relay -------------------------------
(***************************************************************************)
(* The relay of yoloit-hub (remote/yoloit-hub/relay.go) and the desktop's  *)
(* client for it (lib/core/remote/board_relay_client.dart), for one        *)
(* device.  The desktop dials out; the hub forwards each HTTP request over *)
(* the desktop's connection and matches the answers by request id.         *)
(*                                                                         *)
(* On the hub one goroutine per connection (handleRelayConnect) and one    *)
(* per request (the proxy part of handleDevicesSubtree); each lock region, *)
(* channel operation and socket write is one step.  On the desktop one     *)
(* event loop: each callback is one step.                                  *)
(*                                                                         *)
(* A connection is a slot that is used again when neither end knows it any *)
(* more.  A frame is the request it belongs to; frames that are not JSON   *)
(* or have no id are ignored by both ends and left out.  Pings are the     *)
(* fairness of ReadFails.  Revoking a device and the device file are left  *)
(* out.                                                                    *)
(***************************************************************************)
EXTENDS Integers

CONSTANTS
  NumConns,   \* bound: connections known to either end at a time
  Requests,   \* requests to the proxy, each made once
  NoConn,     \* nil
  MaxStarts,  \* bound: presses of Start
  MaxDrops    \* bound: failures of the network

Conns == 1 .. NumConns

ASSUME RelayAssumption ==
  /\ NumConns \in Nat \ {0} /\ NoConn \notin Conns
  /\ MaxStarts \in Nat /\ MaxDrops \in Nat

VARIABLES
  stopped,    \* _stopped
  starting,   \* what follows the cancel that stop() awaits: no, stop or start
  channel,    \* _channel
  sub,        \* _sub, by the connection it listens to
  timer,      \* _reconnectTimer is active
  status,     \* status.value
  starts,     \* presses of Start so far
  executing   \* requests in handleRelayRequest

VARIABLES
  link,       \* per connection: none, dialing, up, down
  opening,    \* connections whose ready future is not complete
  heard,      \* connections whose stream the desktop listens to
  toDevice,   \* per connection: requests on their way to the desktop
  toHub,      \* per connection: answers on their way to the hub
  drops       \* failures of the network so far

VARIABLES
  hub,        \* per connection: where its goroutine stands
  old,        \* per connection: prev in setOnline
  handing,    \* per connection: the request whose channel readLoop holds
  done,       \* connections whose done is closed
  pending,    \* per connection: its pending map
  online,     \* the registry's entry of the device
  newest,     \* history: the connection that came online last
  request,    \* per request: where its goroutine stands and on which conn
  reply       \* per request: its response channel: empty, full, closed or
              \* lastFull (closed, with an answer still to be received)

deviceVars == <<stopped, starting, channel, sub, timer, status, starts>>
netVars == <<link, opening, heard, toDevice, toHub, drops>>
hubVars == <<hub, old, handing, done, pending, online, newest>>
requestVars == <<request, reply>>
relayVars == <<deviceVars, executing, netVars, hubVars, requestVars>>

RelayInit ==
  /\ stopped = TRUE /\ starting = "no" /\ channel = NoConn /\ sub = NoConn
  /\ timer = FALSE /\ status = "disconnected" /\ starts = 0
  /\ executing = {}
  /\ link = [c \in Conns |-> "none"]
  /\ opening = {} /\ heard = {} /\ drops = 0
  /\ toDevice = [c \in Conns |-> {}]
  /\ toHub = [c \in Conns |-> {}]
  /\ hub = [c \in Conns |-> "none"]
  /\ old = [c \in Conns |-> NoConn]
  /\ handing = [c \in Conns |-> {}]
  /\ done = {}
  /\ pending = [c \in Conns |-> {}]
  /\ online = NoConn /\ newest = NoConn
  /\ request = [r \in Requests |-> [at |-> "new", conn |-> NoConn]]
  /\ reply = [r \in Requests |-> "empty"]

-----------------------------------------------------------------------------
(* The desktop's client.                                                   *)

(* Where a request's goroutine is between connFor and its answer.          *)
InRequest == {"found", "sending", "waiting"}

Reusable(c) ==
  /\ link[c] \in {"none", "down"} /\ c \notin heard \cup opening
  /\ hub[c] \in {"none", "gone"}
  /\ c # channel /\ \A d \in Conns : old[d] # c
  /\ \A r \in Requests : request[r].conn = c => request[r].at \notin InRequest

(* The slot a new connection takes: the first that can be used again.      *)
Slot(c) == Reusable(c) /\ \A d \in Conns : Reusable(d) => c <= d

(* Faulty variant: the reconnect timer is periodic.                        *)
ConnectPeriodic ==
  \E c \in Conns :
    /\ Slot(c)
    /\ channel' = c /\ sub' = c /\ UNCHANGED timer /\ status' = "connecting"
    /\ link' = [link EXCEPT ![c] = "dialing"]
    /\ opening' = opening \cup {c} /\ heard' = heard \cup {c}
    /\ toDevice' = [toDevice EXCEPT ![c] = {}]
    /\ toHub' = [toHub EXCEPT ![c] = {}]
    /\ hub' = [hub EXCEPT ![c] = "none"]
    /\ done' = done \ {c}
    /\ UNCHANGED <<drops, old, handing, pending, online, newest>>

(* _connect: a new channel, listened to.  The one before it is not closed. *)
Connect ==
  \E c \in Conns :
    /\ Slot(c)
    /\ channel' = c /\ sub' = c /\ timer' = FALSE /\ status' = "connecting"
    /\ link' = [link EXCEPT ![c] = "dialing"]
    /\ opening' = opening \cup {c} /\ heard' = heard \cup {c}
    /\ toDevice' = [toDevice EXCEPT ![c] = {}]
    /\ toHub' = [toHub EXCEPT ![c] = {}]
    /\ hub' = [hub EXCEPT ![c] = "none"]
    /\ done' = done \ {c}
    /\ UNCHANGED <<drops, old, handing, pending, online, newest>>

(* start() and stop() begin alike: stop() cancels the subscription and     *)
(* waits for that.  The settings page does not press twice meanwhile.      *)
Press(next) ==
  /\ starting = "no"
  /\ next = "start" => starts < MaxStarts
  /\ stopped' = TRUE /\ starting' = next /\ timer' = FALSE
  /\ heard' = heard \ {sub}
  /\ starts' = IF next = "start" THEN starts + 1 ELSE starts
  /\ UNCHANGED <<channel, sub, status, executing, link, opening, toDevice,
                 toHub, drops, hubVars, requestVars>>

(* sink.close(): an open connection goes down; one still dialing is closed *)
(* when it opens.                                                          *)
Closed == [c \in Conns |-> IF c = channel /\ c \notin opening
                           THEN "down" ELSE link[c]]

(* The rest of stop().                                                     *)
StopReturns ==
  /\ starting = "stop"
  /\ starting' = "no" /\ sub' = NoConn /\ channel' = NoConn
  /\ status' = "disconnected"
  /\ link' = Closed
  /\ UNCHANGED <<stopped, timer, starts, executing, opening, heard, toDevice,
                 toHub, drops, hubVars, requestVars>>

(* The rest of the stop() in start(), and the rest of start() with its     *)
(* _connect, in two steps because a connection slot must be free.          *)
StartReturns ==
  /\ starting = "start"
  /\ starting' = "connect" /\ sub' = NoConn /\ channel' = NoConn
  /\ status' = "disconnected"
  /\ link' = Closed
  /\ UNCHANGED <<stopped, timer, starts, executing, opening, heard, toDevice,
                 toHub, drops, hubVars, requestVars>>

StartConnects ==
  /\ starting = "connect"
  /\ starting' = "no" /\ stopped' = FALSE
  /\ Connect
  /\ UNCHANGED <<starts, executing, requestVars>>

TimerFires ==
  /\ timer
  /\ Connect
  /\ UNCHANGED <<stopped, starting, starts, executing, requestVars>>

(* Faulty variant: the stop button is not looked at.                       *)
LostStopped ==
  /\ channel' = NoConn /\ status' = "connecting" /\ timer' = TRUE


(* _onConnectionLost and _scheduleReconnect, whoever's connection is lost. *)
Lost ==
  IF stopped THEN UNCHANGED <<channel, status, timer>>
  ELSE channel' = NoConn /\ status' = "connecting" /\ timer' = TRUE

(* ready completes; a channel closed meanwhile closes now.                 *)
Ready(c) ==
  /\ c \in opening /\ link[c] = "up"
  /\ opening' = opening \ {c}
  /\ status' = IF stopped THEN status ELSE "connected"
  /\ link' = IF c \in heard THEN link ELSE [link EXCEPT ![c] = "down"]
  /\ UNCHANGED <<stopped, starting, channel, sub, timer, starts, executing,
                 heard, toDevice, toHub, drops, hubVars, requestVars>>

(* ready fails, and with it the stream if somebody still listens.          *)
ReadyFails(c) ==
  /\ c \in opening /\ link[c] = "down"
  /\ opening' = opening \ {c} /\ heard' = heard \ {c}
  /\ Lost
  /\ UNCHANGED <<stopped, starting, sub, starts, executing, link, toDevice,
                 toHub, drops, hubVars, requestVars>>

(* The stream of an open connection ends, with or without an error.        *)
StreamEnds(c) ==
  /\ c \in heard \ opening /\ link[c] = "down"
  /\ heard' = heard \ {c}
  /\ Lost
  /\ UNCHANGED <<stopped, starting, sub, starts, executing, link, opening,
                 toDevice, toHub, drops, hubVars, requestVars>>

(* _onFrame up to the await of handleRelayRequest.                         *)
OnFrame(c, r) ==
  /\ c \in heard \ opening /\ link[c] = "up" /\ r \in toDevice[c]
  /\ toDevice' = [toDevice EXCEPT ![c] = @ \ {r}]
  /\ executing' = executing \cup {r}
  /\ UNCHANGED <<deviceVars, link, opening, heard, toHub, drops, hubVars,
                 requestVars>>

(* _send, on the channel of the moment.                                    *)
Send(r) ==
  /\ r \in executing
  /\ executing' = executing \ {r}
  /\ toHub' = IF channel = NoConn THEN toHub
              ELSE [toHub EXCEPT ![channel] = @ \cup {r}]
  /\ UNCHANGED <<deviceVars, link, opening, heard, toDevice, drops, hubVars,
                 requestVars>>

-----------------------------------------------------------------------------
(* The network.                                                            *)

(* The hub accepts the WebSocket.                                          *)
Accept(c) ==
  /\ link[c] = "dialing"
  /\ link' = [link EXCEPT ![c] = "up"]
  /\ hub' = [hub EXCEPT ![c] = "accepted"]
  /\ UNCHANGED <<deviceVars, executing, opening, heard, toDevice, toHub, drops,
                 old, handing, done, pending, online, newest, requestVars>>

Drop(c) ==
  /\ link[c] \in {"dialing", "up"} /\ drops < MaxDrops
  /\ drops' = drops + 1
  /\ link' = [link EXCEPT ![c] = "down"]
  /\ UNCHANGED <<deviceVars, executing, opening, heard, toDevice, toHub,
                 hubVars, requestVars>>

-----------------------------------------------------------------------------
(* The hub's goroutine of a connection.                                    *)

ConnUnchanged == UNCHANGED <<deviceVars, executing, opening, heard, drops>>

(* close(ch): an answer that the channel holds can still be received.      *)
Shut(r) == IF reply[r] = "full" THEN "lastFull" ELSE "closed"

(* Faulty variant: done stays open.                                        *)
FailWaiters(c) ==
  /\ reply' = [r \in Requests |->
                 IF r \in pending[c] THEN Shut(r) ELSE reply[r]]
  /\ pending' = [pending EXCEPT ![c] = {}]
  /\ UNCHANGED <<request, done>>

(* failPending: done is closed, and every channel in pending.              *)
FailPending(c) ==
  /\ done' = done \cup {c}
  /\ reply' = [r \in Requests |->
                 IF r \in pending[c] THEN Shut(r) ELSE reply[r]]
  /\ pending' = [pending EXCEPT ![c] = {}]
  /\ UNCHANGED request

(* setOnline: the registry entry is swapped under the lock, the connection *)
(* it had is failed and then closed outside.                               *)
SetOnline(c) ==
  /\ hub[c] = "accepted"
  /\ online' = c /\ newest' = c
  /\ old' = [old EXCEPT ![c] = online]
  /\ hub' = [hub EXCEPT ![c] = IF online = NoConn THEN "reading" ELSE "failing"]
  /\ ConnUnchanged
  /\ UNCHANGED <<link, toDevice, toHub, handing, done, pending, requestVars>>

FailOld(c) ==
  /\ hub[c] = "failing"
  /\ FailPending(old[c])
  /\ hub' = [hub EXCEPT ![c] = "closing"]
  /\ ConnUnchanged
  /\ UNCHANGED <<link, toDevice, toHub, old, handing, online, newest>>

CloseOld(c) ==
  /\ hub[c] = "closing"
  /\ link' = [link EXCEPT ![old[c]] = "down"]
  /\ old' = [old EXCEPT ![c] = NoConn]
  /\ hub' = [hub EXCEPT ![c] = "reading"]
  /\ ConnUnchanged
  /\ UNCHANGED <<toDevice, toHub, handing, done, pending, online, newest,
                 requestVars>>

(* readLoop reads an answer and looks its request up.                      *)
ReadFrame(c, r) ==
  /\ hub[c] = "reading" /\ link[c] = "up" /\ r \in toHub[c]
  /\ toHub' = [toHub EXCEPT ![c] = @ \ {r}]
  /\ handing' = [handing EXCEPT ![c] = {r} \cap pending[c]]
  /\ hub' = [hub EXCEPT ![c] = IF r \in pending[c] THEN "handing" ELSE @]
  /\ ConnUnchanged
  /\ UNCHANGED <<link, toDevice, old, done, pending, online, newest,
                 requestVars>>

(* It sends the answer into the channel; the send panics if failPending    *)
(* has closed the channel, and the handler's deferred onClose runs.        *)
HandOver(c) ==
  \E r \in handing[c] :
    /\ hub[c] = "handing"
    /\ handing' = [handing EXCEPT ![c] = {}]
    /\ reply' = [reply EXCEPT ![r] = IF @ = "empty" THEN "full" ELSE @]
    /\ hub' = [hub EXCEPT ![c] = IF reply[r] \in {"closed", "lastFull"}
                                 THEN "leaving" ELSE "reading"]
    /\ ConnUnchanged
    /\ UNCHANGED <<link, toDevice, toHub, old, done, pending, online, newest,
                   request>>

(* A read fails, at the latest when a ping has failed.                     *)
ReadFails(c) ==
  /\ hub[c] = "reading" /\ link[c] = "down"
  /\ hub' = [hub EXCEPT ![c] = "leaving"]
  /\ ConnUnchanged
  /\ UNCHANGED <<link, toDevice, toHub, old, handing, done, pending, online,
                 newest, requestVars>>

(* Faulty variant: setOffline removes the entry whoever's it is.           *)
SetOfflineAny(c) ==
  /\ hub[c] = "leaving"
  /\ online' = NoConn
  /\ hub' = [hub EXCEPT ![c] = "failingOwn"]
  /\ ConnUnchanged
  /\ UNCHANGED <<link, toDevice, toHub, old, handing, done, pending, newest,
                 requestVars>>

(* setOffline: the entry goes if it is still this connection's.            *)
SetOffline(c) ==
  /\ hub[c] = "leaving"
  /\ online' = IF online = c THEN NoConn ELSE online
  /\ hub' = [hub EXCEPT ![c] = "failingOwn"]
  /\ ConnUnchanged
  /\ UNCHANGED <<link, toDevice, toHub, old, handing, done, pending, newest,
                 requestVars>>

FailOwn(c) ==
  /\ hub[c] = "failingOwn"
  /\ FailPending(c)
  /\ hub' = [hub EXCEPT ![c] = "gone"]
  /\ ConnUnchanged
  /\ UNCHANGED <<link, toDevice, toHub, old, handing, online, newest>>

-----------------------------------------------------------------------------
(* The hub's goroutine of a request.                                       *)

RequestUnchanged ==
  UNCHANGED <<deviceVars, executing, link, opening, heard, toHub, drops, hub,
              old, handing, done, online, newest>>

(* connFor, then the body is read.                                         *)
Ask(r) ==
  /\ request[r].at = "new"
  /\ request' = [request EXCEPT ![r] =
                   IF online = NoConn THEN [at |-> "offline", conn |-> NoConn]
                   ELSE [at |-> "found", conn |-> online]]
  /\ RequestUnchanged
  /\ UNCHANGED <<toDevice, pending, reply>>

(* Faulty variant: the pending entry stays.                                *)
EndLeavesEntry(r, how) ==
  /\ request' = [request EXCEPT ![r] = [at |-> how, conn |-> NoConn]]
  /\ UNCHANGED <<pending, reply>>

(* The answer to the client; the deferred delete follows at once.          *)
End(r, how) ==
  /\ request' = [request EXCEPT ![r] = [at |-> how, conn |-> NoConn]]
  /\ pending' = [pending EXCEPT ![request[r].conn] = @ \ {r}]
  /\ UNCHANGED reply

(* Faulty variant: done is not looked at before registering.               *)
RegisterAnyway(r) ==
  /\ request[r].at = "found"
  /\ request' = [request EXCEPT ![r].at = "sending"]
  /\ pending' = [pending EXCEPT ![request[r].conn] = @ \cup {r}]
  /\ RequestUnchanged
  /\ UNCHANGED <<toDevice, reply>>

(* request(): under pendMu, done is looked at and the channel registered.  *)
Register(r) ==
  /\ request[r].at = "found"
  /\ IF request[r].conn \in done THEN End(r, "closed")
     ELSE /\ request' = [request EXCEPT ![r].at = "sending"]
          /\ pending' = [pending EXCEPT ![request[r].conn] = @ \cup {r}]
          /\ UNCHANGED reply
  /\ RequestUnchanged
  /\ UNCHANGED toDevice

(* A write to a connection that is down may fail or go nowhere.            *)
SendRequest(r) ==
  /\ request[r].at = "sending"
  /\ request' = [request EXCEPT ![r].at = "waiting"]
  /\ toDevice' = [toDevice EXCEPT ![request[r].conn] = @ \cup {r}]
  /\ RequestUnchanged
  /\ UNCHANGED <<pending, reply>>

SendFails(r) ==
  /\ request[r].at = "sending" /\ link[request[r].conn] = "down"
  /\ End(r, "failed")
  /\ RequestUnchanged
  /\ UNCHANGED toDevice

(* The select: each ready case may be taken.  Receiving from a closed      *)
(* channel that holds no answer yields the zero frame, which becomes a 200 *)
(* with an empty body.                                                     *)
Answered(r) ==
  /\ request[r].at = "waiting" /\ reply[r] \in {"full", "lastFull"}
  /\ End(r, "answered")
  /\ RequestUnchanged
  /\ UNCHANGED toDevice

ZeroFrame(r) ==
  /\ request[r].at = "waiting" /\ reply[r] = "closed"
  /\ End(r, "zero")
  /\ RequestUnchanged
  /\ UNCHANGED toDevice

ConnClosed(r) ==
  /\ request[r].at = "waiting" /\ request[r].conn \in done
  /\ End(r, "closed")
  /\ RequestUnchanged
  /\ UNCHANGED toDevice

Timeout(r) ==
  /\ request[r].at = "waiting"
  /\ End(r, "timeout")
  /\ RequestUnchanged
  /\ UNCHANGED toDevice

-----------------------------------------------------------------------------
DeviceStep ==
  \/ Press("start") \/ Press("stop")
  \/ StopReturns \/ StartReturns \/ StartConnects \/ TimerFires
  \/ \E c \in Conns : Ready(c) \/ ReadyFails(c) \/ StreamEnds(c)
  \/ \E c \in Conns, r \in Requests : OnFrame(c, r)
  \/ \E r \in Requests : Send(r)

NetworkStep == \E c \in Conns : Accept(c) \/ Drop(c)

ConnStep(c) ==
  \/ SetOnline(c) \/ FailOld(c) \/ CloseOld(c)
  \/ \E r \in Requests : ReadFrame(c, r)
  \/ HandOver(c) \/ ReadFails(c) \/ SetOffline(c) \/ FailOwn(c)

RequestStep(r) ==
  \/ Ask(r) \/ Register(r) \/ SendRequest(r) \/ SendFails(r)
  \/ Answered(r) \/ ZeroFrame(r) \/ ConnClosed(r) \/ Timeout(r)

RelayNext ==
  \/ DeviceStep
  \/ NetworkStep
  \/ \E c \in Conns : ConnStep(c)
  \/ \E r \in Requests : RequestStep(r)

(* The desktop's event loop runs every callback that is due, and the       *)
(* reconnect timer fires.                                                  *)
DeviceFairness ==
  /\ WF_relayVars(StopReturns) /\ WF_relayVars(StartReturns)
  /\ WF_relayVars(StartConnects) /\ WF_relayVars(TimerFires)
  /\ \A c \in Conns :
       /\ WF_relayVars(Ready(c)) /\ WF_relayVars(ReadyFails(c))
       /\ WF_relayVars(StreamEnds(c))
       /\ \A r \in Requests : WF_relayVars(OnFrame(c, r))
  /\ \A r \in Requests : WF_relayVars(Send(r))

(* The hub's goroutines run, and it accepts every dial that does not fail. *)
(* Nothing is assumed of the 55 s timer of a request, nor that a request   *)
(* is ever made.                                                           *)
HubFairness ==
  /\ \A c \in Conns : WF_relayVars(Accept(c)) /\ WF_relayVars(ConnStep(c))
  /\ \A r \in Requests :
       /\ WF_relayVars(Register(r))
       /\ WF_relayVars(SendRequest(r))
       /\ WF_relayVars(Answered(r) \/ ZeroFrame(r) \/ ConnClosed(r))

RelaySpec ==
  RelayInit /\ [][RelayNext]_relayVars /\ DeviceFairness /\ HubFairness

-----------------------------------------------------------------------------
(* Properties.                                                             *)

(* The types of the hub's and the desktop's state, and that a pending      *)
(* entry belongs to a request still on that connection (the deferred       *)
(* delete of relayConn.request).                                           *)
RelayTypeOK ==
  /\ stopped \in BOOLEAN /\ timer \in BOOLEAN
  /\ channel \in Conns \cup {NoConn} /\ sub \in Conns \cup {NoConn}
  /\ online \in Conns \cup {NoConn}
  /\ \A c \in Conns :
       /\ link[c] \in {"none", "dialing", "up", "down"}
       /\ handing[c] \subseteq Requests
       /\ pending[c] \subseteq {r \in Requests : request[r].conn = c}

(* Whoever waits for an answer on a connection that is not done is in its  *)
(* pending map, and the connection's goroutine has failPending still       *)
(* before it; on a connection that is done nobody is registered any more   *)
(* (request and failPending, each under pendMu).                           *)
NobodyWaitsInVain ==
  /\ \A r \in Requests :
       LET c == request[r].conn
       IN  request[r].at \in {"sending", "waiting"} /\ c \notin done
             => r \in pending[c] /\ hub[c] \notin {"none", "gone"}
  /\ \A c \in done : pending[c] = {}

(* The registry lists the connection that came last for as long as its     *)
(* goroutine reads, whenever the goroutine of the one it replaced gets to  *)
(* its setOffline; and it lists no other (setOnline, setOffline).          *)
NewestIsOnline ==
  /\ online # NoConn => online = newest
  /\ newest # NoConn /\ hub[newest] \in {"failing", "closing", "reading", "handing"}
       => online = newest

(* Once stop() has returned nothing the desktop started is left: no        *)
(* channel, no subscription, no timer that would connect again, whatever   *)
(* callbacks still arrive (the _stopped tests of _onConnectionLost).       *)
StoppedIsQuiet ==
  stopped /\ starting = "no" =>
    /\ channel = NoConn /\ sub = NoConn /\ ~timer
    /\ status = "disconnected"

(* The desktop listens to no open connection but _channel, on which it     *)
(* answers.  It holds until Start is pressed a second time.                *)
OnlyChannelIsHeard ==
  \A c \in heard : link[c] # "down" => c = channel

(* A forwarded request ends without help of its timeout: it is answered,   *)
(* or its connection ends and it is told (relayConn.request).              *)
RequestsEnd ==
  \A r \in Requests :
    request[r].at \in InRequest ~> request[r].at \notin InRequest


=============================================================================

---------------------------- MODULE Relay_proofs ----------------------------
(***************************************************************************)
(* Proofs about the relay, for any number of connections and requests, and *)
(* any number of presses of Start and failures of the network.             *)
(***************************************************************************)
EXTENDS Relay, TLAPS

(* Types *)

ConnOrNone == Conns \cup {NoConn}
LinkStates == {"none", "dialing", "up", "down"}
HubStates == {"none", "accepted", "failing", "closing", "reading", "handing",
              "leaving", "failingOwn", "gone"}
RequestStates == {"new", "offline", "found", "sending", "waiting", "closed",
                  "failed", "answered", "zero", "timeout"}

DeviceTypes ==
  /\ stopped \in BOOLEAN /\ timer \in BOOLEAN
  /\ starting \in {"no", "stop", "start", "connect"}
  /\ channel \in ConnOrNone /\ sub \in ConnOrNone
  /\ starts \in Nat /\ drops \in Nat
  /\ link \in [Conns -> LinkStates]
  /\ opening \subseteq Conns /\ heard \subseteq Conns

HubTypes ==
  /\ hub \in [Conns -> HubStates]
  /\ old \in [Conns -> ConnOrNone]
  /\ handing \in [Conns -> SUBSET Requests]
  /\ done \subseteq Conns
  /\ pending \in [Conns -> SUBSET Requests]
  /\ online \in ConnOrNone /\ newest \in ConnOrNone
  /\ request \in [Requests -> [at : RequestStates, conn : ConnOrNone]]

Types == DeviceTypes /\ HubTypes

(* A goroutine is started by an accepted connection, and while it replaces *)
(* another connection it remembers that one.                               *)
Started ==
  \A c \in Conns :
    /\ link[c] = "dialing" => hub[c] = "none"
    /\ hub[c] \in {"failing", "closing"} => old[c] \in Conns

(* The connection in the registry is one whose goroutine is running and    *)
(* has its setOffline still before it.                                     *)
OnlineRuns ==
  online # NoConn =>
    hub[online] \in {"failing", "closing", "reading", "handing", "leaving"}

(* A request is on a connection exactly until it ends, and that connection *)
(* has its failPending still before it or behind it.                       *)
OnConnection ==
  \A r \in Requests :
    LET c == request[r].conn
    IN  /\ request[r].at \in InRequest <=> c \in Conns
        /\ c \in Conns \ done => hub[c] \notin {"none", "gone"}

(* A pending entry belongs to a request on that connection.                *)
EntriesOwned ==
  \A c \in Conns : pending[c] \subseteq {r \in Requests : request[r].conn = c}

Bookkeeping == Types /\ Started /\ OnlineRuns /\ OnConnection /\ EntriesOwned

(* What stop() has left of the desktop's client at each of its steps.      *)
Stopping ==
  /\ timer => ~stopped
  /\ starting # "no" => stopped
  /\ stopped /\ starting \in {"no", "connect"} =>
       channel = NoConn /\ sub = NoConn /\ status = "disconnected"

(* Until Start is pressed a second time the desktop has one connection or  *)
(* none: none before the first press, one and no timer, or a timer and no  *)
(* connection.                                                             *)
OneConnection ==
  starts <= 1 =>
    /\ starts = 0 => stopped /\ starting \in {"no", "stop"}
    /\ starts = 0 \/ starting \in {"start", "connect"} => opening = {}
    /\ stopped => heard = {}
    /\ ~stopped =>
         \/ heard = {} /\ opening = {} /\ timer
         \/ heard = {channel} /\ sub = channel /\ opening \subseteq {channel} /\ ~timer


-----------------------------------------------------------------------------
(* Bookkeeping.                                                            *)

(* Every step of the desktop and of the network keeps the bookkeeping.     *)
LEMMA ConnectKeepsBookkeeping ==
  ASSUME Bookkeeping, Connect, UNCHANGED <<starts, requestVars>>,
         stopped' \in BOOLEAN, starting' \in {"no", "stop", "start", "connect"}
  PROVE  Bookkeeping'
<1>1. PICK c \in Conns :
        /\ Reusable(c)
        /\ channel' = c /\ sub' = c /\ timer' = FALSE
        /\ link' = [link EXCEPT ![c] = "dialing"]
        /\ opening' = opening \cup {c} /\ heard' = heard \cup {c}
        /\ hub' = [hub EXCEPT ![c] = "none"]
        /\ done' = done \ {c}
        /\ UNCHANGED <<drops, old, handing, pending, online, newest>>
  BY DEF Connect, Slot
<1>2. Types'
  BY <1>1 DEF Bookkeeping, Types, DeviceTypes, HubTypes, LinkStates, HubStates,
              ConnOrNone, requestVars
<1>3. Started'
  BY <1>1 DEF Bookkeeping, Types, DeviceTypes, HubTypes, Started
<1>4. OnlineRuns'
  BY <1>1 DEF Bookkeeping, Types, HubTypes, OnlineRuns, Reusable, ConnOrNone
<1>5. OnConnection'
  BY <1>1 DEF Bookkeeping, Types, HubTypes, OnConnection, Reusable, requestVars
<1>6. EntriesOwned'
  BY <1>1 DEF Bookkeeping, EntriesOwned, requestVars
<1>. QED  BY <1>2, <1>3, <1>4, <1>5, <1>6 DEF Bookkeeping

(* A step that leaves the hub alone and dials nothing.                     *)
LEMMA HubUntouched ==
  ASSUME Bookkeeping, UNCHANGED <<hubVars, requestVars>>, DeviceTypes',
         \A c \in Conns : link'[c] = "dialing" => link[c] = "dialing"
  PROVE  Bookkeeping'
  BY DEF Bookkeeping, Types, HubTypes, Started, OnlineRuns, OnConnection,
         EntriesOwned, hubVars, requestVars

LEMMA DeviceKeepsBookkeeping ==
  ASSUME Bookkeeping, DeviceStep
  PROVE  Bookkeeping'
<1>. DeviceTypes
  BY DEF Bookkeeping, Types
<1>1. ASSUME NEW next \in {"start", "stop"}, Press(next)
      PROVE  Bookkeeping'
  <2>1. starts' \in Nat
    BY <1>1 DEF Press, DeviceTypes
  <2>2. DeviceTypes'
    BY <1>1, <2>1 DEF Press, DeviceTypes
  <2>. QED  BY <1>1, <2>2, HubUntouched DEF Press
<1>2. ASSUME link' = Closed, UNCHANGED <<stopped, timer, starts, opening, heard, drops>>,
             starting' \in {"no", "connect"}, sub' = NoConn, channel' = NoConn,
             UNCHANGED <<hubVars, requestVars>>
      PROVE  Bookkeeping'
  <2>1. Closed \in [Conns -> LinkStates]
    BY DEF Closed, DeviceTypes, LinkStates
  <2>2. DeviceTypes'
    BY <1>2, <2>1 DEF DeviceTypes, ConnOrNone
  <2>3. \A c \in Conns : link'[c] = "dialing" => link[c] = "dialing"
    BY <1>2 DEF Closed
  <2>. QED  BY <1>2, <2>2, <2>3, HubUntouched
<1>3. CASE StopReturns \/ StartReturns
  BY <1>2, <1>3 DEF StopReturns, StartReturns
<1>4. CASE StartConnects
  BY <1>4, ConnectKeepsBookkeeping DEF StartConnects
<1>5. CASE TimerFires
  BY <1>5, ConnectKeepsBookkeeping DEF TimerFires, DeviceTypes
<1>6. ASSUME NEW c \in Conns, Ready(c)
      PROVE  Bookkeeping'
  BY <1>6, HubUntouched DEF Ready, DeviceTypes, LinkStates
<1>7. ASSUME NEW c \in Conns, ReadyFails(c) \/ StreamEnds(c)
      PROVE  Bookkeeping'
  <2>1. DeviceTypes' /\ link' = link
    BY <1>7 DEF ReadyFails, StreamEnds, Lost, DeviceTypes, ConnOrNone
  <2>. QED  BY <1>7, <2>1, HubUntouched DEF ReadyFails, StreamEnds
<1>8. ASSUME NEW c \in Conns, NEW r \in Requests, OnFrame(c, r)
      PROVE  Bookkeeping'
  BY <1>8, HubUntouched DEF OnFrame, deviceVars, DeviceTypes
<1>9. ASSUME NEW r \in Requests, Send(r)
      PROVE  Bookkeeping'
  BY <1>9, HubUntouched DEF Send, deviceVars, DeviceTypes
<1>. QED  BY <1>1, <1>2, <1>3, <1>4, <1>5, <1>6, <1>7, <1>8, <1>9 DEF DeviceStep

LEMMA NetworkKeepsBookkeeping ==
  ASSUME Bookkeeping, NetworkStep
  PROVE  Bookkeeping'
<1>1. PICK c \in Conns : Accept(c) \/ Drop(c)
  BY DEF NetworkStep
<1>2. CASE Accept(c)
  BY <1>2 DEF Accept, Bookkeeping, Types, DeviceTypes, HubTypes, Started, OnlineRuns,
              OnConnection, EntriesOwned, deviceVars, requestVars, LinkStates,
              HubStates, ConnOrNone
<1>3. CASE Drop(c)
  BY <1>3, HubUntouched DEF Drop, Bookkeeping, Types, DeviceTypes, deviceVars, LinkStates
<1>. QED  BY <1>1, <1>2, <1>3

(* Failing the waiters of a connection empties its pending map.            *)
LEMMA FailPendingKeepsOwned ==
  ASSUME Bookkeeping, NEW c \in Conns, FailPending(c)
  PROVE  /\ done' = done \cup {c}
         /\ pending' \in [Conns -> SUBSET Requests]
         /\ request' = request
         /\ EntriesOwned'
  BY DEF Bookkeeping, Types, HubTypes, FailPending, EntriesOwned

LEMMA ConnKeepsBookkeeping ==
  ASSUME Bookkeeping, NEW c \in Conns, ConnStep(c)
  PROVE  Bookkeeping'
<1>. USE DEF Bookkeeping, Types, DeviceTypes, HubTypes
<1>1. CASE SetOnline(c)
  BY <1>1 DEF SetOnline, ConnUnchanged, deviceVars, requestVars, Started,
              OnlineRuns, OnConnection, EntriesOwned, HubStates, ConnOrNone
<1>2. CASE FailOld(c)
  BY <1>2, FailPendingKeepsOwned
     DEF FailOld, ConnUnchanged, deviceVars, Started, OnlineRuns, OnConnection,
         HubStates, ConnOrNone
<1>3. CASE CloseOld(c)
  BY <1>3 DEF CloseOld, ConnUnchanged, deviceVars, requestVars, Started,
              OnlineRuns, OnConnection, EntriesOwned, HubStates, LinkStates,
              ConnOrNone
<1>4. ASSUME NEW r \in Requests, ReadFrame(c, r)
      PROVE  Bookkeeping'
  BY <1>4 DEF ReadFrame, ConnUnchanged, deviceVars, requestVars, Started,
              OnlineRuns, OnConnection, EntriesOwned, HubStates, ConnOrNone
<1>5. CASE HandOver(c)
  BY <1>5 DEF HandOver, ConnUnchanged, deviceVars, Started,
              OnlineRuns, OnConnection, EntriesOwned, HubStates, ConnOrNone
<1>6. CASE ReadFails(c)
  BY <1>6 DEF ReadFails, ConnUnchanged, deviceVars, requestVars, Started,
              OnlineRuns, OnConnection, EntriesOwned, HubStates, ConnOrNone
<1>7. CASE SetOffline(c)
  BY <1>7 DEF SetOffline, ConnUnchanged, deviceVars, requestVars, Started,
              OnlineRuns, OnConnection, EntriesOwned, HubStates, ConnOrNone
<1>8. CASE FailOwn(c)
  BY <1>8, FailPendingKeepsOwned
     DEF FailOwn, ConnUnchanged, deviceVars, Started, OnlineRuns, OnConnection,
         HubStates, ConnOrNone
<1>. QED  BY <1>1, <1>2, <1>3, <1>4, <1>5, <1>6, <1>7, <1>8 DEF ConnStep

(* What the end of a request leaves: it is on no connection, and no        *)
(* pending map has it.                                                     *)
LEMMA EndKeepsOwned ==
  ASSUME Bookkeeping, NEW r \in Requests, request[r].at \in InRequest,
         NEW how \in RequestStates \ InRequest, End(r, how), UNCHANGED <<hub, done>>
  PROVE  /\ request' \in [Requests -> [at : RequestStates, conn : ConnOrNone]]
         /\ pending' \in [Conns -> SUBSET Requests]
         /\ OnConnection' /\ EntriesOwned'
<1>. USE DEF Bookkeeping, Types, HubTypes, End
<1>1. request[r].conn \in Conns
  BY DEF OnConnection
<1>2. NoConn \notin Conns
  BY RelayAssumption
<1>3. /\ request' \in [Requests -> [at : RequestStates, conn : ConnOrNone]]
      /\ pending' \in [Conns -> SUBSET Requests]
  BY <1>1 DEF ConnOrNone
<1>4. OnConnection'
  BY <1>2 DEF OnConnection
<1>5. EntriesOwned'
  BY <1>1 DEF EntriesOwned
<1>. QED  BY <1>3, <1>4, <1>5

LEMMA RequestKeepsBookkeeping ==
  ASSUME Bookkeeping, NEW r \in Requests, RequestStep(r)
  PROVE  Bookkeeping'
<1>. USE DEF Bookkeeping, Types, DeviceTypes, HubTypes
<1>1. CASE Ask(r)
  BY <1>1, RelayAssumption
     DEF Ask, RequestUnchanged, deviceVars, Started, OnlineRuns, OnConnection,
         EntriesOwned, RequestStates, InRequest, ConnOrNone
<1>2. CASE Register(r) /\ request[r].conn \notin done
  <2>1. request[r].conn \in Conns
    BY <1>2 DEF Register, OnConnection, InRequest
  <2>2. /\ request[r].at = "found"
        /\ request' = [request EXCEPT ![r].at = "sending"]
        /\ pending' = [pending EXCEPT ![request[r].conn] = @ \cup {r}]
        /\ RequestUnchanged /\ UNCHANGED toDevice
    BY <1>2 DEF Register
  <2>3. Types' /\ Started' /\ OnlineRuns'
    BY <2>1, <2>2 DEF RequestUnchanged, deviceVars, Started, OnlineRuns, RequestStates
  <2>4. OnConnection' /\ EntriesOwned'
    BY <2>1, <2>2 DEF RequestUnchanged, OnConnection, EntriesOwned, InRequest
  <2>. QED  BY <2>3, <2>4
<1>3. CASE SendRequest(r)
  BY <1>3
     DEF SendRequest, RequestUnchanged, deviceVars, Started, OnlineRuns, OnConnection,
         EntriesOwned, RequestStates, InRequest, ConnOrNone
<1>4. ASSUME NEW how \in RequestStates \ InRequest, request[r].at \in InRequest,
             End(r, how), RequestUnchanged
      PROVE  Bookkeeping'
  BY <1>4, EndKeepsOwned DEF RequestUnchanged, deviceVars, Started, OnlineRuns
<1>5. CASE Register(r) /\ request[r].conn \in done
  BY <1>4, <1>5 DEF Register, RequestStates, InRequest
<1>6. CASE SendFails(r)
  BY <1>4, <1>6 DEF SendFails, RequestStates, InRequest
<1>7. CASE Answered(r)
  BY <1>4, <1>7 DEF Answered, RequestStates, InRequest
<1>8. CASE ZeroFrame(r)
  BY <1>4, <1>8 DEF ZeroFrame, RequestStates, InRequest
<1>9. CASE ConnClosed(r)
  BY <1>4, <1>9 DEF ConnClosed, RequestStates, InRequest
<1>10. CASE Timeout(r)
  BY <1>4, <1>10 DEF Timeout, RequestStates, InRequest
<1>. QED  BY <1>1, <1>2, <1>3, <1>5, <1>6, <1>7, <1>8, <1>9, <1>10 DEF RequestStep

LEMMA BookkeepingInit == RelayInit => Bookkeeping
<1>. SUFFICES ASSUME RelayInit PROVE Bookkeeping
  OBVIOUS
<1>1. Types
  BY DEF RelayInit, Types, DeviceTypes, HubTypes, RequestStates, LinkStates,
         HubStates, ConnOrNone
<1>2. Started /\ OnlineRuns /\ EntriesOwned
  BY DEF RelayInit, Started, OnlineRuns, EntriesOwned
<1>3. OnConnection
  BY RelayAssumption DEF RelayInit, OnConnection, InRequest
<1>. QED  BY <1>1, <1>2, <1>3 DEF Bookkeeping

LEMMA BookkeepingNext ==
  ASSUME Bookkeeping, [RelayNext]_relayVars
  PROVE  Bookkeeping'
<1>1. CASE UNCHANGED relayVars
  BY <1>1 DEF relayVars, deviceVars, netVars, hubVars, requestVars, Bookkeeping,
              Types, DeviceTypes, HubTypes, Started, OnlineRuns, OnConnection,
              EntriesOwned
<1>. QED
  BY <1>1, DeviceKeepsBookkeeping, NetworkKeepsBookkeeping, ConnKeepsBookkeeping,
     RequestKeepsBookkeeping DEF RelayNext

(* The types of both ends' state hold at every moment, and a pending entry *)
(* belongs to a request that is still on that connection.                  *)
THEOREM RelayTypesCorrect == RelaySpec => []RelayTypeOK
<1>1. Bookkeeping => RelayTypeOK
  BY DEF Bookkeeping, Types, DeviceTypes, HubTypes, EntriesOwned, RelayTypeOK,
         LinkStates, ConnOrNone
<1>. QED  BY <1>1, BookkeepingInit, BookkeepingNext, PTL DEF RelaySpec

-----------------------------------------------------------------------------
(* Requests wait on a connection that will answer or fail them.            *)

LEMMA ConnectWaits ==
  ASSUME Bookkeeping, NobodyWaitsInVain, Connect, UNCHANGED requestVars
  PROVE  NobodyWaitsInVain'
<1>1. PICK c \in Conns :
        /\ Reusable(c)
        /\ hub' = [hub EXCEPT ![c] = "none"]
        /\ done' = done \ {c} /\ UNCHANGED pending
  BY DEF Connect, Slot
<1>2. \A r \in Requests : request[r].conn = c => request[r].at \notin InRequest
  BY <1>1 DEF Reusable
<1>. QED  BY <1>1, <1>2
     DEF Bookkeeping, Types, HubTypes, NobodyWaitsInVain, InRequest, requestVars

LEMMA DeviceWaits ==
  ASSUME Bookkeeping, NobodyWaitsInVain, DeviceStep \/ NetworkStep
  PROVE  NobodyWaitsInVain'
<1>1. CASE UNCHANGED <<hub, pending, done, request>>
  BY <1>1 DEF NobodyWaitsInVain
<1>2. CASE StartConnects \/ TimerFires
  BY <1>2, ConnectWaits DEF StartConnects, TimerFires
<1>3. ASSUME NEW c \in Conns, Accept(c)
      PROVE  NobodyWaitsInVain'
  BY <1>3 DEF Accept, Bookkeeping, Types, HubTypes, NobodyWaitsInVain, requestVars
<1>. QED
  BY <1>1, <1>2, <1>3
     DEF DeviceStep, NetworkStep, Press, StopReturns, StartReturns, Ready, ReadyFails,
         StreamEnds, OnFrame, Send, Drop, hubVars, requestVars

LEMMA FailPendingWaits ==
  ASSUME Bookkeeping, NobodyWaitsInVain, NEW c \in Conns, FailPending(c)
  PROVE  /\ \A r \in Requests :
              request[r].at \in {"sending", "waiting"} /\ request[r].conn \notin done'
                => r \in pending'[request[r].conn]
         /\ \A d \in done' : pending'[d] = {}
  BY DEF FailPending, Bookkeeping, Types, HubTypes, NobodyWaitsInVain

LEMMA ConnWaits ==
  ASSUME Bookkeeping, NobodyWaitsInVain, NEW c \in Conns, ConnStep(c)
  PROVE  NobodyWaitsInVain'
<1>. USE DEF Bookkeeping, Types, HubTypes
<1>1. CASE FailOld(c)
  <2>1. old[c] \in Conns
    BY <1>1 DEF FailOld, Started
  <2>. QED  BY <1>1, <2>1, FailPendingWaits DEF FailOld, FailPending, NobodyWaitsInVain
<1>2. CASE FailOwn(c)
  BY <1>2, FailPendingWaits DEF FailOwn, FailPending, NobodyWaitsInVain
<1>3. CASE /\ UNCHANGED <<pending, done, request>>
           /\ \E where \in HubStates \ {"none", "gone"} :
                hub' = [hub EXCEPT ![c] = where]
  BY <1>3 DEF NobodyWaitsInVain
<1>4. CASE SetOnline(c) \/ CloseOld(c) \/ ReadFails(c) \/ SetOffline(c)
  BY <1>3, <1>4 DEF SetOnline, CloseOld, ReadFails, SetOffline, requestVars, HubStates
<1>5. ASSUME NEW r \in Requests, ReadFrame(c, r)
      PROVE  NobodyWaitsInVain'
  BY <1>3, <1>5 DEF ReadFrame, requestVars, HubStates
<1>6. CASE HandOver(c)
  BY <1>3, <1>6 DEF HandOver, HubStates
<1>. QED  BY <1>1, <1>2, <1>4, <1>5, <1>6 DEF ConnStep

LEMMA EndWaits ==
  ASSUME Bookkeeping, NobodyWaitsInVain, NEW r \in Requests,
         request[r].at \in InRequest, NEW how \in RequestStates \ InRequest,
         End(r, how), UNCHANGED <<hub, done>>
  PROVE  NobodyWaitsInVain'
<1>1. request[r].conn \in Conns
  BY DEF Bookkeeping, OnConnection
<1>. QED  BY <1>1 DEF Bookkeeping, Types, HubTypes, End, InRequest, NobodyWaitsInVain

LEMMA RequestWaits ==
  ASSUME Bookkeeping, NobodyWaitsInVain, NEW r \in Requests, RequestStep(r)
  PROVE  NobodyWaitsInVain'
<1>. USE DEF Bookkeeping, Types, HubTypes
<1>1. CASE Ask(r)
  BY <1>1 DEF Ask, RequestUnchanged, NobodyWaitsInVain
<1>2. CASE Register(r) /\ request[r].conn \notin done
  <2>1. request[r].conn \in Conns /\ hub[request[r].conn] \notin {"none", "gone"}
    BY <1>2 DEF Register, OnConnection, InRequest
  <2>2. /\ request' = [request EXCEPT ![r].at = "sending"]
        /\ pending' = [pending EXCEPT ![request[r].conn] = @ \cup {r}]
        /\ UNCHANGED <<hub, done>>
    BY <1>2 DEF Register, RequestUnchanged
  <2>. QED  BY <1>2, <2>1, <2>2 DEF NobodyWaitsInVain
<1>3. CASE SendRequest(r)
  BY <1>3 DEF SendRequest, RequestUnchanged, NobodyWaitsInVain
<1>4. ASSUME NEW how \in RequestStates \ InRequest, request[r].at \in InRequest,
             End(r, how), RequestUnchanged
      PROVE  NobodyWaitsInVain'
  BY <1>4, EndWaits DEF RequestUnchanged
<1>5. CASE Register(r) /\ request[r].conn \in done
  BY <1>4, <1>5 DEF Register, RequestStates, InRequest
<1>6. CASE SendFails(r)
  BY <1>4, <1>6 DEF SendFails, RequestStates, InRequest
<1>7. CASE Answered(r) \/ ZeroFrame(r) \/ ConnClosed(r) \/ Timeout(r)
  BY <1>4, <1>7 DEF Answered, ZeroFrame, ConnClosed, Timeout, RequestStates, InRequest
<1>. QED  BY <1>1, <1>2, <1>3, <1>5, <1>6, <1>7 DEF RequestStep

(* A request that waits on a connection that is not done is registered     *)
(* there and the connection's goroutine has its failPending still before   *)
(* it; on a connection that is done nobody is registered.                  *)
THEOREM NobodyWaitsInVainHolds == RelaySpec => []NobodyWaitsInVain
<1>1. RelayInit => NobodyWaitsInVain
  BY DEF RelayInit, NobodyWaitsInVain
<1>2. ASSUME Bookkeeping, NobodyWaitsInVain, [RelayNext]_relayVars
      PROVE  NobodyWaitsInVain'
  <2>1. CASE UNCHANGED relayVars
    BY <1>2, <2>1 DEF relayVars, hubVars, requestVars, NobodyWaitsInVain
  <2>. QED  BY <1>2, <2>1, DeviceWaits, ConnWaits, RequestWaits DEF RelayNext
<1>. QED  BY <1>1, <1>2, BookkeepingInit, BookkeepingNext, PTL DEF RelaySpec

-----------------------------------------------------------------------------
(* The registry.                                                           *)

LEMMA NewestNext ==
  ASSUME Bookkeeping, NewestIsOnline, [RelayNext]_relayVars
  PROVE  NewestIsOnline'
<1>. USE DEF Bookkeeping, Types, HubTypes
<1>1. CASE UNCHANGED <<hub, online, newest>>
  BY <1>1 DEF NewestIsOnline
<1>2. ASSUME NEW c \in Conns, UNCHANGED <<online, newest>>,
             NEW where \in {"none", "accepted", "leaving", "gone"},
             hub' = [hub EXCEPT ![c] = where]
      PROVE  NewestIsOnline'
  BY <1>2 DEF NewestIsOnline
<1>3. CASE StartConnects \/ TimerFires
  BY <1>2, <1>3 DEF StartConnects, TimerFires, Connect
<1>4. ASSUME NEW c \in Conns, Accept(c) \/ ReadFails(c) \/ FailOwn(c)
      PROVE  NewestIsOnline'
  BY <1>2, <1>4 DEF Accept, ReadFails, FailOwn
<1>5. ASSUME NEW c \in Conns, SetOnline(c)
      PROVE  NewestIsOnline'
  BY <1>5 DEF SetOnline, NewestIsOnline
<1>6. ASSUME NEW c \in Conns, FailOld(c) \/ CloseOld(c)
      PROVE  NewestIsOnline'
  <2>1. /\ hub[c] \in {"failing", "closing"}
        /\ hub' = [hub EXCEPT ![c] = "closing"] \/ hub' = [hub EXCEPT ![c] = "reading"]
        /\ UNCHANGED <<online, newest>>
    BY <1>6 DEF FailOld, CloseOld
  <2>. QED  BY <2>1 DEF NewestIsOnline, ConnOrNone
<1>7. ASSUME NEW c \in Conns, NEW r \in Requests, ReadFrame(c, r)
      PROVE  NewestIsOnline'
  BY <1>7 DEF ReadFrame, NewestIsOnline
<1>8. ASSUME NEW c \in Conns, HandOver(c)
      PROVE  NewestIsOnline'
  BY <1>8 DEF HandOver, NewestIsOnline
<1>9. ASSUME NEW c \in Conns, SetOffline(c)
      PROVE  NewestIsOnline'
  BY <1>9 DEF SetOffline, NewestIsOnline
<1>10. CASE DeviceStep
  BY <1>1, <1>3, <1>10
     DEF DeviceStep, Press, StopReturns, StartReturns, Ready, ReadyFails, StreamEnds,
         OnFrame, Send, hubVars
<1>11. CASE NetworkStep
  BY <1>1, <1>4, <1>11 DEF NetworkStep, Drop, hubVars
<1>12. ASSUME NEW c \in Conns, ConnStep(c)
       PROVE  NewestIsOnline'
  BY <1>12, <1>4, <1>5, <1>6, <1>7, <1>8, <1>9 DEF ConnStep
<1>13. ASSUME NEW r \in Requests, RequestStep(r)
       PROVE  NewestIsOnline'
  BY <1>13, <1>1
     DEF RequestStep, Ask, Register, SendRequest, SendFails, Answered, ZeroFrame,
         ConnClosed, Timeout, RequestUnchanged
<1>. QED
  BY <1>1, <1>10, <1>11, <1>12, <1>13 DEF RelayNext, relayVars, hubVars

(* The registry lists the newest connection while its goroutine reads, and *)
(* no other connection ever, in whatever order the goroutines of the old   *)
(* and the new one run.                                                    *)
THEOREM NewestIsOnlineHolds == RelaySpec => []NewestIsOnline
<1>1. RelayInit => NewestIsOnline
  BY DEF RelayInit, NewestIsOnline
<1>. QED
  BY <1>1, NewestNext, BookkeepingInit, BookkeepingNext, PTL DEF RelaySpec

-----------------------------------------------------------------------------
(* The desktop's client.                                                   *)

LEMMA HubLeavesDevice ==
  ASSUME \/ NetworkStep
         \/ \E c \in Conns : ConnStep(c)
         \/ \E r \in Requests : RequestStep(r)
         \/ UNCHANGED relayVars
  PROVE  UNCHANGED <<deviceVars, opening, heard>>
<1>1. CASE UNCHANGED relayVars
  BY <1>1 DEF relayVars, netVars, deviceVars
<1>2. CASE NetworkStep
  BY <1>2 DEF NetworkStep, Accept, Drop, deviceVars
<1>3. ASSUME NEW c \in Conns, ConnStep(c)
      PROVE  UNCHANGED <<deviceVars, opening, heard>>
  BY <1>3 DEF ConnStep, SetOnline, FailOld, CloseOld, ReadFrame, HandOver, ReadFails,
              SetOffline, FailOwn, ConnUnchanged
<1>4. ASSUME NEW r \in Requests, RequestStep(r)
      PROVE  UNCHANGED <<deviceVars, opening, heard>>
  BY <1>4 DEF RequestStep, Ask, Register, SendRequest, SendFails, Answered, ZeroFrame,
              ConnClosed, Timeout, RequestUnchanged
<1>. QED  BY <1>1, <1>2, <1>3, <1>4

LEMMA StoppingNext ==
  ASSUME Bookkeeping, Stopping, [RelayNext]_relayVars
  PROVE  Stopping'
<1>. USE DEF Stopping
<1>1. CASE UNCHANGED deviceVars
  BY <1>1 DEF deviceVars
<1>2. CASE Press("start") \/ Press("stop")
  BY <1>2 DEF Press
<1>3. CASE StopReturns \/ StartReturns
  BY <1>3 DEF StopReturns, StartReturns
<1>4. CASE StartConnects \/ TimerFires
  BY <1>4 DEF StartConnects, TimerFires, Connect
<1>5. ASSUME NEW c \in Conns, Ready(c)
      PROVE  Stopping'
  BY <1>5 DEF Ready
<1>6. ASSUME NEW c \in Conns, ReadyFails(c) \/ StreamEnds(c)
      PROVE  Stopping'
  BY <1>6 DEF ReadyFails, StreamEnds, Lost
<1>7. CASE DeviceStep
  BY <1>1, <1>2, <1>3, <1>4, <1>5, <1>6, <1>7 DEF DeviceStep, OnFrame, Send
<1>. QED  BY <1>1, <1>7, HubLeavesDevice DEF RelayNext

(* After stop() has returned the client keeps no channel, no subscription  *)
(* and no timer, whatever callbacks still arrive.                          *)
THEOREM StoppedIsQuietHolds == RelaySpec => []StoppedIsQuiet
<1>1. RelayInit => Stopping
  BY DEF RelayInit, Stopping
<1>2. Stopping => StoppedIsQuiet
  BY DEF Stopping, StoppedIsQuiet
<1>. QED
  BY <1>1, <1>2, StoppingNext, BookkeepingInit, BookkeepingNext, PTL DEF RelaySpec

LEMMA OneConnectionNext ==
  ASSUME Bookkeeping, Stopping, OneConnection, [RelayNext]_relayVars
  PROVE  OneConnection'
<1>. USE DEF Bookkeeping, Types, DeviceTypes
<1>1. CASE UNCHANGED <<deviceVars, opening, heard>>
  BY <1>1 DEF deviceVars, OneConnection
<1>2. ASSUME NEW next \in {"start", "stop"}, Press(next)
      PROVE  OneConnection'
  BY <1>2 DEF Press, OneConnection
<1>3. CASE StopReturns \/ StartReturns
  BY <1>3 DEF StopReturns, StartReturns, Stopping, OneConnection
<1>4. CASE StartConnects \/ TimerFires
  BY <1>4 DEF StartConnects, TimerFires, Connect, Stopping, OneConnection
<1>5. ASSUME NEW c \in Conns, Ready(c)
      PROVE  OneConnection'
  BY <1>5 DEF Ready, OneConnection
<1>6. ASSUME NEW c \in Conns, ReadyFails(c) \/ StreamEnds(c)
      PROVE  OneConnection'
  BY <1>6 DEF ReadyFails, StreamEnds, Lost, Stopping, OneConnection
<1>7. CASE DeviceStep
  BY <1>1, <1>2, <1>3, <1>4, <1>5, <1>6, <1>7 DEF DeviceStep, OnFrame, Send
<1>. QED  BY <1>1, <1>7, HubLeavesDevice DEF RelayNext

(* Until Start is pressed a second time the desktop listens to no open     *)
(* connection but the one it answers on, however often the network fails.  *)
THEOREM OneStartOneChannel == RelaySpec => [](starts <= 1 => OnlyChannelIsHeard)
<1>1. RelayInit => Stopping /\ OneConnection
  BY DEF RelayInit, Stopping, OneConnection
<1>2. Bookkeeping /\ OneConnection => (starts <= 1 => OnlyChannelIsHeard)
  BY DEF OneConnection, OnlyChannelIsHeard, Bookkeeping, Types, DeviceTypes
<1>. QED
  BY <1>1, <1>2, StoppingNext, OneConnectionNext, BookkeepingInit, BookkeepingNext, PTL
     DEF RelaySpec

=============================================================================

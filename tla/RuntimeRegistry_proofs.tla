----------------------- MODULE RuntimeRegistry_proofs -----------------------
(***************************************************************************)
(* Proofs about the registry of terminal sessions, for any ids, clients,   *)
(* pids and number of sessions.                                            *)
(***************************************************************************)
EXTENDS RuntimeRegistry, TLAPS

(* Types *)

SessionType == [id : Ids, pid : Pids, running : BOOLEAN,
                alive : BOOLEAN, loop : {"waiting", "draining", "done"},
                fuse : Pids \union {NoPid}]

IdleType == [at : {"idle"}, fresh : BOOLEAN]
AskType == [at : {"create", "get"}, id : Ids, force : BOOLEAN, old : Nat]
KillType(objects) ==
  [at : {"kill"}, id : Ids, force : BOOLEAN, old : Nat, target : objects]

TypeInv ==
  /\ sessions \in Seq(SessionType)
  /\ listed \in [Ids -> Nat]
  /\ client \in [Clients -> IdleType \union AskType \union KillType(DOMAIN sessions)]
  /\ daemon \in {"serving", "closing", "killing", "gone"}
  /\ doomed \subseteq DOMAIN sessions
  /\ \A id \in Ids : listed[id] # NoSession => listed[id] \in DOMAIN sessions

(* The inductive invariant: NoForgottenProcess, whatever the daemon does,  *)
(* and the reason why waitLoop may clear alive.                            *)
Watched(n) == Running(n) => sessions[n].alive \/ FuseLit(n)
Findable(n) == sessions[n].alive => Listed(n)
WaitedFor(n) == sessions[n].loop # "waiting" => ~Running(n)

Safe == \A n \in DOMAIN sessions : Watched(n) /\ Findable(n) /\ WaitedFor(n)

Inv == TypeInv /\ Safe

-----------------------------------------------------------------------------
(* Steps that change one object.                                           *)

(* Kill keeps an object's type, and leaves its process watched.            *)
LEMMA KillKeepsInv ==
  ASSUME TypeInv, Safe, NEW n \in DOMAIN sessions,
         sessions' = [sessions EXCEPT ![n] = Killed(@)], listed' = listed
  PROVE  /\ sessions' \in Seq(SessionType)
         /\ DOMAIN sessions' = DOMAIN sessions
         /\ Safe'
<1>1. sessions[n] \in SessionType
  BY DEF TypeInv
<1>2. Killed(sessions[n]) \in SessionType
  BY <1>1 DEF Killed, SessionType
<1>3. sessions' \in Seq(SessionType) /\ DOMAIN sessions' = DOMAIN sessions
  BY <1>2 DEF TypeInv
<1>4. ASSUME NEW m \in DOMAIN sessions
      PROVE  Watched(m)' /\ Findable(m)' /\ WaitedFor(m)'
  <2>1. Watched(m) /\ Findable(m) /\ WaitedFor(m)
    BY DEF Safe
  <2>2. CASE m # n
    <3>1. sessions'[m] = sessions[m]
      BY <2>2 DEF TypeInv
    <3>. QED  BY <2>1, <3>1 DEF Watched, FuseLit, Findable, WaitedFor, Running, Listed
  <2>3. CASE m = n
    <3>1. sessions'[m] = Killed(sessions[m])
      BY <2>3 DEF TypeInv
    <3>2. sessions[m] \in SessionType
      BY <1>1, <2>3
    <3>. QED
      BY <2>1, <3>1, <3>2, PidsArePositive
         DEF Killed, SessionType, Watched, FuseLit, Findable, WaitedFor, Running, Listed, NoPid
  <2>. QED  BY <2>2, <2>3
<1>. QED  BY <1>3, <1>4 DEF Safe

(* Whatever changes an object's process, loop or fuse keeps the invariant  *)
(* if it keeps this of each object.                                        *)
LEMMA ObjectsKeepSafe ==
  ASSUME Safe, listed' = listed, DOMAIN sessions' = DOMAIN sessions,
         \A m \in DOMAIN sessions :
           /\ sessions'[m].id = sessions[m].id
           /\ sessions'[m].alive => sessions[m].alive
           /\ sessions'[m].running => /\ sessions[m].running
                                      /\ sessions'[m].alive = sessions[m].alive
                                      /\ sessions'[m].pid = sessions[m].pid
                                      /\ \/ sessions'[m].fuse = sessions[m].fuse
                                         \/ sessions[m].fuse # sessions[m].pid
           /\ sessions'[m].loop # "waiting" =>
                sessions[m].loop # "waiting" \/ ~sessions'[m].running
  PROVE  Safe'
BY DEF Safe, Watched, FuseLit, Findable, WaitedFor, Running, Listed

-----------------------------------------------------------------------------
LEMMA InitInv == Init => Inv
<1> SUFFICES ASSUME Init
             PROVE  Inv
  OBVIOUS
<1>1. sessions = << >> /\ DOMAIN sessions = {}
  BY DEF Init
<1>2. TypeInv
  BY <1>1 DEF Init, TypeInv, Idle, IdleType, NoSession
<1>3. Safe
  BY <1>1 DEF Safe
<1>. QED  BY <1>2, <1>3 DEF Inv

(* A session's own steps. *)
LEMMA ProcessExitsInv ==
  ASSUME Inv, NEW n \in DOMAIN sessions, ProcessExits(n)
  PROVE  Inv'
<1>. USE DEF Inv, ProcessExits
<1>1. sessions[n] \in SessionType
  BY DEF TypeInv
<1>2. [sessions[n] EXCEPT !.running = FALSE] \in SessionType
  BY <1>1 DEF SessionType
<1>3. sessions' \in Seq(SessionType) /\ DOMAIN sessions' = DOMAIN sessions
  BY <1>2 DEF TypeInv
<1>4. TypeInv'
  BY <1>3 DEF TypeInv
<1>5. \A m \in DOMAIN sessions :
        sessions'[m] = IF m = n THEN [sessions[m] EXCEPT !.running = FALSE] ELSE sessions[m]
  BY DEF TypeInv
<1>6. \A m \in DOMAIN sessions : sessions[m] \in SessionType
  BY DEF TypeInv
<1>7. ASSUME NEW m \in DOMAIN sessions
      PROVE  /\ sessions'[m].id = sessions[m].id
             /\ sessions'[m].alive = sessions[m].alive
             /\ sessions'[m].pid = sessions[m].pid
             /\ sessions'[m].fuse = sessions[m].fuse
             /\ sessions'[m].loop = sessions[m].loop
             /\ sessions'[m].running => sessions[m].running
  BY <1>5, <1>6 DEF SessionType
<1>8. Safe'
  BY <1>3, <1>7, ObjectsKeepSafe
<1>. QED  BY <1>4, <1>8

LEMMA FuseBurnsInv ==
  ASSUME Inv, NEW n \in DOMAIN sessions, FuseBurns(n)
  PROVE  Inv'
<1>. DEFINE Burnt(m) ==
       [sessions[m] EXCEPT !.fuse = IF m = n THEN NoPid ELSE @,
                           !.running = @ /\ sessions[m].pid # sessions[n].fuse]
<1>1. \A m \in DOMAIN sessions : sessions[m] \in SessionType
  BY DEF Inv, TypeInv
<1>2. \A m \in DOMAIN sessions : Burnt(m) \in SessionType
  BY <1>1 DEF SessionType
<1>3. sessions' = [m \in DOMAIN sessions |-> Burnt(m)]
  BY DEF FuseBurns
<1>4. DOMAIN sessions = 1 .. Len(sessions) /\ Len(sessions) \in Nat
  BY DEF Inv, TypeInv
<1>. HIDE DEF Burnt
<1>5. sessions' \in Seq(SessionType) /\ DOMAIN sessions' = DOMAIN sessions
  BY <1>2, <1>3, <1>4
<1>6. TypeInv'
  BY <1>5 DEF Inv, TypeInv, FuseBurns
<1>7. \A m \in DOMAIN sessions : sessions'[m] = Burnt(m)
  BY <1>3
<1>8. ASSUME NEW m \in DOMAIN sessions
      PROVE  /\ Burnt(m).id = sessions[m].id
             /\ Burnt(m).alive = sessions[m].alive
             /\ Burnt(m).pid = sessions[m].pid
             /\ Burnt(m).loop = sessions[m].loop
             /\ Burnt(m).running =>
                  sessions[m].running /\ sessions[m].pid # sessions[n].fuse
             /\ m # n => Burnt(m).fuse = sessions[m].fuse
  BY <1>1 DEF Burnt, SessionType
<1>9. ASSUME NEW m \in DOMAIN sessions, sessions'[m].running
      PROVE  \/ sessions'[m].fuse = sessions[m].fuse
             \/ sessions[m].fuse # sessions[m].pid
  BY <1>7, <1>8, <1>9
<1>10. Safe /\ listed' = listed
  BY DEF Inv, FuseBurns
<1>11. Safe'
  BY <1>5, <1>7, <1>8, <1>9, <1>10, ObjectsKeepSafe
<1>. QED  BY <1>6, <1>11 DEF Inv

LEMMA ReapInv ==
  ASSUME Inv, NEW n \in DOMAIN sessions, Reap(n)
  PROVE  Inv'
<1>1. \A m \in DOMAIN sessions : sessions[m] \in SessionType
  BY DEF Inv, TypeInv
<1>2. [sessions[n] EXCEPT !.loop = "draining"] \in SessionType
  BY <1>1 DEF SessionType
<1>3. /\ sessions' = [sessions EXCEPT ![n] =
                        [sessions[n] EXCEPT !.loop = "draining"]]
      /\ sessions' \in Seq(SessionType)
      /\ DOMAIN sessions' = DOMAIN sessions
  BY <1>2 DEF Inv, TypeInv, Reap
<1>4. TypeInv'
  BY <1>3 DEF Inv, TypeInv, Reap
<1>5. \A m \in DOMAIN sessions :
        sessions'[m] = IF m = n
                       THEN [sessions[m] EXCEPT !.loop = "draining"]
                       ELSE sessions[m]
  BY <1>3 DEF Inv, TypeInv
<1>6. Safe /\ listed' = listed /\ ~sessions[n].running
  BY DEF Inv, Reap, Running
<1>7. ASSUME NEW m \in DOMAIN sessions
      PROVE  /\ sessions'[m].id = sessions[m].id
             /\ sessions'[m].alive = sessions[m].alive
             /\ sessions'[m].running = sessions[m].running
             /\ sessions'[m].fuse = sessions[m].fuse
             /\ m # n => sessions'[m] = sessions[m]
  BY <1>1, <1>5 DEF SessionType
<1>8. Safe'
  BY <1>3, <1>6, <1>7, ObjectsKeepSafe
<1>. QED  BY <1>4, <1>8 DEF Inv

LEMMA DrainedInv ==
  ASSUME Inv, NEW n \in DOMAIN sessions, Drained(n)
  PROVE  Inv'
<1>1. \A m \in DOMAIN sessions : sessions[m] \in SessionType
  BY DEF Inv, TypeInv
<1>2. [sessions[n] EXCEPT !.loop = "done", !.alive = FALSE] \in SessionType
  BY <1>1 DEF SessionType
<1>3. /\ sessions' = [sessions EXCEPT ![n] =
                        [sessions[n] EXCEPT !.loop = "done", !.alive = FALSE]]
      /\ sessions' \in Seq(SessionType)
      /\ DOMAIN sessions' = DOMAIN sessions
  BY <1>2 DEF Inv, TypeInv, Drained
<1>4. TypeInv'
  BY <1>3 DEF Inv, TypeInv, Drained
<1>5. \A m \in DOMAIN sessions :
        sessions'[m] = IF m = n
                       THEN [sessions[m] EXCEPT !.loop = "done", !.alive = FALSE]
                       ELSE sessions[m]
  BY <1>3 DEF Inv, TypeInv
<1>6. ~sessions[n].running
  BY DEF Inv, Safe, WaitedFor, Running, Drained
<1>7. Safe /\ listed' = listed
  BY DEF Inv, Drained
<1>8. ASSUME NEW m \in DOMAIN sessions
      PROVE  /\ sessions'[m].id = sessions[m].id
             /\ sessions'[m].running = sessions[m].running
             /\ sessions'[m].pid = sessions[m].pid
             /\ sessions'[m].fuse = sessions[m].fuse
             /\ ~sessions'[m].alive \/ sessions'[m].alive = sessions[m].alive
             /\ m # n => sessions'[m] = sessions[m]
  BY <1>1, <1>5 DEF SessionType
<1>9. Safe'
  BY <1>3, <1>6, <1>7, <1>8, ObjectsKeepSafe
<1>. QED  BY <1>4, <1>9 DEF Inv

LEMMA CleanupInv ==
  ASSUME Inv, Cleanup
  PROVE  Inv'
<1>1. /\ sessions' = sessions
      /\ listed' = [id \in Ids |-> IF listed[id] # NoSession /\ sessions[listed[id]].alive
                                   THEN listed[id] ELSE NoSession]
  BY DEF Cleanup
<1>2. TypeInv'
  BY <1>1 DEF Inv, TypeInv, Cleanup, NoSession
<1>3. ASSUME NEW n \in DOMAIN sessions
      PROVE  Findable(n)'
  <2>1. sessions[n] \in SessionType /\ n # NoSession
    BY DEF Inv, TypeInv, NoSession
  <2>2. sessions[n].alive => listed[sessions[n].id] = n
    BY DEF Inv, Safe, Findable, Listed
  <2>. QED  BY <1>1, <2>1, <2>2 DEF Findable, Listed, SessionType
<1>4. Safe'
  BY <1>1, <1>3 DEF Inv, Safe, Watched, FuseLit, WaitedFor, Running
<1>. QED  BY <1>2, <1>4 DEF Inv

-----------------------------------------------------------------------------
(* The clients' steps. *)

(* What a request leaves a client with is well typed. *)
ClientType == IdleType \union AskType \union KillType(DOMAIN sessions)

(* A step of a client that leaves the sessions and the registry alone.     *)
LEMMA ClientStepInv ==
  ASSUME Inv, NEW c \in Clients, NEW r \in ClientType,
         client' = [client EXCEPT ![c] = r],
         UNCHANGED <<sessions, listed, daemon, doomed>>
  PROVE  Inv'
<1>1. TypeInv'
  BY DEF Inv, TypeInv, ClientType
<1>2. Safe'
  BY DEF Inv, Safe, Watched, FuseLit, Findable, WaitedFor, Running, Listed
<1>. QED  BY <1>1, <1>2 DEF Inv

LEMMA IdleIsClient == Idle \in IdleType
BY DEF Idle, IdleType

LEMMA LaunchInv ==
  ASSUME Inv, NEW c \in Clients, NEW id \in Ids, NEW force \in BOOLEAN, Launch(c, id, force)
  PROVE  Inv'
<1>1. [at |-> "create", id |-> id, force |-> force, old |-> NoSession] \in ClientType
  BY DEF ClientType, AskType, NoSession
<1>. QED  BY <1>1, ClientStepInv DEF Launch

LEMMA RequestKillInv ==
  ASSUME Inv, NEW c \in Clients, NEW id \in Ids, RequestKill(c, id)
  PROVE  Inv'
<1>1. [at |-> "get", id |-> id, force |-> FALSE, old |-> NoSession] \in ClientType
  BY DEF ClientType, AskType, NoSession
<1>. QED  BY <1>1, ClientStepInv DEF RequestKill

(* A client that asks knows which id it asks for. *)
LEMMA AskingClient ==
  ASSUME TypeInv, NEW c \in Clients, client[c].at \in {"create", "get"}
  PROVE  client[c] \in AskType
BY DEF TypeInv, IdleType, AskType, KillType

LEMMA KillingClient ==
  ASSUME TypeInv, NEW c \in Clients, client[c].at = "kill"
  PROVE  client[c] \in KillType(DOMAIN sessions)
BY DEF TypeInv, IdleType, AskType, KillType

(* What an answer about object n leaves a client with.                     *)
LEMMA AnswerType ==
  ASSUME TypeInv, NEW c \in Clients, client[c].at = "create",
         NEW n \in Nat, NEW existing \in BOOLEAN, Answered(c, n, existing)
  PROVE  \E r \in IdleType \union AskType : client' = [client EXCEPT ![c] = r]
<1>1. client[c] \in AskType
  BY AskingClient
<1>2. CASE existing /\ client[c].force /\ client[c].old = NoSession
  <2>1. client' = [client EXCEPT ![c] = [@ EXCEPT !.at = "get", !.old = n]]
    BY <1>2 DEF Answered
  <2>2. [client[c] EXCEPT !.at = "get", !.old = n] \in AskType
    BY <1>1 DEF AskType
  <2>. QED  BY <2>1, <2>2
<1>3. CASE ~(existing /\ client[c].force /\ client[c].old = NoSession)
  <2>1. client' = [client EXCEPT ![c] = [at |-> "idle", fresh |-> n > client[c].old]]
    BY <1>3 DEF Answered
  <2>2. [at |-> "idle", fresh |-> n > client[c].old] \in IdleType
    BY DEF IdleType
  <2>. QED  BY <2>1, <2>2
<1>. QED  BY <1>2, <1>3

LEMMA CreateExistingInv ==
  ASSUME Inv, NEW c \in Clients, CreateExisting(c)
  PROVE  Inv'
<1>1. client[c] \in AskType
  BY AskingClient DEF Inv, CreateExisting
<1>. DEFINE n == listed[client[c].id]
<1>2. n \in Nat
  BY <1>1 DEF Inv, TypeInv, AskType
<1>3. client[c].at = "create" /\ Answered(c, n, TRUE)
  BY DEF CreateExisting
<1>4. \E r \in IdleType \union AskType : client' = [client EXCEPT ![c] = r]
  BY <1>2, <1>3, AnswerType DEF Inv
<1>. QED  BY <1>4, ClientStepInv DEF CreateExisting, ClientType

LEMMA GetSessionInv ==
  ASSUME Inv, NEW c \in Clients, GetSession(c)
  PROVE  Inv'
<1>. DEFINE n == listed[client[c].id]
<1>1. client[c] \in AskType
  BY AskingClient DEF Inv, GetSession
<1>2. CASE n = NoSession
  <2>1. client' = [client EXCEPT ![c] = Idle]
    BY <1>2 DEF GetSession, GiveUp
  <2>. QED  BY <2>1, IdleIsClient, ClientStepInv DEF GetSession, ClientType
<1>3. CASE n # NoSession
  <2>. DEFINE r == [at |-> "kill", id |-> client[c].id, force |-> client[c].force,
                    old |-> client[c].old, target |-> n]
  <2>1. client' = [client EXCEPT ![c] = r]
    BY <1>3 DEF GetSession
  <2>2. n \in DOMAIN sessions
    BY <1>1, <1>3 DEF Inv, TypeInv, AskType
  <2>3. r \in KillType(DOMAIN sessions)
    BY <1>1, <2>2 DEF AskType, KillType
  <2>. QED  BY <2>1, <2>3, ClientStepInv DEF GetSession, ClientType
<1>. QED  BY <1>2, <1>3

(* The client goes on to create again, or is done: the object it killed is *)
(* Kill's.                                                                 *)
LEMMA KillSessionInv ==
  ASSUME Inv, NEW c \in Clients, KillSession(c)
  PROVE  Inv'
<1>. DEFINE n == client[c].target
<1>1. client[c] \in KillType(DOMAIN sessions)
  BY KillingClient DEF Inv, KillSession
<1>2. n \in DOMAIN sessions
  BY <1>1 DEF KillType
<1>3. /\ sessions' \in Seq(SessionType)
      /\ DOMAIN sessions' = DOMAIN sessions
      /\ Safe'
  BY <1>2, KillKeepsInv DEF Inv, KillSession
<1>4. \E r \in IdleType \union AskType : client' = [client EXCEPT ![c] = r]
  <2>1. CASE client[c].old # NoSession
    <3>. DEFINE r == [at |-> "create", id |-> client[c].id, force |-> client[c].force,
                      old |-> client[c].old]
    <3>1. client' = [client EXCEPT ![c] = r]
      BY <2>1 DEF KillSession
    <3>2. r \in AskType
      BY <1>1 DEF KillType, AskType
    <3>. QED  BY <3>1, <3>2
  <2>2. CASE client[c].old = NoSession
    BY <2>2, IdleIsClient DEF KillSession, GiveUp
  <2>. QED  BY <2>1, <2>2
<1>5. TypeInv'
  BY <1>3, <1>4 DEF Inv, TypeInv, KillSession
<1>. QED  BY <1>3, <1>5 DEF Inv

(* A new object takes its id over from one that is not alive.              *)
LEMMA CreateNewInv ==
  ASSUME Inv, NEW c \in Clients, CreateNew(c)
  PROVE  Inv'
<1>. DEFINE id == client[c].id
            n == Len(sessions) + 1
<1>1. client[c] \in AskType /\ id \in Ids
  <2>1. client[c] \in AskType
    BY AskingClient DEF Inv, CreateNew
  <2>. QED  BY <2>1 DEF AskType
<1>2. CASE GiveUp(c) /\ UNCHANGED <<sessions, listed>>
  <2>1. client' = [client EXCEPT ![c] = Idle]
    BY <1>2 DEF GiveUp
  <2>. QED  BY <1>2, <2>1, IdleIsClient, ClientStepInv DEF CreateNew, ClientType
<1>3. ASSUME NEW pid \in FreePids,
             sessions' = Append(sessions, NewSession(id, pid)),
             listed' = [listed EXCEPT ![id] = n],
             Answered(c, n, FALSE)
      PROVE  Inv'
  <2>1. NewSession(id, pid) \in SessionType
    BY <1>1, <1>3 DEF NewSession, SessionType, FreePids, NoPid
  <2>2. sessions \in Seq(SessionType) /\ n \in Nat
    BY DEF Inv, TypeInv
  <2>3. /\ sessions' \in Seq(SessionType)
        /\ DOMAIN sessions' = DOMAIN sessions \union {n}
        /\ \A m \in DOMAIN sessions : sessions'[m] = sessions[m]
        /\ sessions'[n] = NewSession(id, pid)
        /\ n \notin DOMAIN sessions
    BY <1>3, <2>1, <2>2
  <2>4. \E r \in IdleType \union AskType : client' = [client EXCEPT ![c] = r]
    BY <1>3, <2>2, AnswerType DEF Inv, CreateNew
  <2>5. /\ client' \in [Clients -> IdleType \union AskType \union KillType(DOMAIN sessions')]
    BY <2>3, <2>4 DEF Inv, TypeInv, KillType
  <2>6. TypeInv'
    BY <1>1, <1>3, <2>2, <2>3, <2>5 DEF Inv, TypeInv, CreateNew
  <2>7. ASSUME NEW m \in DOMAIN sessions
        PROVE  Watched(m)' /\ Findable(m)' /\ WaitedFor(m)'
    <3>1. Watched(m) /\ Findable(m) /\ WaitedFor(m) /\ sessions'[m] = sessions[m]
      BY <2>3 DEF Inv, Safe
    <3>2. sessions[m].alive => sessions[m].id # id
      <4>1. listed[id] # NoSession => ~sessions[listed[id]].alive
        BY DEF CreateNew
      <4>2. m # NoSession
        BY <2>2 DEF NoSession
      <4>. QED  BY <3>1, <4>1, <4>2 DEF Findable, Listed
    <3>3. sessions[m].id \in Ids
      <4>1. sessions[m] \in SessionType
        BY <2>2
      <4>. QED  BY <4>1 DEF SessionType
    <3>. QED
      BY <1>3, <3>1, <3>2, <3>3 DEF Inv, TypeInv, Watched, FuseLit, Findable, WaitedFor, Running, Listed
  <2>8. ASSUME NEW k \in {n}
        PROVE  Watched(k)' /\ Findable(k)' /\ WaitedFor(k)'
    <3>1. /\ sessions'[n].id = id /\ sessions'[n].alive /\ sessions'[n].loop = "waiting"
          /\ sessions'[n].pid # NoPid
      BY <2>3, PidsArePositive DEF NewSession, FreePids, NoPid
    <3>2. listed'[id] = n
      BY <1>1, <1>3 DEF Inv, TypeInv
    <3>. QED  BY <3>1, <3>2 DEF Watched, FuseLit, Findable, WaitedFor, Running, Listed, NoPid
  <2>9. Safe'
    BY <2>3, <2>7, <2>8 DEF Safe
  <2>. QED  BY <2>6, <2>9 DEF Inv
<1>. QED  BY <1>2, <1>3 DEF CreateNew

-----------------------------------------------------------------------------
(* main's steps. *)

LEMMA ShutdownInv ==
  ASSUME Inv, Shutdown
  PROVE  Inv'
<1>1. ASSUME NEW c \in Clients
      PROVE  client'[c] \in IdleType \union AskType \union KillType(DOMAIN sessions)
  <2>1. client[c] \in IdleType \union AskType \union KillType(DOMAIN sessions)
    BY DEF Inv, TypeInv
  <2>2. CASE client[c].at = "idle"
    BY <2>1, <2>2 DEF Shutdown
  <2>3. CASE client[c].at # "idle"
    <3>1. client'[c] = [client[c] EXCEPT !.force = FALSE, !.old = NoSession]
      BY <2>3 DEF Shutdown
    <3>2. ASSUME client[c] \in AskType
          PROVE  client'[c] \in AskType
      <4>1. [client[c] EXCEPT !.force = FALSE, !.old = NoSession] \in AskType
        BY <3>2 DEF AskType, NoSession
      <4>. QED  BY <3>1, <4>1
    <3>3. ASSUME client[c] \in KillType(DOMAIN sessions)
          PROVE  client'[c] \in KillType(DOMAIN sessions)
      <4>1. [client[c] EXCEPT !.force = FALSE, !.old = NoSession] \in KillType(DOMAIN sessions)
        BY <3>3 DEF KillType, NoSession
      <4>. QED  BY <3>1, <4>1
    <3>4. client[c] \notin IdleType
      BY <2>3 DEF IdleType
    <3>. QED  BY <2>1, <3>2, <3>3, <3>4
  <2>. QED  BY <2>2, <2>3
<1>2. client' \in [Clients -> IdleType \union AskType \union KillType(DOMAIN sessions)]
  BY <1>1 DEF Shutdown
<1>3. TypeInv'
  BY <1>2 DEF Inv, TypeInv, Shutdown
<1>4. Safe'
  BY DEF Inv, Safe, Shutdown, Watched, FuseLit, Findable, WaitedFor, Running, Listed
<1>. QED  BY <1>3, <1>4 DEF Inv

LEMMA KillAllStartsInv ==
  ASSUME Inv, KillAllStarts
  PROVE  Inv'
<1>1. TypeInv'
  BY DEF Inv, TypeInv, KillAllStarts
<1>2. Safe'
  BY DEF Inv, Safe, KillAllStarts, Watched, FuseLit, Findable, WaitedFor, Running, Listed
<1>. QED  BY <1>1, <1>2 DEF Inv

LEMMA KillAllKillsInv ==
  ASSUME Inv, NEW n \in DOMAIN sessions, KillAllKills(n)
  PROVE  Inv'
<1>1. /\ sessions' \in Seq(SessionType)
      /\ DOMAIN sessions' = DOMAIN sessions
      /\ Safe'
  BY KillKeepsInv DEF Inv, KillAllKills
<1>2. TypeInv'
  BY <1>1 DEF Inv, TypeInv, KillAllKills
<1>. QED  BY <1>1, <1>2 DEF Inv

LEMMA ExitInv ==
  ASSUME Inv, Exit
  PROVE  Inv'
<1>1. sessions' = << >> /\ DOMAIN sessions' = {}
  BY DEF Exit
<1>2. TypeInv'
  BY <1>1, IdleIsClient DEF Inv, TypeInv, Exit, NoSession
<1>3. Safe'
  BY <1>1 DEF Safe
<1>. QED  BY <1>2, <1>3 DEF Inv

-----------------------------------------------------------------------------
LEMMA InvIsInductive == Inv /\ [Next]_vars => Inv'
<1> SUFFICES ASSUME Inv, [Next]_vars
             PROVE  Inv'
  OBVIOUS
<1>1. ASSUME NEW n \in DOMAIN sessions, Session(n)
      PROVE  Inv'
  BY <1>1, ProcessExitsInv, FuseBurnsInv, ReapInv, DrainedInv, KillAllKillsInv DEF Session
<1>2. ASSUME NEW c \in Clients, Request(c)
      PROVE  Inv'
  BY <1>2, LaunchInv, RequestKillInv, CreateExistingInv, CreateNewInv, GetSessionInv,
     KillSessionInv DEF Request
<1>3. CASE Cleanup
  BY <1>3, CleanupInv
<1>4. CASE Shutdown
  BY <1>4, ShutdownInv
<1>5. CASE KillAllStarts
  BY <1>5, KillAllStartsInv
<1>6. CASE Exit
  BY <1>6, ExitInv
<1>7. CASE UNCHANGED vars
  BY <1>7 DEF vars, Inv, TypeInv, Safe, Watched, FuseLit, Findable, WaitedFor, Running, Listed
<1>. QED
  BY <1>1, <1>2, <1>3, <1>4, <1>5, <1>6, <1>7 DEF Next

(* Every process of the daemon is that of an alive session its id finds,   *)
(* or a SIGKILL for it is on its way, for any number of sessions, clients, *)
(* ids and pids, and although a SIGKILL meant for a process that has been  *)
(* waited for may hit another (Create, Kill, waitLoop, cleanupLoop,        *)
(* KillAll).                                                               *)
THEOREM NoProcessIsForgotten == Spec => []NoForgottenProcess
<1>1. Inv => NoForgottenProcess
  BY DEF Inv, Safe, NoForgottenProcess, Watched, FuseLit, Findable
<1>. QED
  BY <1>1, InitInv, InvIsInductive, PTL DEF Spec

-----------------------------------------------------------------------------
(* A forced launch gets a newer session: why.  The alive session of an id  *)
(* is its newest; what a launch wants to be rid of is dead when it creates *)
(* again, whichever object the kill request found.                         *)

Newest(n) ==
  sessions[n].alive =>
    \A m \in DOMAIN sessions : sessions[m].id = sessions[n].id => m <= n

ListedUnderItsId == \A id \in Ids : listed[id] # NoSession => sessions[listed[id]].id = id

LaunchOK(c) ==
  /\ client[c].at = "idle" => client[c].fresh
  /\ client[c].at # "idle" /\ client[c].old # NoSession =>
       /\ client[c].old \in DOMAIN sessions
       /\ sessions[client[c].old].id = client[c].id
       /\ client[c].at = "create" => ~sessions[client[c].old].alive
       /\ client[c].at = "kill" => \/ client[c].target = client[c].old
                                   \/ ~sessions[client[c].old].alive

FreshInv == /\ \A n \in DOMAIN sessions : Newest(n)
            /\ ListedUnderItsId
            /\ \A c \in Clients : LaunchOK(c)

(* Objects never change their id nor come alive again. *)
Aged == /\ DOMAIN sessions' = DOMAIN sessions
        /\ \A m \in DOMAIN sessions : /\ sessions'[m].id = sessions[m].id
                                      /\ sessions'[m].alive => sessions[m].alive

(* Such a step, and forgetting objects, keeps all but what the clients     *)
(* that take part in it do.                                                *)
LEMMA AgedKeepsFresh ==
  ASSUME Inv, FreshInv, Aged,
         \A id \in Ids : listed'[id] \in {listed[id], NoSession}
  PROVE  /\ \A n \in DOMAIN sessions' : Newest(n)'
         /\ ListedUnderItsId'
         /\ \A c \in Clients : client'[c] = client[c] => LaunchOK(c)'
<1>1. \A n \in DOMAIN sessions' : Newest(n)'
  BY DEF FreshInv, Aged, Newest
<1>2. ListedUnderItsId'
  BY DEF Inv, TypeInv, FreshInv, Aged, ListedUnderItsId, NoSession
<1>3. \A c \in Clients : client'[c] = client[c] => LaunchOK(c)'
  BY DEF FreshInv, Aged, LaunchOK
<1>. QED  BY <1>1, <1>2, <1>3

LEMMA KillAges ==
  ASSUME Inv, NEW n \in DOMAIN sessions, sessions' = [sessions EXCEPT ![n] = Killed(@)]
  PROVE  Aged /\ ~sessions'[n].alive
<1>1. \A m \in DOMAIN sessions : sessions[m] \in SessionType
  BY DEF Inv, TypeInv
<1>2. /\ DOMAIN sessions' = DOMAIN sessions
      /\ \A m \in DOMAIN sessions :
           sessions'[m] = IF m = n THEN Killed(sessions[m]) ELSE sessions[m]
  BY DEF Inv, TypeInv
<1>. QED  BY <1>1, <1>2 DEF Aged, Killed, SessionType

LEMMA SessionAges ==
  ASSUME Inv, NEW n \in DOMAIN sessions, Session(n)
  PROVE  Aged /\ listed' = listed /\ client' = client
<1>1. \A m \in DOMAIN sessions : sessions[m] \in SessionType
  BY DEF Inv, TypeInv
<1>2. CASE ProcessExits(n)
  <2>1. /\ DOMAIN sessions' = DOMAIN sessions
        /\ \A m \in DOMAIN sessions :
             sessions'[m] = IF m = n THEN [sessions[m] EXCEPT !.running = FALSE] ELSE sessions[m]
    BY <1>2 DEF Inv, TypeInv, ProcessExits
  <2>. QED  BY <1>1, <1>2, <2>1 DEF Aged, ProcessExits, SessionType
<1>3. CASE FuseBurns(n)
  BY <1>1, <1>3 DEF Aged, FuseBurns, SessionType
<1>4. CASE Reap(n)
  <2>1. /\ DOMAIN sessions' = DOMAIN sessions
        /\ \A m \in DOMAIN sessions :
             sessions'[m] = IF m = n
                            THEN [sessions[m] EXCEPT !.loop = "draining"]
                            ELSE sessions[m]
    BY <1>4 DEF Inv, TypeInv, Reap
  <2>. QED  BY <1>1, <1>4, <2>1 DEF Aged, Reap, SessionType
<1>5. CASE Drained(n)
  <2>1. /\ DOMAIN sessions' = DOMAIN sessions
        /\ \A m \in DOMAIN sessions :
             sessions'[m] = IF m = n
                            THEN [sessions[m] EXCEPT !.loop = "done", !.alive = FALSE]
                            ELSE sessions[m]
    BY <1>5 DEF Inv, TypeInv, Drained
  <2>. QED  BY <1>1, <1>5, <2>1 DEF Aged, Drained, SessionType
<1>6. CASE KillAllKills(n)
  BY <1>6, KillAges DEF KillAllKills
<1>. QED  BY <1>2, <1>3, <1>4, <1>5, <1>6 DEF Session

(* A step of one client that leaves the objects alone. *)
LEMMA ClientStepFresh ==
  ASSUME Inv, FreshInv, NEW c \in Clients, NEW r,
         client' = [client EXCEPT ![c] = r], UNCHANGED <<sessions, listed>>, LaunchOK(c)'
  PROVE  FreshInv'
<1>1. Aged /\ \A id \in Ids : listed'[id] \in {listed[id], NoSession}
  BY DEF Aged
<1>2. \A d \in Clients : d # c => client'[d] = client[d]
  BY DEF Inv, TypeInv
<1>. QED  BY <1>1, <1>2, AgedKeepsFresh DEF FreshInv

(* A request that begins carries no old object, one that fails is over.    *)
LEMMA AskingIsOK ==
  ASSUME Inv, NEW c \in Clients, NEW r, client' = [client EXCEPT ![c] = r],
         \/ r = Idle
         \/ r.at # "idle" /\ r.old = NoSession
  PROVE  LaunchOK(c)'
<1>1. client'[c] = r
  BY DEF Inv, TypeInv
<1>2. Idle.at = "idle" /\ Idle.fresh
  BY DEF Idle
<1>. QED  BY <1>1, <1>2 DEF LaunchOK

LEMMA LaunchFresh ==
  ASSUME Inv, FreshInv, NEW c \in Clients, NEW id \in Ids, NEW force \in BOOLEAN,
         Launch(c, id, force) \/ RequestKill(c, id)
  PROVE  FreshInv'
<1>1. CASE Launch(c, id, force)
  BY <1>1, AskingIsOK, ClientStepFresh DEF Launch
<1>2. CASE RequestKill(c, id)
  BY <1>2, AskingIsOK, ClientStepFresh DEF RequestKill
<1>. QED  BY <1>1, <1>2

(* The session found is not the one that was to go: that one is dead.      *)
LEMMA CreateExistingFresh ==
  ASSUME Inv, FreshInv, NEW c \in Clients, CreateExisting(c)
  PROVE  FreshInv'
<1>. DEFINE n == listed[client[c].id]
            old == client[c].old
<1>1. client[c] \in AskType
  BY AskingClient DEF Inv, CreateExisting
<1>2. client[c].id \in Ids /\ old \in Nat /\ client[c].at = "create"
  BY <1>1 DEF AskType, CreateExisting
<1>3. n # NoSession /\ n \in DOMAIN sessions /\ n \in Nat /\ sessions[n].alive
  BY <1>2 DEF CreateExisting, Inv, TypeInv
<1>4. sessions[n].id = client[c].id
  BY <1>2, <1>3 DEF FreshInv, ListedUnderItsId
<1>5. n > old
  <2>1. CASE old = NoSession
    BY <1>3, <2>1 DEF NoSession
  <2>2. CASE old # NoSession
    <3>1. /\ old \in DOMAIN sessions
          /\ sessions[old].id = client[c].id
          /\ ~sessions[old].alive
      BY <1>2, <2>2 DEF FreshInv, LaunchOK
    <3>2. old <= n
      BY <1>3, <1>4, <3>1 DEF FreshInv, Newest
    <3>. QED  BY <1>2, <1>3, <3>1, <3>2
  <2>. QED  BY <2>1, <2>2
<1>6. CASE client[c].force /\ old = NoSession
  <2>. DEFINE r == [client[c] EXCEPT !.at = "get", !.old = n]
  <2>1. client' = [client EXCEPT ![c] = r]
    BY <1>6 DEF CreateExisting, Answered
  <2>2. r.at = "get" /\ r.old = n /\ r.id = client[c].id
    BY <1>1 DEF AskType
  <2>3. client'[c] = r /\ sessions' = sessions /\ listed' = listed
    BY <2>1 DEF Inv, TypeInv, CreateExisting
  <2>4. LaunchOK(c)'
    BY <1>3, <1>4, <2>2, <2>3 DEF LaunchOK
  <2>. HIDE DEF r
  <2>. QED  BY <2>1, <2>3, <2>4, ClientStepFresh
<1>7. CASE ~(client[c].force /\ old = NoSession)
  <2>. DEFINE r == [at |-> "idle", fresh |-> n > old]
  <2>1. client' = [client EXCEPT ![c] = r]
    BY <1>7 DEF CreateExisting, Answered
  <2>2. client'[c] = r /\ sessions' = sessions /\ listed' = listed
    BY <2>1 DEF Inv, TypeInv, CreateExisting
  <2>3. LaunchOK(c)'
    <3>1. r = Idle
      <4>1. (n > old) = TRUE
        BY <1>5
      <4>. QED  BY <4>1, Zenon DEF Idle
    <3>. QED  BY <2>1, <3>1, AskingIsOK
  <2>. HIDE DEF r
  <2>. QED  BY <2>1, <2>2, <2>3, ClientStepFresh
<1>. QED  BY <1>6, <1>7

(* The kill request finds the old session if that is alive.                *)
LEMMA GetSessionFresh ==
  ASSUME Inv, FreshInv, NEW c \in Clients, GetSession(c)
  PROVE  FreshInv'
<1>. DEFINE n == listed[client[c].id]
            old == client[c].old
<1>1. client[c] \in AskType /\ client[c].at = "get"
  BY AskingClient DEF Inv, GetSession
<1>2. CASE n = NoSession
  <2>1. client' = [client EXCEPT ![c] = Idle] /\ UNCHANGED <<sessions, listed>>
    BY <1>2 DEF GetSession, GiveUp
  <2>. QED  BY <2>1, AskingIsOK, ClientStepFresh
<1>3. CASE n # NoSession
  <2>. DEFINE r == [at |-> "kill", id |-> client[c].id, force |-> client[c].force,
                    old |-> old, target |-> n]
  <2>1. client' = [client EXCEPT ![c] = r] /\ UNCHANGED <<sessions, listed>>
    BY <1>3 DEF GetSession
  <2>2. client'[c] = r
    BY <2>1 DEF Inv, TypeInv
  <2>3. ASSUME old # NoSession
        PROVE  /\ old \in DOMAIN sessions
               /\ sessions[old].id = client[c].id
               /\ n = old \/ ~sessions[old].alive
    <3>1. old \in DOMAIN sessions /\ sessions[old].id = client[c].id
      BY <1>1, <2>3 DEF FreshInv, LaunchOK
    <3>2. sessions[old].alive => listed[sessions[old].id] = old
      BY <3>1 DEF Inv, Safe, Findable, Listed
    <3>. QED  BY <3>1, <3>2
  <2>4. LaunchOK(c)'
    <3>1. /\ client'[c].at = "kill"
          /\ client'[c].old = old
          /\ client'[c].id = client[c].id
          /\ client'[c].target = n
      BY <2>2
    <3>2. sessions' = sessions
      BY <2>1
    <3>. QED  BY <2>3, <3>1, <3>2 DEF LaunchOK
  <2>. HIDE DEF r
  <2>. QED  BY <2>1, <2>4, ClientStepFresh
<1>. QED  BY <1>2, <1>3

(* Whatever object the request kills, the old one is dead then.            *)
LEMMA KillSessionFresh ==
  ASSUME Inv, FreshInv, NEW c \in Clients, KillSession(c)
  PROVE  FreshInv'
<1>. DEFINE n == client[c].target
            old == client[c].old
<1>1. client[c] \in KillType(DOMAIN sessions) /\ client[c].at = "kill"
  BY KillingClient DEF Inv, KillSession
<1>2. n \in DOMAIN sessions
  BY <1>1 DEF KillType
<1>3. Aged /\ ~sessions'[n].alive /\ listed' = listed
  BY <1>2, KillAges DEF KillSession
<1>4. ASSUME old # NoSession
      PROVE  /\ old \in DOMAIN sessions'
             /\ sessions'[old].id = client[c].id
             /\ ~sessions'[old].alive
  BY <1>1, <1>3, <1>4 DEF FreshInv, LaunchOK, Aged
<1>5. LaunchOK(c)'
  <2>1. CASE old # NoSession
    <3>. DEFINE r == [at |-> "create", id |-> client[c].id, force |-> client[c].force,
                      old |-> old]
    <3>1. client' = [client EXCEPT ![c] = r]
      BY <2>1 DEF KillSession
    <3>2. client'[c] = r
      BY <3>1 DEF Inv, TypeInv
    <3>3. /\ client'[c].at = "create"
          /\ client'[c].old = old
          /\ client'[c].id = client[c].id
      BY <3>2
    <3>. QED  BY <1>4, <2>1, <3>3 DEF LaunchOK
  <2>2. CASE old = NoSession
    <3>1. client' = [client EXCEPT ![c] = Idle]
      BY <2>2 DEF KillSession, GiveUp
    <3>. QED  BY <3>1, AskingIsOK
  <2>. QED  BY <2>1, <2>2
<1>6. \A d \in Clients : d # c => client'[d] = client[d]
  <2>1. \E r : client' = [client EXCEPT ![c] = r]
    BY DEF KillSession, GiveUp
  <2>. QED  BY <2>1 DEF Inv, TypeInv
<1>. QED  BY <1>3, <1>5, <1>6, AgedKeepsFresh DEF FreshInv

(* A new object is newer than all, and the others of its id are dead.      *)
LEMMA CreateNewFresh ==
  ASSUME Inv, FreshInv, NEW c \in Clients, CreateNew(c)
  PROVE  FreshInv'
<1>. DEFINE id == client[c].id
            n == Len(sessions) + 1
<1>1. client[c] \in AskType /\ id \in Ids /\ client[c].at = "create"
  <2>1. client[c] \in AskType
    BY AskingClient DEF Inv, CreateNew
  <2>. QED  BY <2>1 DEF AskType, CreateNew
<1>2. CASE GiveUp(c) /\ UNCHANGED <<sessions, listed>>
  BY <1>2, AskingIsOK, ClientStepFresh DEF GiveUp
<1>3. ASSUME NEW pid \in FreePids,
             sessions' = Append(sessions, NewSession(id, pid)),
             listed' = [listed EXCEPT ![id] = n],
             Answered(c, n, FALSE)
      PROVE  FreshInv'
  <2>1. NewSession(id, pid) \in SessionType
    BY <1>1, <1>3 DEF NewSession, SessionType, FreePids, NoPid
  <2>2. sessions \in Seq(SessionType) /\ n \in Nat
    BY DEF Inv, TypeInv
  <2>3. /\ DOMAIN sessions' = DOMAIN sessions \union {n}
        /\ \A m \in DOMAIN sessions : sessions'[m] = sessions[m] /\ m \in Nat /\ m < n
        /\ sessions'[n] = NewSession(id, pid)
    BY <1>3, <2>1, <2>2
  <2>4. sessions'[n].id = id
    BY <2>3 DEF NewSession
  <2>5. ASSUME NEW m \in DOMAIN sessions, sessions[m].alive
        PROVE  sessions[m].id # id
    <3>1. listed[sessions[m].id] = m
      BY <2>5 DEF Inv, Safe, Findable, Listed
    <3>2. listed[id] # NoSession => ~sessions[listed[id]].alive
      BY DEF CreateNew
    <3>3. m # NoSession
      BY <2>2 DEF NoSession
    <3>. QED  BY <2>5, <3>1, <3>2, <3>3
  <2>6. ASSUME NEW m \in DOMAIN sessions'
        PROVE  Newest(m)'
    BY <2>3, <2>4, <2>5, <2>6 DEF FreshInv, Newest
  <2>7. ListedUnderItsId'
    BY <1>1, <1>3, <2>3, <2>4 DEF Inv, TypeInv, FreshInv, ListedUnderItsId
  <2>8. client' = [client EXCEPT ![c] = [at |-> "idle", fresh |-> n > client[c].old]]
    BY <1>3 DEF Answered
  <2>9. LaunchOK(c)'
    <3>1. client[c].old # NoSession => client[c].old \in DOMAIN sessions
      BY <1>1 DEF FreshInv, LaunchOK
    <3>2. n > client[c].old
      BY <2>2, <2>3, <3>1 DEF NoSession
    <3>3. [at |-> "idle", fresh |-> n > client[c].old] = Idle
      <4>1. (n > client[c].old) = TRUE
        BY <3>2
      <4>. QED  BY <4>1, Zenon DEF Idle
    <3>. QED  BY <2>8, <3>3, AskingIsOK
  <2>10. ASSUME NEW d \in Clients, d # c
         PROVE  LaunchOK(d)'
    <3>1. client'[d] = client[d]
      BY <2>8, <2>10 DEF Inv, TypeInv
    <3>. QED  BY <2>3, <3>1 DEF FreshInv, LaunchOK
  <2>. QED  BY <2>6, <2>7, <2>9, <2>10 DEF FreshInv
<1>. QED  BY <1>2, <1>3 DEF CreateNew

(* A launch that the shutdown breaks off carries no old object any more.   *)
LEMMA ShutdownFresh ==
  ASSUME Inv, FreshInv, Shutdown
  PROVE  FreshInv'
<1>1. Aged /\ listed' = listed
  BY DEF Shutdown, Aged
<1>2. ASSUME NEW c \in Clients
      PROVE  LaunchOK(c)'
  <2>1. CASE client[c].at = "idle"
    <3>1. client'[c] = client[c]
      BY <2>1 DEF Shutdown
    <3>. QED  BY <1>1, <3>1, AgedKeepsFresh
  <2>2. CASE client[c].at # "idle"
    <3>1. client'[c] = [client[c] EXCEPT !.force = FALSE, !.old = NoSession]
      BY <2>2 DEF Shutdown
    <3>2. client[c] \in AskType \union KillType(DOMAIN sessions)
      BY <2>2 DEF Inv, TypeInv, IdleType
    <3>3. client'[c].at = client[c].at /\ client'[c].old = NoSession
      BY <3>1, <3>2 DEF AskType, KillType
    <3>. QED  BY <2>2, <3>3 DEF LaunchOK
  <2>. QED  BY <2>1, <2>2
<1>. QED  BY <1>1, <1>2, AgedKeepsFresh DEF FreshInv

LEMMA FreshIsInductive == Inv /\ FreshInv /\ [Next]_vars => FreshInv'
<1> SUFFICES ASSUME Inv, FreshInv, [Next]_vars
             PROVE  FreshInv'
  OBVIOUS
<1>1. ASSUME Aged, client' = client, \A id \in Ids : listed'[id] \in {listed[id], NoSession}
      PROVE  FreshInv'
  BY <1>1, AgedKeepsFresh DEF FreshInv
<1>2. ASSUME NEW n \in DOMAIN sessions, Session(n)
      PROVE  FreshInv'
  BY <1>1, <1>2, SessionAges
<1>3. ASSUME NEW c \in Clients, Request(c)
      PROVE  FreshInv'
  BY <1>3, LaunchFresh, CreateExistingFresh, CreateNewFresh, GetSessionFresh,
     KillSessionFresh DEF Request
<1>4. CASE Cleanup
  BY <1>1, <1>4 DEF Cleanup, Aged
<1>5. CASE Shutdown
  BY <1>5, ShutdownFresh
<1>6. CASE KillAllStarts
  BY <1>1, <1>6 DEF KillAllStarts, Aged
<1>7. CASE Exit
  <2>1. sessions' = << >> /\ DOMAIN sessions' = {}
    BY <1>7 DEF Exit
  <2>2. \A c \in Clients : client'[c].at = "idle" /\ client'[c].fresh
    BY <1>7 DEF Exit, Idle
  <2>3. \A id \in Ids : listed'[id] = NoSession
    BY <1>7 DEF Exit
  <2>. QED  BY <2>1, <2>2, <2>3 DEF FreshInv, ListedUnderItsId, LaunchOK, NoSession
<1>8. CASE UNCHANGED vars
  BY <1>1, <1>8 DEF vars, Aged
<1>. QED
  BY <1>2, <1>3, <1>4, <1>5, <1>6, <1>7, <1>8 DEF Next

LEMMA InitFresh == Init => FreshInv
<1> SUFFICES ASSUME Init
             PROVE  FreshInv
  OBVIOUS
<1>1. DOMAIN sessions = {}
  BY DEF Init
<1>2. \A c \in Clients : client[c].at = "idle" /\ client[c].fresh
  BY DEF Init, Idle
<1>. QED  BY <1>1, <1>2 DEF Init, FreshInv, ListedUnderItsId, LaunchOK

(* A launch that asked for a new shell never comes back with the session   *)
(* it found or an older one, whatever other launches and kills of the same *)
(* id, exits and cleanups come in between (launch, Create, Kill).          *)
THEOREM ForcedShellsAreFresh == Spec => []ForcedShellIsFresh
<1>1. FreshInv => ForcedShellIsFresh
  BY DEF FreshInv, LaunchOK, ForcedShellIsFresh
<1>. QED
  BY <1>1, InitInv, InvIsInductive, InitFresh, FreshIsInductive, PTL DEF Spec

=============================================================================

--------------------------- MODULE RuntimeRegistry ---------------------------
(***************************************************************************)
(* yoloitd's registry of terminal sessions, the processes behind them and  *)
(* the requests that create and kill them.                                 *)
(*                                                                         *)
(* A session is an object with a process, a goroutine that waits for it    *)
(* (waitLoop) and, once killed, a goroutine that sends SIGKILL to its pid  *)
(* two seconds later (the fuse).  The registry maps a session id to the    *)
(* newest object of that id; older ones live on until their goroutines     *)
(* end.  Create runs under the registry's lock; a kill request finds the   *)
(* object first and kills it later.  A session's output is OutputPump's    *)
(* and EventStream's: here draining is one step.                           *)
(*                                                                         *)
(* A process may exit at any time and may ignore SIGTERM: the signal is no *)
(* step.  The kernel may give the pid of a reaped process to a new one,    *)
(* while the object of the old one still has it.                           *)
(***************************************************************************)
EXTENDS Naturals, Sequences

CONSTANTS Ids,          \* session ids the app uses
          Clients,      \* launches and kills under way in the app
          Pids,         \* process ids
          MaxSessions   \* bound on the session objects

ASSUME RegistryBoundsAreNat == MaxSessions \in Nat

ASSUME PidsArePositive == Pids \subseteq Nat \ {0}

VARIABLES sessions,  \* the session objects, in the order of their creation
          listed,    \* Server.sessions: id -> object, 0 for none
          client,    \* what each client is doing
          daemon,    \* "serving", "closing", "killing" (KillAll) or "gone"
          doomed     \* the objects KillAll still has to kill

vars == <<sessions, listed, client, daemon, doomed>>

NoSession == 0
NoPid == 0    \* of a fuse that is not lit
Idle == [at |-> "idle", fresh |-> TRUE]

Init == /\ sessions = << >>
        /\ listed = [id \in Ids |-> NoSession]
        /\ client = [c \in Clients |-> Idle]
        /\ daemon = "serving"
        /\ doomed = {}

Running(n) == sessions[n].running
Listed(n) == listed[sessions[n].id] = n
FuseLit(n) == sessions[n].fuse # NoPid /\ sessions[n].fuse = sessions[n].pid

(* Create's and the kill request's handlers run on while the server closes *)
(* and main kills the sessions; new requests are refused.                  *)
Up == daemon # "gone"
Serving == daemon = "serving"

-----------------------------------------------------------------------------
(* Sessions and their processes *)

(* session.New: a process, with a pid nobody has, and its waitLoop.        *)
NewSession(id, pid) ==
  [id |-> id, pid |-> pid, running |-> TRUE, alive |-> TRUE,
   loop |-> "waiting", fuse |-> NoPid]

(* A pid is taken until its process has been waited for. *)
Unreaped == {n \in DOMAIN sessions : sessions[n].loop = "waiting"}
FreePids == Pids \ {sessions[n].pid : n \in Unreaped}

(* Faulty variant: SIGTERM only.                                           *)
KilledPolitely(s) == IF s.alive THEN [s EXCEPT !.alive = FALSE] ELSE s

(* Faulty variant: alive is left to waitLoop.                              *)
KilledLater(s) == IF s.alive THEN [s EXCEPT !.fuse = s.pid] ELSE s

(* Session.Kill: at once not alive, whatever its process does.  SIGKILL    *)
(* will go to its pid even if the process has been waited for.             *)
Killed(s) == IF s.alive THEN [s EXCEPT !.alive = FALSE, !.fuse = s.pid] ELSE s

ProcessExits(n) ==
  /\ Running(n)
  /\ sessions' = [sessions EXCEPT ![n].running = FALSE]
  /\ UNCHANGED <<listed, client, daemon, doomed>>

(* SIGKILL goes to the pid, whoever has it by now. *)
FuseBurns(n) ==
  /\ Up
  /\ sessions[n].fuse # NoPid
  /\ sessions' = [m \in DOMAIN sessions |->
       [sessions[m] EXCEPT !.fuse = IF m = n THEN NoPid ELSE @,
                           !.running = @ /\ sessions[m].pid # sessions[n].fuse]]
  /\ UNCHANGED <<listed, client, daemon, doomed>>

(* cmd.Wait: the kernel may hand the pid out again, the object keeps it.   *)
Reap(n) ==
  /\ Up
  /\ ~Running(n) /\ sessions[n].loop = "waiting"
  /\ sessions' = [sessions EXCEPT ![n].loop = "draining"]
  /\ UNCHANGED <<listed, client, daemon, doomed>>

(* Faulty variant: the session stays alive.                                *)
DrainedOnly(n) ==
  /\ Up
  /\ sessions[n].loop = "draining"
  /\ sessions' = [sessions EXCEPT ![n].loop = "done"]
  /\ UNCHANGED <<listed, client, daemon, doomed>>

(* readLoop has ended: the session is not alive and its exit is published. *)
Drained(n) ==
  /\ Up
  /\ sessions[n].loop = "draining"
  /\ sessions' = [sessions EXCEPT ![n] = [@ EXCEPT !.loop = "done", !.alive = FALSE]]
  /\ UNCHANGED <<listed, client, daemon, doomed>>

(* One tick of cleanupLoop. *)
Cleanup ==
  /\ Up
  /\ \E id \in Ids : listed[id] # NoSession /\ ~sessions[listed[id]].alive
  /\ listed' = [id \in Ids |-> IF listed[id] # NoSession /\ sessions[listed[id]].alive
                               THEN listed[id] ELSE NoSession]
  /\ UNCHANGED <<sessions, client, daemon, doomed>>

-----------------------------------------------------------------------------
(* The app: RuntimeTerminalBackend.launch, kill *)

Launch(c, id, force) ==
  /\ Serving
  /\ client[c].at = "idle"
  /\ Len(sessions) < MaxSessions
  /\ client' = [client EXCEPT ![c] = [at |-> "create", id |-> id, force |-> force,
                                      old |-> NoSession]]
  /\ UNCHANGED <<sessions, listed, daemon, doomed>>

RequestKill(c, id) ==
  /\ Serving
  /\ client[c].at = "idle"
  /\ client' = [client EXCEPT ![c] = [at |-> "get", id |-> id, force |-> FALSE,
                                      old |-> NoSession]]
  /\ UNCHANGED <<sessions, listed, daemon, doomed>>

(* The request fails or the PTY cannot be started: the launch throws.      *)
GiveUp(c) == client' = [client EXCEPT ![c] = Idle]

(* What launch does with the session it got: a session that was there is   *)
(* killed first when a new shell was asked for, once.                      *)
Answered(c, n, existing) ==
  IF existing /\ client[c].force /\ client[c].old = NoSession
  THEN client' = [client EXCEPT ![c].at = "get", ![c].old = n]
  ELSE client' = [client EXCEPT ![c] = [at |-> "idle", fresh |-> n > @.old]]

(* Server.Create returns the session of that id if it is alive ...         *)
CreateExisting(c) ==
  /\ Up /\ client[c].at = "create"
  /\ LET n == listed[client[c].id]
     IN n # NoSession /\ sessions[n].alive /\ Answered(c, n, TRUE)
  /\ UNCHANGED <<sessions, listed, daemon, doomed>>

(* ... and starts one in its place otherwise.                              *)
CreateNew(c) ==
  /\ Up /\ client[c].at = "create"
  /\ LET id == client[c].id
         n == Len(sessions) + 1
     IN /\ listed[id] # NoSession => ~sessions[listed[id]].alive
        /\ \/ /\ n <= MaxSessions
              /\ \E pid \in FreePids : sessions' = Append(sessions, NewSession(id, pid))
              /\ listed' = [listed EXCEPT ![id] = n]
              /\ Answered(c, n, FALSE)
           \/ GiveUp(c) /\ UNCHANGED <<sessions, listed>>
  /\ UNCHANGED <<daemon, doomed>>

(* killSession: Get, or 404 ... *)
GetSession(c) ==
  /\ Up /\ client[c].at = "get"
  /\ LET n == listed[client[c].id]
     IN IF n = NoSession THEN GiveUp(c)
        ELSE client' = [client EXCEPT ![c] = [at |-> "kill", id |-> @.id, force |-> @.force,
                                              old |-> @.old, target |-> n]]
  /\ UNCHANGED <<sessions, listed, daemon, doomed>>

(* ... then Kill, on the object found; a launch goes on to create again.   *)
KillSession(c) ==
  /\ Up /\ client[c].at = "kill"
  /\ sessions' = [sessions EXCEPT ![client[c].target] = Killed(@)]
  /\ IF client[c].old # NoSession
     THEN client' = [client EXCEPT ![c] = [at |-> "create", id |-> @.id, force |-> @.force,
                                           old |-> @.old]]
     ELSE GiveUp(c)
  /\ UNCHANGED <<listed, daemon, doomed>>

-----------------------------------------------------------------------------
(* main *)

(* SIGTERM or SIGINT: the listener and the connections are closed.  A      *)
(* launch throws; the handler of the request it had sent runs on.          *)
Shutdown ==
  /\ Serving
  /\ daemon' = "closing"
  /\ client' = [c \in Clients |->
       IF client[c].at = "idle" THEN client[c]
       ELSE [client[c] EXCEPT !.force = FALSE, !.old = NoSession]]
  /\ UNCHANGED <<sessions, listed, doomed>>

(* KillAll's copy of the sessions. *)
KillAllStarts ==
  /\ daemon = "closing"
  /\ daemon' = "killing"
  /\ doomed' = {listed[id] : id \in Ids} \ {NoSession}
  /\ UNCHANGED <<sessions, listed, client>>

KillAllKills(n) ==
  /\ n \in doomed
  /\ doomed' = doomed \ {n}
  /\ sessions' = [sessions EXCEPT ![n] = Killed(@)]
  /\ UNCHANGED <<listed, client, daemon>>

(* main returns: the objects, their goroutines, lit fuses and the requests *)
(* are gone with it; a process that ignored SIGTERM lives on unwatched.    *)
Exit ==
  /\ daemon = "killing" /\ doomed = {}
  /\ daemon' = "gone"
  /\ sessions' = << >>
  /\ listed' = [id \in Ids |-> NoSession]
  /\ client' = [c \in Clients |-> Idle]
  /\ UNCHANGED doomed

-----------------------------------------------------------------------------
Session(n) == ProcessExits(n) \/ FuseBurns(n) \/ Reap(n) \/ Drained(n) \/ KillAllKills(n)

Request(c) == \/ \E id \in Ids : RequestKill(c, id) \/ \E force \in BOOLEAN : Launch(c, id, force)
              \/ CreateExisting(c) \/ CreateNew(c) \/ GetSession(c) \/ KillSession(c)

Next == \/ \E n \in DOMAIN sessions : Session(n)
        \/ \E c \in Clients : Request(c)
        \/ Cleanup \/ Shutdown \/ KillAllStarts \/ Exit

(* The goroutines of a session run, its reader ends (OutputPump and        *)
(* EventStream show why), timers fire and the ticker ticks.  Nothing makes *)
(* a process exit, a client ask or the daemon shut down.                   *)
Goroutine(n) == n \in DOMAIN sessions /\ (FuseBurns(n) \/ Reap(n) \/ Drained(n))

Fairness == /\ \A n \in 1 .. MaxSessions : WF_vars(Goroutine(n))
            /\ WF_vars(Cleanup)

Spec == Init /\ [][Next]_vars /\ Fairness

-----------------------------------------------------------------------------
(* While the daemon runs no process is forgotten: each is that of an alive *)
(* session in the registry, where it can be listed and killed, or a lit    *)
(* fuse will kill it.  An alive session is always the one its id finds, so *)
(* that no id has two.  (Create, Kill, cleanupLoop and waitLoop in any     *)
(* order.)                                                                 *)
NoForgottenProcess ==
  Up => \A n \in DOMAIN sessions :
          /\ Running(n) => sessions[n].alive \/ FuseLit(n)
          /\ sessions[n].alive => Listed(n)

(* A launch that found a session and asked for a new shell gets another    *)
(* session, and a newer one, although the old process may still run, other *)
(* launches use the same id, and the registry may have been cleaned in     *)
(* between (launch with forceNewShell, Kill, Create).                      *)
ForcedShellIsFresh ==
  \A c \in Clients : client[c].at = "idle" => client[c].fresh

Ending(n) == ~sessions[n].alive \/ ~Running(n)
Ended(n) == ~Running(n) /\ ~Listed(n)

(* Sessions that were killed, or whose process has exited, all end: the    *)
(* processes are dead and the registry has let go of them, unless the      *)
(* daemon exits (Kill and its SIGKILL, waitLoop, cleanupLoop).             *)
SessionsEnd ==
  (\E n \in DOMAIN sessions : Ending(n) /\ ~Ended(n))
    ~> (~Up \/ \A n \in DOMAIN sessions : Ending(n) => Ended(n))

=============================================================================

------------------------------ MODULE HubStore ------------------------------
(***************************************************************************)
(* The board store of yoloit-hub and the HTTP handlers that use it.        *)
(*                                                                         *)
(* A request is two critical sections of the store's lock.  In the first   *)
(* it reads the board it names (FindBoard); then it reads its body, which  *)
(* takes as long as the client likes; in the second it loads the boards    *)
(* again, changes them and saves them.  What a request carries from the    *)
(* first section to the second may be stale.                               *)
(*                                                                         *)
(* A save is several system calls: boards.json.tmp is written, boards.json *)
(* removed, the new file renamed into place, active_board written and the  *)
(* history event appended.  Any of them may fail, and the hub may die      *)
(* before any of them.                                                     *)
(*                                                                         *)
(* The contents of panels, links and groups are left out, and so are names *)
(* (a request's board or panel is the one its name resolved to).  A client *)
(* that gives a new panel an id already in use is left out: panels are a   *)
(* set.  Undo, redo and the history files are PanelHistory's.              *)
(***************************************************************************)
EXTENDS Integers, SequencesExt, Lists

CONSTANTS Clients,     \* concurrent HTTP requests
          Panels,      \* panel ids
          OldBoards,   \* what an earlier hub may have left in boards.json
          OldId,       \* the last id an earlier hub has handed out
          MaxId,       \* bound on ids: every request takes one
          MaxFaults    \* bound on crashes and failing system calls

ASSUME StoreBoundsAreNat == {OldId, MaxId, MaxFaults} \subseteq Nat

(* An earlier hub has given each of its boards an id of its own.           *)
ASSUME OldBoardsAssumption ==
  LET Maps  == UNION {[ids -> SUBSET Panels] : ids \in SUBSET (1 .. OldId)}
      Board == [id : 1 .. OldId, revision : Nat, archived : BOOLEAN,
                panels : SUBSET Panels, links : Maps, groups : Maps]
  IN \A boards \in OldBoards :
       /\ boards \in Seq(Board)
       /\ \A j, k \in DOMAIN boards : boards[j].id = boards[k].id => j = k

VARIABLES disk,      \* the files present: boards, tmp, active
          hub,       \* "down", "starting" (in Init) or "up"
          saving,    \* the save of the lock's holder, or NoSave
          pending,   \* per client: NoRequest, or its request between the sections
          lastId,    \* nextID's clock
          kept,      \* boards whose save has reached boards.json, not to be deleted
          deleted,   \* boards whose deletion has reached the disk
          faults     \* crashes and failed calls so far

vars == <<disk, hub, saving, pending, lastId, kept, deleted, faults>>

NoSave == [at |-> "none"]
NoRequest == [op |-> "none"]
Startup == "init"     \* the lock's holder in Store.Init
NoActive == 0         \* activeBoardIDLocked's empty string
RemoveActive == -1    \* saveBoardsLocked's nil

ASSUME StartupIsNoClient == Startup \notin Clients

Boards == IF "boards" \in DOMAIN disk THEN disk.boards ELSE << >>
ActiveId == IF "active" \in DOMAIN disk THEN disk.active ELSE NoActive
BoardIds(boards) == {boards[k].id : k \in DOMAIN boards}

(* Link ids map to the two ends of the link, group ids to the members.     *)
NewBoard(id) == [id |-> id, revision |-> 0, archived |-> FALSE,
                 panels |-> {}, links |-> << >>, groups |-> << >>]

Init == /\ \E boards \in OldBoards :
             disk = IF boards = << >> THEN << >>
                    ELSE [boards |-> boards, active |-> boards[1].id]
        /\ hub = "down"
        /\ saving = NoSave
        /\ pending = [c \in Clients |-> NoRequest]
        /\ lastId = OldId
        /\ kept = BoardIds(Boards)
        /\ deleted = {}
        /\ faults = 0

-----------------------------------------------------------------------------
(* Saving: by holds the lock until the last step. *)

Unlocked == saving = NoSave

(* Faulty variant: the old file goes before the new one is written.        *)
SaveInPlace(by, boards, active, event) ==
  saving' = [at |-> "remove", by |-> by, boards |-> boards, active |-> active,
             event |-> event]

Save(by, boards, active, event) ==
  saving' = [at |-> "tmp", by |-> by, boards |-> boards, active |-> active,
             event |-> event]

(* f with f[x] = v; f without x.                                           *)
With(f, x, v) == [y \in DOMAIN f \union {x} |-> IF y = x THEN v ELSE f[y]]
Without(f, x) == [y \in DOMAIN f \ {x} |-> f[y]]

WriteTmp ==
  /\ saving.at = "tmp"
  /\ disk' = With(disk, "tmp", [whole |-> TRUE, boards |-> saving.boards])
  /\ saving' = [saving EXCEPT !.at = "remove"]
  /\ UNCHANGED <<hub, pending, lastId, kept, deleted, faults>>

RemoveOld ==
  /\ saving.at = "remove"
  /\ disk' = Without(disk, "boards")
  /\ saving' = [saving EXCEPT !.at = "rename"]
  /\ UNCHANGED <<hub, pending, lastId, kept, deleted, faults>>

RenameTmp ==
  /\ saving.at = "rename"
  /\ disk' = With(Without(disk, "tmp"), "boards", saving.boards)
  /\ saving' = [saving EXCEPT !.at = "active"]
  /\ deleted' = deleted \union
       IF saving.by # Startup /\ pending[saving.by].op = "delete"
       THEN {pending[saving.by].seen.id} ELSE {}
  /\ kept' = kept \union BoardIds(saving.boards)
  /\ UNCHANGED <<hub, pending, lastId, faults>>

(* The lock is released and the request answered; Init lets main listen.   *)
Release ==
  /\ saving' = NoSave
  /\ IF saving.by = Startup
     THEN hub' = "up" /\ UNCHANGED pending
     ELSE pending' = [pending EXCEPT ![saving.by] = NoRequest] /\ UNCHANGED hub

WriteActive ==
  /\ saving.at = "active"
  /\ disk' = IF saving.active = RemoveActive THEN Without(disk, "active")
             ELSE With(disk, "active", saving.active)
  /\ IF saving.event THEN saving' = [saving EXCEPT !.at = "event"] /\ UNCHANGED <<hub, pending>>
     ELSE Release
  /\ UNCHANGED <<lastId, kept, deleted, faults>>

AppendHistory ==
  /\ saving.at = "event"
  /\ Release
  /\ UNCHANGED <<disk, lastId, kept, deleted, faults>>

(* A call that is cut short may leave the file it writes without contents. *)
CutShort ==
  {disk} \union
  CASE saving.at = "tmp" -> {With(disk, "tmp", [whole |-> FALSE, boards |-> << >>])}
    [] saving.at = "active" /\ saving.active # RemoveActive -> {With(disk, "active", NoActive)}
    [] OTHER -> {}

(* A call fails: the request is answered with 500; main gives up if it was *)
(* Init's.                                                                 *)
Fail ==
  /\ ~Unlocked /\ faults < MaxFaults
  /\ disk' \in CutShort
  /\ saving' = NoSave
  /\ IF saving.by = Startup
     THEN hub' = "down" /\ UNCHANGED pending
     ELSE pending' = [pending EXCEPT ![saving.by] = NoRequest] /\ UNCHANGED hub
  /\ faults' = faults + 1
  /\ UNCHANGED <<lastId, kept, deleted>>

Crash ==
  /\ hub # "down" /\ faults < MaxFaults
  /\ disk' \in CutShort
  /\ hub' = "down"
  /\ saving' = NoSave
  /\ pending' = [c \in Clients |-> NoRequest]
  /\ faults' = faults + 1
  /\ UNCHANGED <<lastId, kept, deleted>>

(* main and Store.Init: a hub that finds no boards saves a default one.    *)
Start ==
  /\ hub = "down"
  /\ IF Boards = << >>
     THEN /\ lastId' = lastId + 1
          /\ hub' = "starting"
          /\ Save(Startup, <<NewBoard(lastId')>>, lastId', FALSE)
     ELSE hub' = "up" /\ UNCHANGED <<lastId, saving>>
  /\ UNCHANGED <<disk, pending, kept, deleted, faults>>

-----------------------------------------------------------------------------
(* The first section: what may be asked of the board seen.                 *)

(* PUT of a board.  A snapshot may name the revision it was made from      *)
(* (expectedRevision, or else the one in its metadata): it is refused with *)
(* 409 if that is not the seen board's.  Metadata may be older than the    *)
(* board, or invented; without a revision they set it to 0.  A snapshot    *)
(* with a panel that does not parse is answered by 500 and saved as if it  *)
(* had only its metadata.                                                  *)
BoardBodies(seen) ==
  LET metadata == {<< >>} \union
                  {[metadata |-> [revision |-> r, groups |-> g, archived |-> seen.archived]] :
                      r \in 0 .. seen.revision, g \in {<< >>, seen.groups}}
      snapshot == {<< >>} \union [links : {<< >>}, named : BOOLEAN]
                  \union [panels : {{}, Panels}, links : {<< >>}, named : BOOLEAN]
  IN {body \in {m @@ s : m \in metadata, s \in snapshot} :
        {"metadata", "named"} \subseteq DOMAIN body =>
          body.named \/ body.metadata.revision = 0}

(* A snapshot with the revision the board had when the request read it.    *)
NamesRevision(q) == q.op = "put" /\ "named" \in DOMAIN q.body /\ q.body.named

(* The list of groups a group request will write: it is made from the list *)
(* seen, in the handler, and written as a whole.                           *)
GroupLists(seen, id) ==
  {With(seen.groups, id, members) : members \in SUBSET seen.panels}
  \union UNION {{Without(seen.groups, g), seen.groups}
                \union {[seen.groups EXCEPT ![g] = @ \union {p}] : p \in seen.panels}
                \union {[seen.groups EXCEPT ![g] = @ \ {p}] : p \in seen.panels}
                : g \in DOMAIN seen.groups}

Requests(seen, id) ==
  [op : {"delete"}, seen : {seen}]
  \union [op : {"archive"}, seen : {seen}, archived : BOOLEAN]
  \union [op : {"put"}, seen : {seen}, body : BoardBodies(seen)]
  \union [op : {"groups"}, seen : {seen}, groups : GroupLists(seen, id)]
  \union [op : {"link"}, seen : {seen}, id : {id},
          ends : {{p, q} : p, q \in seen.panels}]
  \union [op : {"unlink"}, seen : {seen}, id : DOMAIN seen.links]
  \union [op : {"add"}, seen : {seen}, panel : Panels \ seen.panels]
  \union [op : {"edit", "remove"}, seen : {seen}, panel : seen.panels]
  \union [op : {"touch"}, seen : {seen}]   \* restyle a link, move a group's panels

FindBoard(c) ==
  /\ hub = "up" /\ Unlocked
  /\ pending[c] = NoRequest
  /\ lastId < MaxId
  /\ lastId' = lastId + 1
  /\ \E seen \in ToSet(Boards) : \E request \in Requests(seen, lastId') :
       pending' = [pending EXCEPT ![c] = request]
  /\ UNCHANGED <<disk, hub, saving, kept, deleted, faults>>

-----------------------------------------------------------------------------
(* The second section. *)

CreateBoard(c) ==
  /\ hub = "up" /\ Unlocked
  /\ pending[c] = NoRequest
  /\ lastId < MaxId
  /\ lastId' = lastId + 1
  /\ pending' = [pending EXCEPT ![c] = [op |-> "create"]]
  /\ Save(c, Append(Boards, NewBoard(lastId')), lastId', FALSE)
  /\ UNCHANGED <<disk, hub, kept, deleted, faults>>

(* Faulty variant: the active board is left as it is.                      *)
DeleteBoardOnly(c) ==
  /\ Unlocked /\ pending[c].op = "delete"
  /\ Save(c, Sublist(Boards, {k \in DOMAIN Boards : Boards[k].id # pending[c].seen.id}),
          ActiveId, FALSE)
  /\ kept' = kept \ {pending[c].seen.id}
  /\ UNCHANGED <<disk, hub, pending, lastId, deleted, faults>>

DeleteBoard(c) ==
  /\ Unlocked /\ pending[c].op = "delete"
  /\ LET id == pending[c].seen.id
         left == Sublist(Boards, {k \in DOMAIN Boards : Boards[k].id # id})
         active == IF ActiveId # id THEN ActiveId
                   ELSE IF left = << >> THEN RemoveActive ELSE left[1].id
     IN Save(c, left, active, FALSE) /\ kept' = kept \ {id}
  /\ UNCHANGED <<disk, hub, pending, lastId, deleted, faults>>

(* applySnapshotBody: what is given replaces the board's. *)
ApplyBody(body, board) ==
  LET described == IF "metadata" \in DOMAIN body
                   THEN [board EXCEPT !.revision = body.metadata.revision,
                                      !.groups = body.metadata.groups,
                                      !.archived = body.metadata.archived]
                   ELSE board
  IN [described EXCEPT !.panels = IF "panels" \in DOMAIN body THEN body.panels ELSE @,
                       !.links = IF "links" \in DOMAIN body THEN body.links ELSE @]

(* Its links go with it; groups keep its id.                               *)
RemovePanel(board, p) ==
  [board EXCEPT !.panels = @ \ {p},
                !.links = Restrict(@, {l \in DOMAIN @ : p \notin @[l]})]

(* The handlers' mutate functions. *)
Mutate(q, board) ==
  CASE q.op = "archive" -> [board EXCEPT !.archived = q.archived]
    [] q.op = "put" -> ApplyBody(q.body, board)
    [] q.op = "groups" -> [board EXCEPT !.groups = q.groups]
    [] q.op = "link" -> [board EXCEPT !.links = With(@, q.id, q.ends)]
    [] q.op = "unlink" -> [board EXCEPT !.links = Without(@, q.id)]
    [] q.op = "add" -> [board EXCEPT !.panels = @ \union {q.panel}]
    [] q.op = "remove" -> RemovePanel(board, q.panel)
    [] OTHER -> board

(* Whether an event is made: the handler asks for one and the board's JSON *)
(* differs, if not in what the model shows of it.                          *)
Recorded(q, board) ==
  LET asked  == q.op \in {"put", "add", "edit", "remove"}
      shown  == q.op = "add" \/ Mutate(q, board) # board
      hidden == q.op = "put" \/ (q.op = "edit" /\ q.panel \in board.panels)
  IN {recorded \in BOOLEAN : /\ recorded => asked /\ (shown \/ hidden)
                             /\ asked /\ shown => recorded}

(* Faulty variant: the board is made from the one seen.                    *)
UpdatedFromSeen(q, board, recorded) ==
  [Mutate(q, q.seen) EXCEPT !.revision = IF recorded THEN board.revision + 1 ELSE @]

(* Faulty variant: the revision is set before the board is changed.        *)
UpdatedAfterwards(q, board, recorded) ==
  Mutate(q, IF recorded THEN [board EXCEPT !.revision = @ + 1] ELSE board)

Updated(q, board, recorded) ==
  [Mutate(q, board) EXCEPT !.revision = IF recorded THEN board.revision + 1 ELSE @]

(* updateBoardLocked: nothing is saved when the board is gone. *)
UpdateBoard(c) ==
  LET q == pending[c]
      found == {k \in DOMAIN Boards : Boards[k].id = q.seen.id}
      first == Min(found)
  IN /\ Unlocked /\ q.op \notin {"none", "create", "delete"}
     /\ IF found = {}
        THEN pending' = [pending EXCEPT ![c] = NoRequest] /\ UNCHANGED saving
        ELSE /\ \E recorded \in Recorded(q, Boards[first]) :
                  Save(c, [Boards EXCEPT ![first] = Updated(q, @, recorded)],
                       IF ActiveId = NoActive THEN q.seen.id ELSE ActiveId, recorded)
             /\ UNCHANGED pending
     /\ UNCHANGED <<disk, hub, lastId, kept, deleted, faults>>

-----------------------------------------------------------------------------
Done == /\ hub = "up" /\ Unlocked /\ lastId >= MaxId
        /\ \A c \in Clients : pending[c] = NoRequest
        /\ UNCHANGED vars

SaveStep == WriteTmp \/ RemoveOld \/ RenameTmp \/ WriteActive \/ AppendHistory

Next == \/ Start \/ SaveStep \/ Fail \/ Crash
        \/ \E c \in Clients : FindBoard(c) \/ CreateBoard(c) \/ DeleteBoard(c) \/ UpdateBoard(c)
        \/ Done

Spec == Init /\ [][Next]_vars

-----------------------------------------------------------------------------
(* While no call fails, one of the boards is active, and none when there   *)
(* are none: through creations, deletions of the active board by one       *)
(* client and updates of it by another (saveBoardsLocked and its callers). *)
ActiveNamesBoard ==
  hub = "up" /\ Unlocked /\ faults = 0 =>
    IF Boards = << >> THEN ActiveId = NoActive ELSE ActiveId \in BoardIds(Boards)

(* A deleted board never comes back, whatever requests were under way for  *)
(* it, and a board's revision never falls, whatever metadata a client puts *)
(* on it and whatever fails (updateBoardLocked).                           *)
BoardsOnlyGoForward ==
  /\ BoardIds(Boards) \intersect deleted = {}
  /\ ~Unlocked => \A old \in ToSet(Boards), new \in ToSet(saving.boards) :
                    new.id = old.id => new.revision >= old.revision

(* The part of the board that a PUT replaces.                              *)
Replaces(q, part) == q.op = "put" /\ part \in DOMAIN q.body

(* A save takes nothing away that its request did not say: other boards    *)
(* are as they are on disk now, not as the request saw them; so are the    *)
(* panels, links and groups of its own board, those added since it was     *)
(* read included.  A request about groups says what all the groups are,    *)
(* metadata do too, and a snapshot says what all the panels and links are: *)
(* each of these takes away what was added to its own part meanwhile, a    *)
(* snapshot even if it named the revision it was made from                 *)
(* (RevisionIsChecked), and only from that part.                           *)
WorkOfOthersIsKept ==
  saving.at \in {"tmp", "remove"} /\ saving.by # Startup =>
    LET q == pending[saving.by]
    IN \A old \in ToSet(Boards) :
         \/ q.op = "delete" /\ old.id = q.seen.id
         \/ old \in ToSet(saving.boards)
         \/ /\ q.op \notin {"create", "delete"} /\ old.id = q.seen.id
            /\ \E new \in ToSet(saving.boards) :
                 /\ new.id = old.id
                 /\ q.op = "groups" \/ Replaces(q, "metadata") \/ new.groups = old.groups
                 /\ \A p \in old.panels \ new.panels :
                      Replaces(q, "panels") \/ (q.op = "remove" /\ p = q.panel)
                 /\ \A l \in DOMAIN old.links \ DOMAIN new.links :
                      \/ Replaces(q, "links")
                      \/ q.op = "unlink" /\ l = q.id
                      \/ q.op = "remove" /\ q.panel \in old.links[l]

(* "Optimistic concurrency: expectedRevision -> 409" (docs/remote-hub.md): *)
(* a snapshot that names a revision is not saved over a newer one.  It is, *)
(* when the board changed after handlePutBoard's check.                    *)
RevisionIsChecked ==
  saving.at = "tmp" /\ saving.by # Startup =>
    LET q == pending[saving.by]
    IN NamesRevision(q) =>
         \A old \in ToSet(Boards) : old.id = q.seen.id => old.revision <= q.seen.revision

(* The boards in boards.json, or in boards.json.tmp when that is missing.  *)
OnDisk ==
  IF "boards" \in DOMAIN disk THEN BoardIds(disk.boards)
  ELSE IF "tmp" \in DOMAIN disk /\ disk.tmp.whole THEN BoardIds(disk.tmp.boards)
  ELSE {}

(* No step takes a board off the disk that was saved and that nobody has   *)
(* asked to delete: it stays whole in boards.json or in boards.json.tmp    *)
(* through every call of a save, failing calls, crashes and restarts, and  *)
(* whatever stale requests save (writeJSONAtomic and its callers).  But    *)
(* for one case: the next save after one that ended between the removal    *)
(* and the renaming, the default board's of the restart included, finds no *)
(* boards.json and writes over boards.json.tmp (SavesAreAtomic).           *)
CopyOnDisk ==
  [][\/ kept \intersect OnDisk \subseteq OnDisk'
     \/ saving.at = "tmp" /\ "boards" \notin DOMAIN disk]_vars

(* boards.json is written by an "atomic rewrite" (store.go): whatever call *)
(* fails or wherever the hub dies, it still has the boards saved before.   *)
(* It has not, when the removal is the last call that succeeds.            *)
SavesAreAtomic == hub = "up" /\ Unlocked => kept \subseteq BoardIds(Boards)

=============================================================================

---------------------------- MODULE PanelHistory ----------------------------
(***************************************************************************)
(* The panels of one board of yoloit-hub, the history of their changes,    *)
(* and undo and redo over that history (remote/yoloit-hub/store.go, with   *)
(* the callers in handlers_boards.go, handlers_panels.go and               *)
(* handlers_groups.go).  The Dart store has the same algorithm.            *)
(*                                                                         *)
(* Every operation runs under Store.mu, so it is one step; the disk may    *)
(* refuse it before boards.json is written ("unsaved") or between          *)
(* boards.json and the history event ("unlogged").  The hub may restart    *)
(* between two operations, which loses the redo stack.                     *)
(*                                                                         *)
(* Abstractions.  A panel has a title (standing for every field that is    *)
(* only edited), a horizontal position, which a group move also changes,   *)
(* and a zIndex.  Links, drawings and board metadata other than the        *)
(* revision are left out.  An operation id is the event's index.           *)
(***************************************************************************)
EXTENDS Integers, SequencesExt, Lists

CONSTANTS
  Ids,        \* ids nextID hands out
  Contents,   \* contents a client may give a panel
  NoPanel,    \* nil
  MaxX,       \* bound: positions a group move reaches
  MaxEvents,  \* bound: history events when a client may still edit
  MaxHistory, \* bound: history events
  MaxRedo,    \* bound: redo entries
  MaxUndos,   \* bound: undos in a row
  MaxFaults   \* bound: operations the disk refuses

Panels == [id : Ids, content : [title : Nat, x : 0 .. MaxX, zIndex : Nat]]

ASSUME HistoryAssumption ==
  /\ Contents \subseteq [title : Nat, x : 0 .. MaxX, zIndex : Nat]
  /\ NoPanel \notin Panels
  /\ MaxX \in Nat /\ MaxEvents \in Nat /\ MaxHistory \in Nat /\ MaxRedo \in Nat
  /\ MaxUndos \in Nat /\ MaxFaults \in Nat

VARIABLES
  panels,     \* the board's panel list
  revision,   \* metadata.historyRevision
  events,     \* the history in the order of (revision, opId)
  redo,       \* redoStacks[board]
  faults,     \* operations the disk has refused
  past,       \* history: what the last operation was and the board before it
  undone      \* history: events undone since the last edit, redo or restart

historyVars == <<panels, revision, events, redo, faults, past, undone>>

(* The last operation says nothing about the next.                        *)
Nothing == [op |-> "none", board |-> {}]

HistoryInit ==
  /\ panels = <<>>
  /\ revision = 0
  /\ events = <<>>
  /\ redo = <<>>
  /\ faults = 0
  /\ past = Nothing
  /\ undone = <<>>

-----------------------------------------------------------------------------
(* Lists of panels.                                                        *)

Panel(id, c) == [id |-> id, content |-> c]

Find(ps, id) ==
  LET at == {i \in DOMAIN ps : ps[i].id = id}
  IN  IF at = {} THEN NoPanel ELSE ps[Min(at)]

(* The loops over the list leave the last panel of that id in their        *)
(* variable.                                                               *)
FindLast(ps, id) ==
  LET at == {i \in DOMAIN ps : ps[i].id = id}
  IN  IF at = {} THEN NoPanel ELSE ps[Max(at)]

Without(ps, id) == Sublist(ps, {i \in DOMAIN ps : ps[i].id # id})

Replace(ps, q) == [i \in DOMAIN ps |-> IF ps[i].id = q.id THEN q ELSE ps[i]]

Put(ps, q) == IF Find(ps, q.id) = NoPanel THEN Append(ps, q) ELSE Replace(ps, q)

(* A panel added with zIndex 0 goes on top.                                *)
OnTop(ps, q) ==
  IF q.content.zIndex # 0 THEN q
  ELSE [q EXCEPT !.content.zIndex =
          1 + Max({0} \cup {p.content.zIndex : p \in ToSet(ps)})]

(* panelPatch: the fields that differ; its keys are patchSignature.        *)
Patch(p, q) == {f \in DOMAIN p.content : p.content[f] # q.content[f]}

(* matchesCreateUndo compares everything but the zIndex.                   *)
SameButZ(p, q) == Patch(p, q) \subseteq {"zIndex"}

-----------------------------------------------------------------------------
(* updateBoardLocked and appendHistoryLocked.                              *)

Event(type, id, before, after, patch) ==
  [type |-> type, id |-> id, rev |-> revision + 1,
   before |-> before, after |-> after, patch |-> patch]

(* makeEvent is nil.                                                       *)
NoEvent == [type |-> "none"]

Created(p) == Event("created", p.id, NoPanel, p, {})
Updated(p, q) == Event("updated", p.id, p, q, Patch(p, q))
Deleted(p) == Event("deleted", p.id, p, NoPanel, {})
Restored(p) == Event("restored", p.id, NoPanel, p, {})

Outcomes ==
  {"ok"} \cup {o \in {"unsaved", "unlogged"} : faults < MaxFaults}

(* An event is recorded only for a change.                                 *)
Recorded(next, ev) == ev # NoEvent /\ next # panels

(* Faulty variant: the revision counts operations, not events.             *)
CommitAlwaysBumps(next, ev, o) ==
  /\ o = "unlogged" => Recorded(next, ev)
  /\ IF o = "unsaved" THEN UNCHANGED <<panels, revision>>
     ELSE panels' = next /\ revision' = revision + 1
  /\ events' = IF o = "ok" /\ Recorded(next, ev) THEN Append(events, ev)
               ELSE events
  /\ faults' = IF o = "ok" THEN faults ELSE faults + 1

Commit(next, ev, o) ==
  /\ o = "unlogged" => Recorded(next, ev)
  /\ IF o = "unsaved" THEN UNCHANGED <<panels, revision>>
     ELSE /\ panels' = next
          /\ revision' = IF Recorded(next, ev) THEN revision + 1 ELSE revision
  /\ events' = IF o = "ok" /\ Recorded(next, ev) THEN Append(events, ev)
               ELSE events
  /\ faults' = IF o = "ok" THEN faults ELSE faults + 1

(* Faulty variant: a new edit leaves the redo stack alone.                 *)
EditKeepsRedo(op, next, ev, o) ==
  /\ Len(events) < MaxEvents
  /\ Commit(next, ev, o)
  /\ past' = IF op = "none" \/ events' = events THEN Nothing
             ELSE [op |-> op, board |-> ToSet(panels)]
  /\ undone' = <<>>
  /\ UNCHANGED redo

(* An operation that is not a replay: the redo stack is cleared before the *)
(* event is written.  One that is not saved changes nothing: no step.      *)
Edit(op, next, ev, o) ==
  /\ Len(events) < MaxEvents
  /\ Commit(next, ev, o)
  /\ redo' = IF Recorded(next, ev) THEN <<>> ELSE redo
  /\ past' = IF op = "none" \/ events' = events THEN Nothing
             ELSE [op |-> op, board |-> ToSet(panels)]
  /\ undone' = <<>>

-----------------------------------------------------------------------------
(* The operations of the clients.                                          *)

(* The id is new: nextID's, or one the client made up the same way.  A     *)
(* create gives no zIndex.                                                 *)
AddPanel(id, c, o) ==
  /\ Find(panels, id) = NoPanel
  /\ \A i \in DOMAIN events : events[i].id # id
  /\ LET p == OnTop(panels, Panel(id, [c EXCEPT !.zIndex = 0]))
     IN  Edit("edit", Append(panels, p), Created(p), o)

UpdatePanel(id, c, o) ==
  LET p == FindLast(panels, id)
      q == Panel(id, c)
  IN /\ p # NoPanel
     /\ Edit("edit", Replace(panels, q), Updated(p, q), o)

RemovePanel(id, o) ==
  LET p == FindLast(panels, id)
  IN /\ p # NoPanel
     /\ Edit("edit", Without(panels, id), Deleted(p), o)

(* snapshotPanelHistoryEvent: one event for the whole snapshot, about any  *)
(* panel that is new or changed, else any that is gone, and with an empty  *)
(* patch.                                                                  *)
SnapshotEvents(next) ==
  LET changed == {p \in ToSet(next) : Find(panels, p.id) # p}
      gone    == {p \in ToSet(panels) : Find(next, p.id) = NoPanel}
  IN  IF changed # {}
      THEN {IF Find(panels, p.id) = NoPanel THEN Created(p)
            ELSE Event("updated", p.id, Find(panels, p.id), p, {}) :
              p \in changed}
      ELSE {Deleted(p) : p \in gone}

(* PUT of the whole board.  Its panels are those of the board, some        *)
(* changed or left out, and possibly one more.                             *)
PutSnapshot(keep, id, c, o) ==
  LET kept == Sublist(panels, {i \in DOMAIN panels : panels[i].id \in keep})
      next == Put(kept, Panel(id, c))
  IN  \E ev \in SnapshotEvents(next) : Edit("none", next, ev, o)

(* A group move shifts panels without a history event.                     *)
MoveGroup(ids, dx, o) ==
  /\ \A i \in DOMAIN panels :
       panels[i].id \in ids => panels[i].content.x + dx \in 0 .. MaxX
  /\ Edit("none",
          [i \in DOMAIN panels |->
             IF panels[i].id \in ids
             THEN [panels[i] EXCEPT !.content.x = @ + dx] ELSE panels[i]],
          NoEvent, o)

-----------------------------------------------------------------------------
(* UndoLatestPanelHistory.                                                 *)

CanUndoCreate(e) ==
  LET current == Find(panels, e.id)
  IN  /\ e.after # NoPanel /\ e.before = NoPanel
      /\ current # NoPanel /\ SameButZ(current, e.after)

CanUndoUpdate(e) ==
  LET current == Find(panels, e.id)
  IN  e.before # NoPanel /\ current # NoPanel /\ current # e.before

CanUndoDelete(e) ==
  /\ e.before # NoPanel /\ Find(panels, e.id) = NoPanel
  /\ e.type = "deleted"

(* Events the scan stops at; events of an undo are skipped.                *)
Undoable ==
  {i \in DOMAIN events :
     /\ events[i].type # "restored"
     /\ \/ CanUndoCreate(events[i])
        \/ CanUndoUpdate(events[i])
        \/ CanUndoDelete(events[i])}

(* Faulty variant: a burst is any run of updates of one panel.             *)
BurstAnySignature(i) ==
  LET SameKind(k) == /\ events[k].type = events[i].type
                     /\ events[k].id = events[i].id
                     /\ events[k].rev + 1 = events[k + 1].rev
  IN  IF events[i].type # "updated" THEN i
      ELSE Min({j \in 1 .. i : \A k \in j .. i - 1 : SameKind(k)})

(* coalescedPanelUpdateStart: the first of a run of updates of one panel   *)
(* with the patch signature of event i and consecutive revisions.          *)
BurstStart(i) ==
  LET SameKind(k) == /\ events[k].type = events[i].type
                     /\ events[k].id = events[i].id
                     /\ events[k].patch = events[i].patch
                     /\ events[k].rev + 1 = events[k + 1].rev
  IN  IF events[i].type # "updated" THEN i
      ELSE Min({j \in 1 .. i : \A k \in j .. i - 1 : SameKind(k)})

(* One undo of event i: the redo entry is pushed before the board is saved.*)
Undo(i, next, ev, entries, o) ==
  /\ Commit(next, ev, o)
  /\ redo' = redo \o entries
  /\ past' = IF /\ o = "ok"
                /\ \/ Find(panels, events[i].id) = events[i].after
                   \/ CanUndoCreate(events[i])
             THEN [op |-> "undo", board |-> ToSet(panels)] ELSE Nothing
  /\ undone' = IF o = "ok" THEN Append(undone, i) ELSE <<>>

(* Whether the bounds leave room for an undo.                              *)
RoomToUndo ==
  Len(events) < MaxHistory /\ Len(undone) < MaxUndos /\ Len(redo) < MaxRedo

RedoEntry(kind, p) == [kind |-> kind, panel |-> p]

UndoCreate(o) ==
  /\ RoomToUndo /\ Undoable # {}
  /\ LET i == Max(Undoable)
         e == events[i]
     IN /\ CanUndoCreate(e)
        /\ Undo(i, Without(panels, e.id), NoEvent,
                <<RedoEntry("recreate", e.after)>>, o)

(* Faulty variant: an event without an after goes to the redo stack too.   *)
UndoUpdateUnchecked(o) ==
  /\ RoomToUndo /\ Undoable # {}
  /\ LET i == Max(Undoable)
         e == events[i]
         p == events[BurstStart(i)].before
     IN /\ CanUndoUpdate(e)
        /\ Undo(i, Put(panels, p), Restored(p),
                <<RedoEntry("restore", e.after)>>, o)

(* Faulty variant: redo would restore the event before the latest.         *)
UndoUpdateEntry(o) ==
  /\ RoomToUndo /\ Undoable # {}
  /\ LET i == Max(Undoable)
         e == events[i]
         p == events[BurstStart(i)].before
     IN /\ CanUndoUpdate(e)
        /\ Undo(i, Put(panels, p), Restored(p),
                <<RedoEntry("restore", e.before)>>, o)

UndoUpdate(o) ==
  /\ RoomToUndo /\ Undoable # {}
  /\ LET i == Max(Undoable)
         e == events[i]
         p == events[BurstStart(i)].before
     IN /\ CanUndoUpdate(e)
        /\ Undo(i, Put(panels, p), Restored(p),
                IF e.after = NoPanel THEN <<>>
                ELSE <<RedoEntry("restore", e.after)>>, o)

UndoDelete(o) ==
  /\ RoomToUndo /\ Undoable # {}
  /\ LET i == Max(Undoable)
         e == events[i]
     IN /\ CanUndoDelete(e)
        /\ Undo(i, Put(panels, e.before), Restored(e.before),
                <<RedoEntry("delete", e.before)>>, o)

-----------------------------------------------------------------------------
(* RedoLatestPanelHistory.                                                 *)

(* The entry is popped first; what it replays is recorded but does not     *)
(* clear the stack.                                                        *)
Redo(next, ev, o) ==
  /\ Len(events) < MaxHistory
  /\ Commit(next, ev, o)
  /\ redo' = Front(redo)
  /\ past' = IF o = "ok" THEN [op |-> "redo", board |-> {}] ELSE Nothing
  /\ undone' = <<>>

RedoRecreate(o) ==
  /\ redo # <<>>
  /\ Last(redo).kind = "recreate"
  /\ LET p == OnTop(panels, Last(redo).panel)
     IN  Redo(Append(panels, p), Created(p), o)

(* applyPanelSnapshotLocked: nothing to do, update, or add.                *)
RedoRestore(o) ==
  /\ redo # <<>>
  /\ Last(redo).kind = "restore"
  /\ LET q == Last(redo).panel
         p == FindLast(panels, q.id)
         r == OnTop(panels, q)
     IN  /\ p = q => o = "ok"
         /\ IF p # NoPanel THEN Redo(Replace(panels, q), Updated(p, q), o)
            ELSE Redo(Append(panels, r), Created(r), o)

RedoDelete(o) ==
  /\ redo # <<>>
  /\ Last(redo).kind = "delete"
  /\ LET id == Last(redo).panel.id
         p  == FindLast(panels, id)
     IN  Redo(Without(panels, id), Deleted(IF p = NoPanel THEN Last(redo).panel
                                           ELSE p), o)

(* The hub stops and starts again.                                         *)
Restart ==
  /\ redo' = <<>>
  /\ past' = Nothing
  /\ undone' = <<>>
  /\ UNCHANGED <<panels, revision, events, faults>>

-----------------------------------------------------------------------------
ClientEdit(o) ==
  \/ \E id \in Ids, c \in Contents : AddPanel(id, c, o) \/ UpdatePanel(id, c, o)
  \/ \E id \in Ids : RemovePanel(id, o)
  \/ \E keep \in SUBSET Ids, id \in Ids, c \in Contents :
       PutSnapshot(keep, id, c, o)
  \/ \E ids \in SUBSET Ids, dx \in {-1, 1} : MoveGroup(ids, dx, o)

UndoLatest(o) == UndoCreate(o) \/ UndoUpdate(o) \/ UndoDelete(o)

RedoLatest(o) == RedoRecreate(o) \/ RedoRestore(o) \/ RedoDelete(o)

HistoryNext ==
  \/ \E o \in Outcomes \ {"unsaved"} : ClientEdit(o)
  \/ \E o \in Outcomes : UndoLatest(o) \/ RedoLatest(o)
  \/ Restart

HistorySpec == HistoryInit /\ [][HistoryNext]_historyVars

-----------------------------------------------------------------------------
(* Properties.                                                             *)

(* The types of the store's data, and the bounds of the model: what the    *)
(* board holds are panels, never the nil an event may carry.               *)
HistoryTypeOK ==
  /\ panels \in Seq(Panels)
  /\ revision \in Nat
  /\ \A i \in DOMAIN events :
       /\ events[i].type \in {"created", "updated", "deleted", "restored"}
       /\ events[i].before \in Panels \cup {NoPanel}
       /\ events[i].after \in Panels \cup {NoPanel}
       /\ events[i].patch \subseteq {"title", "x", "zIndex"}
  /\ \A i \in DOMAIN redo :
       /\ redo[i].kind \in {"recreate", "restore", "delete"}
       /\ redo[i].panel \in Panels
  /\ faults \in 0 .. MaxFaults

(* Revisions order the history: they strictly grow, none is ahead of the   *)
(* board's own, and as long as the disk refuses nothing they are the       *)
(* numbers 1, 2, 3, ... that expectedRevision and the coalescing of bursts *)
(* (updateBoardLocked, coalescedPanelUpdateStart) count on.                *)
RevisionsOrdered ==
  /\ \A i, j \in DOMAIN events : i < j => events[i].rev < events[j].rev
  /\ \A i \in DOMAIN events : events[i].rev <= revision
  /\ faults = 0 => revision = Len(events)

(* As long as the disk refuses nothing, no sequence of edits, snapshots,   *)
(* undos, redos and restarts puts one panel on the board twice, although   *)
(* redo appends a recreated panel without looking (addPanelLocked).        *)
PanelIdsUnique ==
  faults = 0 =>
    \A i, j \in DOMAIN panels : panels[i].id = panels[j].id => i = j

Undid == undone' # undone /\ undone' # <<>>

Redid == past'.op = "redo"

(* Whether event n may be undone together with the one before it.          *)
InBurst(n) ==
  /\ n > 1
  /\ \A k \in {n - 1, n} : /\ events[k].type = "updated"
                            /\ events[k].id = events[n].id
                            /\ events[k].patch = events[n].patch

(* An undo right after an edit of one panel takes back that edit and no    *)
(* other: unless the edit may end a burst, the board has the panels it had *)
(* before it (the order of the list apart).  Undos and redos before the    *)
(* edit do not matter (UndoLatestPanelHistory).                            *)
UndoTakesBackLastEdit ==
  [][past.op = "edit" /\ Undid /\ faults = 0
       => /\ undone' = <<Len(events)>>
          /\ InBurst(Len(events)) \/ ToSet(panels') = past.board]_historyVars

(* Redo right after an undo brings back the board that the undo changed,   *)
(* a whole burst at once; a recreated panel may get another zIndex, the    *)
(* one its create ended with (RedoLatestPanelHistory).                     *)
RedoInvertsUndo ==
  [][past.op = "undo" /\ Redid /\ faults = 0
       => LET SameBoard(a, b) == \A p \in a : \E q \in b :
                                    p.id = q.id /\ SameButZ(p, q)
          IN  SameBoard(past.board, ToSet(panels'))
              /\ SameBoard(ToSet(panels'), past.board)]_historyVars

=============================================================================

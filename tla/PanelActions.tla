---------------------------- MODULE PanelActions ----------------------------
(***************************************************************************)
(* The panel actions of yoloit-hub: POST .../panels/{panel}/action.        *)
(*                                                                         *)
(* A request is two steps.  The handler reads the board, dispatches on the *)
(* panel's type and computes the whole next state from the panel it read   *)
(* (Request); then, under the store's lock, it overwrites the panel's      *)
(* state with what it computed (UpdatePanel), whatever other requests have *)
(* written in between.  Requests that fail, that only return data, or that *)
(* panic on an index past the end (net/http drops the connection) change   *)
(* nothing and are no steps.                                               *)
(*                                                                         *)
(* The panel's state is a JSON object: a function from the keys that are   *)
(* present.  An argument that selects an entry (an index, an id, a title)  *)
(* is the position it selects; texts, colours and dates are left out.      *)
(* Positions that the code stores (columnIndex, currentIndex) count from 0.*)
(***************************************************************************)
EXTENDS Integers, SequencesExt, Lists

CONSTANTS Clients,      \* concurrent HTTP requests
          PanelTypes,   \* the panel types explored
          Ids,          \* ids a client may give an entry; nextID's are fresh ones
          GivenTables,  \* the tables a client may "set": [columns, rows]
          MaxItems,     \* bound on every list
          MaxRequests   \* bound on the requests of a behaviour

ASSUME BoundsAreNat == MaxItems \in Nat /\ MaxRequests \in Nat

ColumnTypes == {"text", "number"}

(* A cell is the kind of its value.                                        *)
Cells == UNION {[ids -> ColumnTypes] : ids \in SUBSET Ids}

(* "set" looks at nothing but the number of columns: two of them may share *)
(* an id, and the rows need not fit them.                                  *)
ASSUME GivenTablesAssumption ==
  \A t \in GivenTables :
    /\ t.columns \in Seq([id : Ids, type : ColumnTypes])
    /\ t.rows \in Seq([id : Ids, by : {"set"}, cells : Cells])

VARIABLES ptype,     \* the panel's type
          state,     \* panel.State
          pending,   \* per client: Idle, or the result waiting to be stored
          requests   \* requests made so far

vars == <<ptype, state, pending, requests>>

Idle == [keys |-> {}]
NoKeys == << >>

Value(key, fallback) == IF key \in DOMAIN state THEN state[key] ELSE fallback

Places(list) == 0 .. Len(list) - 1
RoomIn(list) == Len(list) < MaxItems
Without(list, place) == RemoveAt(list, place + 1)
With(list, place, entry) == [list EXCEPT ![place + 1] = entry]
IndexOfId(list, id) == SelectInSeq(list, LAMBDA e : e.id = id) - 1
Kept(list, Keep(_)) == Sublist(list, {k \in DOMAIN list : Keep(list[k])})
WithoutId(list, id) == Kept(list, LAMBDA e : e.id # id)
DistinctIds(list) == \A j, k \in 1 .. Len(list) : list[j].id = list[k].id => j = k

(* A map with the entries of f, and those of g for the other keys.         *)
Over(f, g) == [key \in DOMAIN f \union DOMAIN g |->
                 IF key \in DOMAIN f THEN f[key] ELSE g[key]]
Entry(key, value) == [k \in {key} |-> value]

(* Kanban columns carry a key and cards the key of the column they were    *)
(* put into (0: none): what the user sees, not part of the JSON.  A board  *)
(* may come with cards filed by column name, see OldIndex.                 *)
InitialColumns == <<[name |-> "Todo", key |-> 1], [name |-> "Doing", key |-> 2],
                    [name |-> "Done", key |-> 3]>>

InitialStates(type) ==
  {NoKeys} \union
  IF type = "board.kanban"
  THEN {[columns |-> InitialColumns, cards |-> <<[id |-> 1, column |-> "Done"]>>]}
  ELSE {}

Init == /\ ptype \in PanelTypes
        /\ state \in InitialStates(ptype)
        /\ pending = [c \in Clients |-> Idle]
        /\ requests = 0

(* handlePanelAction up to UpdatePanel: the keys of stateUpdate replace    *)
(* those of the state read.                                                *)
Request(c, update) ==
  /\ pending[c] = Idle
  /\ requests < MaxRequests
  /\ pending' = [pending EXCEPT ![c] =
                   [keys |-> DOMAIN update, next |-> Over(update, state)]]
  /\ requests' = requests + 1
  /\ UNCHANGED <<ptype, state>>

(* Faulty variant: only the keys the action changed are written.           *)
StoreMerged(c) ==
  /\ pending[c] # Idle
  /\ state' = Over(Restrict(pending[c].next, pending[c].keys), state)
  /\ pending' = [pending EXCEPT ![c] = Idle]
  /\ UNCHANGED <<ptype, requests>>

(* UpdatePanel: the panel's state becomes the one computed. *)
Store(c) ==
  /\ pending[c] # Idle
  /\ state' = pending[c].next
  /\ pending' = [pending EXCEPT ![c] = Idle]
  /\ UNCHANGED <<ptype, requests>>

-----------------------------------------------------------------------------
(* Kanban *)

ColumnIndex(columns, name) ==
  SelectInSeq(columns, LAMBDA column : column.name = name) - 1

(* The column of a card, read after the column has been taken out: a       *)
(* position from before the removal, but a name looked up in what is left. *)
OldIndex(card, left) ==
  IF "columnIndex" \in DOMAIN card THEN card.columnIndex
                                   ELSE ColumnIndex(left, card.column)

(* Faulty variant: the cards behind the column removed are not moved.      *)
RemoveColumnOnly(columns, cards, i) ==
  LET left == Without(columns, i)
  IN [columns |-> left,
      cards |-> Kept(cards, LAMBDA card : OldIndex(card, left) # i)]

RemoveColumn(columns, cards, i) ==
  LET left == Without(columns, i)
      kept == Kept(cards, LAMBDA card : OldIndex(card, left) # i)
      moved(card) == LET old == OldIndex(card, left)
                     IN [id |-> card.id,
                         columnIndex |-> IF old > i THEN old - 1 ELSE old,
                         home |-> IF "home" \in DOMAIN card THEN card.home ELSE 0]
  IN [columns |-> left, cards |-> [k \in DOMAIN kept |-> moved(kept[k])]]

(* A column is given by a number, without an upper bound, or by its name. *)
KanbanAction(c) ==
  LET columns == Value("columns", InitialColumns)
      cards == Value("cards", << >>)
      targets == Places(columns) \union {Len(columns)}
      card(id, to) == [id |-> id, columnIndex |-> to,
                       home |-> IF to \in Places(columns) THEN columns[to + 1].key ELSE 0]
  IN \/ /\ Len(columns) <= MaxItems
        /\ Request(c, [columns |-> Append(columns, [name |-> "New", key |-> requests + 4])])
     \/ \E i \in Places(columns) :
          \/ Request(c, [columns |-> With(columns, i, [columns[i + 1] EXCEPT !.name = "Other"])])
          \/ Request(c, RemoveColumn(columns, cards, i))
     \/ \E id \in Ids, to \in targets :
          /\ RoomIn(cards)
          /\ Request(c, [cards |-> Append(cards, card(id, to))])
     \/ \E id \in Ids, to \in targets :
          LET k == IndexOfId(cards, id)
          IN k >= 0 /\ Request(c, [cards |-> With(cards, k, card(id, to))])
     \/ \E id \in Ids : Request(c, [cards |-> WithoutId(cards, id)])
     \/ cards # << >> /\ Request(c, [cards |-> cards])    \* update-card: its texts

(* Checklist *)
ChecklistAction(c) ==
  LET items == Value("items", << >>)
  IN \/ \E id \in Ids :
          /\ RoomIn(items)
          /\ Request(c, [items |-> Append(items, [id |-> id, done |-> FALSE])])
     \/ \E i \in Places(items) :
          \/ \E done \in BOOLEAN :
               Request(c, [items |-> With(items, i, [items[i + 1] EXCEPT !.done = done])])
          \/ Request(c, [items |-> Without(items, i)])
          \/ Request(c, [items |-> items])                       \* rename: its text

(* Playlist *)
Clamp(n, low, high) == IF n < low THEN low ELSE IF n > high THEN high ELSE n

PlaylistAction(c) ==
  LET tracks == Value("tracks", << >>)
      current == Value("currentIndex", 0)
      last == Len(tracks) - 1
      play(i) == [currentIndex |-> i, playing |-> TRUE]
  IN \/ /\ RoomIn(tracks)
        /\ Request(c, [tracks |-> Append(tracks, "track")])
     \/ \E i \in Places(tracks) :
          Request(c, [tracks |-> Without(tracks, i),
                                currentIndex |-> IF last = 0 THEN -1 ELSE 0])
     \/ /\ tracks # << >>
        /\ \/ \E i \in (-1 .. MaxItems) \union {current} :
                Request(c, play(Clamp(i, 0, last)))
           \/ Request(c, play((current + 1) % Len(tracks)))
           \/ Request(c, play(IF current > 0 THEN current - 1 ELSE last))
     \/ Request(c, [playing |-> FALSE])
     \/ Request(c, [playing |-> FALSE, currentIndex |-> 0])

(* Files: an entry goes when its id or its path matches; add gives both. *)
FilesAction(c) ==
  LET files == Value("files", << >>)
  IN \/ \E path \in Ids : Request(c, [selectedPath |-> path])
     \/ \E id, path \in Ids :
          /\ RoomIn(files)
          /\ Request(c, [files |-> Append(files, [id |-> id, path |-> path])])
     \/ \E id, path \in Ids \union {0} :  \* 0: the argument is missing
          Request(c, [files |-> Kept(files, LAMBDA f : f.id # id /\ f.path # path)])
     \/ Request(c, [files |-> << >>])

(* File tree *)
FileTreeAction(c) ==
  LET expanded == Value("expandedDirs", << >>)
  IN \E path \in Ids :
       \/ Request(c, [selectedFile |-> path])
       \/ Request(c, [expandedDirs |-> IF path \in ToSet(expanded) THEN expanded
                                                          ELSE Append(expanded, path)])
       \/ Request(c, [expandedDirs |-> Kept(expanded, LAMBDA e : e # path)])
       \/ Request(c, [rootPath |-> path, expandedDirs |-> << >>, selectedFile |-> 0])
       \/ Request(c, [refreshAt |-> "now"])

(* Setup guide; set-selected takes the client's list as it is. *)
SetupGuideAction(c) ==
  LET selected == Value("selectedPackageIds", << >>)
  IN \/ \E id \in Ids :
          \/ Request(c, [selectedPackageIds |-> IF id \in ToSet(selected) THEN selected
                                                                 ELSE Append(selected, id)])
          \/ Request(c, [selectedPackageIds |-> Kept(selected, LAMBDA e : e # id)])
     \/ \E ids \in BoundedSeq(Ids, MaxItems) :
          Request(c, [selectedPackageIds |-> ids])

(* Timer *)
DurationArg(n) == Clamp(n, 1, 86400)

TimerAction(c) ==
  LET own == Value("duration", 300)
      stopped == [isRunning |-> FALSE, isPaused |-> FALSE, completed |-> FALSE]
  IN \/ \E d \in {own, 0, 60, 100000} :
          LET to == [duration |-> DurationArg(d), remaining |-> DurationArg(d)]
          IN \/ Request(c, Over(to, stopped))                        \* set
             \/ Request(c, Over(to, [stopped EXCEPT !.isRunning = TRUE]))  \* start
     \/ Request(c, [isRunning |-> FALSE, isPaused |-> TRUE])
     \/ Request(c, [isRunning |-> TRUE, isPaused |-> FALSE])
     \/ Request(c, Over([remaining |-> DurationArg(own)], stopped))     \* reset

(* Chat; a configuration is the set of keys given so far. *)
ChatAction(c) ==
  LET messages == Value("messages", << >>)
  IN \/ /\ RoomIn(messages)
        /\ Request(c, [messages |-> Append(messages, "user"), configured |-> TRUE])
     \/ \E key \in Ids :
          Request(c, [config |-> Value("config", {}) \union {key}, configured |-> TRUE])
     \/ Request(c, [messages |-> << >>])

-----------------------------------------------------------------------------
(* Table.  Rows made by "set" are as the client wrote them; add-row names  *)
(* its row by the millisecond, so that two may share an id.  While columns *)
(* share an id (only "set" makes such), the cell of a new or updated row   *)
(* is that of the last of them, but remove-column takes the first and the  *)
(* cells of all: rows made then are told apart ("twin-row").               *)

DefaultCell(type) == type
Inputs == {"missing", "text", "number"}

(* A number stays, a text is parsed and is 0 when it does not parse. *)
CastCell(input, type) == IF input = "missing" THEN DefaultCell(type)
                         ELSE IF type = "number" THEN "number" ELSE "text"

ColumnIds(columns) == {columns[k].id : k \in DOMAIN columns}
TypeOf(columns, id) == columns[Max({k \in DOMAIN columns : columns[k].id = id})].type
EachRow(rows, F(_)) == [k \in DOMAIN rows |-> [rows[k] EXCEPT !.cells = F(@)]]

TableAction(c) ==
  LET columns == Value("columns", << >>)
      rows == Value("rows", << >>)
      ids == ColumnIds(columns)
  IN \/ \E t \in GivenTables : Request(c, [columns |-> t.columns, rows |-> t.rows])
     \/ Request(c, Over([tableId |-> "t"], state))
     \/ \E id \in Ids \ ids, type \in ColumnTypes :
          Request(c, [columns |-> Append(columns, [id |-> id, type |-> type]),
                      rows |-> EachRow(rows, LAMBDA r : Over(Entry(id, DefaultCell(type)), r))])
     \/ \E id \in ids :
          \/ Request(c, [columns |-> columns])                 \* rename-column: its title
          \/ Request(c, [columns |-> Without(columns, IndexOfId(columns, id)),
                         rows |-> EachRow(rows, LAMBDA r : Restrict(r, DOMAIN r \ {id}))])
     \/ \E ms \in Ids : \E input \in [ids -> Inputs] :
          /\ RoomIn(rows)
          /\ Request(c, [rows |-> Append(rows,
                 [id |-> ms, by |-> IF DistinctIds(columns) THEN "add-row" ELSE "twin-row",
                  cells |-> [id \in ids |-> CastCell(input[id], TypeOf(columns, id))]])])
     \/ \E r \in Ids, given \in SUBSET ids : \E input \in [given -> Inputs] :
          LET k == IndexOfId(rows, r)
              cast == [id \in given |-> CastCell(input[id], TypeOf(columns, id))]
          IN k >= 0 /\ Request(c, [rows |-> [rows EXCEPT ![k + 1].cells = Over(cast, @)]])
     \/ \E r \in Ids : Request(c, [rows |-> WithoutId(rows, r)])
     \/ Request(c, [rows |-> << >>])

(* Calendar; an event's id is from nextID and so never used before. *)
WithEvents(events) == [events |-> events, eventCount |-> Len(events)]

CalendarAction(c) ==
  LET events == Value("events", << >>)
  IN \/ /\ RoomIn(events)
        /\ \E allDay \in BOOLEAN :
             Request(c, WithEvents(Append(events, [id |-> requests, allDay |-> allDay])))
     \/ \E k \in Places(events) :
          \/ \E allDay \in BOOLEAN :
               Request(c, WithEvents(With(events, k, [events[k + 1] EXCEPT !.allDay = allDay])))
          \/ Request(c, WithEvents(WithoutId(events, events[k + 1].id)))
     \/ Request(c, WithEvents(events))                         \* delete of an unknown id
     \/ \E key \in {"view", "focusedDate", "scrollHour"} : Request(c, Over(Entry(key, "set"), state))

(* Chart; set-options can set the group key but, for want of an empty      *)
(* string (stringArg makes it nil), never clear it.                        *)
ChartAction(c) ==
  \/ \E key \in {"data", "type", "xKey", "yKey", "groupKey", "animated", "tablePanelId"} :
       Request(c, Over(Entry(key, "set"), state))
  \/ Request(c, Over([tablePanelId |-> "nil"], state))

-----------------------------------------------------------------------------
PanelAction(c) ==
  \/ ptype = "board.kanban" /\ KanbanAction(c)
  \/ ptype = "board.checklist" /\ ChecklistAction(c)
  \/ ptype = "board.playlist" /\ PlaylistAction(c)
  \/ ptype = "board.files" /\ FilesAction(c)
  \/ ptype = "board.filetree" /\ FileTreeAction(c)
  \/ ptype = "board.setup_guide" /\ SetupGuideAction(c)
  \/ ptype = "board.timer" /\ TimerAction(c)
  \/ ptype = "board.chat" /\ ChatAction(c)
  \/ ptype = "board.table" /\ TableAction(c)
  \/ ptype = "board.calendar" /\ CalendarAction(c)
  \/ ptype = "board.chart" /\ ChartAction(c)

Done == requests = MaxRequests /\ (\A c \in Clients : pending[c] = Idle) /\ UNCHANGED vars

Next == \/ \E c \in Clients : PanelAction(c) \/ Store(c)
        \/ Done

Spec == Init /\ [][Next]_vars

-----------------------------------------------------------------------------
(* A kanban card stays in the column its last add-card or move-card put it *)
(* into, through additions, renamings and removals of columns and through  *)
(* writes computed from an older state: the whole state is overwritten, so *)
(* positions and columns are always of one moment (handlePanelAction).     *)
CardsStayInTheirColumn ==
  ptype = "board.kanban" =>
    LET columns == Value("columns", InitialColumns)
        cards == Value("cards", << >>)
    IN \A k \in DOMAIN cards :
         "home" \in DOMAIN cards[k] /\ cards[k].home # 0 =>
           /\ cards[k].columnIndex \in Places(columns)
           /\ columns[cards[k].columnIndex + 1].key = cards[k].home

(* A row that add-row made while the columns had different ids has exactly *)
(* one cell per column, of the column's type, whatever columns have been   *)
(* added, removed or added again with another type since and whichever     *)
(* writes overtook each other.                                             *)
RowsFitColumns ==
  ptype = "board.table" =>
    LET columns == Value("columns", << >>)
        rows == Value("rows", << >>)
    IN \A k \in DOMAIN rows :
         rows[k].by = "add-row" =>
           rows[k].cells = [id \in ColumnIds(columns) |-> TypeOf(columns, id)]

(* What is stored beside a list agrees with it: the calendar's eventCount  *)
(* is the number of its events, whose ids differ; a playlist's cursor is   *)
(* on a track or on none (-1; 0 while there are no tracks); a directory is *)
(* expanded once; a timer is not running and paused at once.               *)
MarkersAgree ==
  LET events == Value("events", << >>)
      last == Len(Value("tracks", << >>)) - 1
  IN /\ Value("currentIndex", 0) \in -1 .. (IF last < 0 THEN 0 ELSE last)
     /\ Value("eventCount", 0) = Len(events)
     /\ DistinctIds(events)
     /\ IsInjective(Value("expandedDirs", << >>))
     /\ ~(Value("isRunning", FALSE) /\ Value("isPaused", FALSE))

=============================================================================

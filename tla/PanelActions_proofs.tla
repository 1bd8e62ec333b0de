------------------------ MODULE PanelActions_proofs ------------------------
(***************************************************************************)
(* What holds of a panel's state whatever the actions, however many        *)
(* clients send them and in whatever order their results are stored: the   *)
(* actions compute a state that fits from one that fits, and what is       *)
(* stored is the whole of such a state.                                    *)
(***************************************************************************)
EXTENDS PanelActions, Lists_proofs

-----------------------------------------------------------------------------
(* The inductive invariant: the panel's state and every result waiting to  *)
(* be stored fit, each by itself.                                          *)

At(st, key, fallback) == IF key \in DOMAIN st THEN st[key] ELSE fallback

CardIds == Ids \cup {1}
Column == [name : {"Todo", "Doing", "Done", "New", "Other"}, key : Nat]
Card == [id : CardIds, columnIndex : Int, home : Nat] \cup [id : CardIds, column : {"Done"}]

InPlace(columns, card) ==
  "home" \in DOMAIN card /\ card.home # 0 =>
    /\ card.columnIndex \in Places(columns)
    /\ columns[card.columnIndex + 1].key = card.home

CardsFit(columns, cards) ==
  /\ columns \in Seq(Column) /\ cards \in Seq(Card)
  /\ \A k \in 1 .. Len(cards) : InPlace(columns, cards[k])

TableColumn == [id : Ids, type : ColumnTypes]
Row == [id : Ids, by : {"set", "add-row", "twin-row"}, cells : Cells]

CellsFit(columns, cells) ==
  /\ DistinctIds(columns)
  /\ DOMAIN cells = ColumnIds(columns)
  /\ \A k \in 1 .. Len(columns) : cells[columns[k].id] = columns[k].type

RowsFit(columns, rows) ==
  /\ columns \in Seq(TableColumn) /\ rows \in Seq(Row)
  /\ \A k \in 1 .. Len(rows) : rows[k].by = "add-row" => CellsFit(columns, rows[k].cells)

(* nextID has given out the ids below n.                                   *)
CalEvent(n) == [id : 0 .. n - 1, allDay : BOOLEAN]

EventsFit(events, count, n) ==
  events \in Seq(CalEvent(n)) /\ DistinctIds(events) /\ count = Len(events)

TracksFit(tracks, current) ==
  /\ tracks \in Seq({"track"})
  /\ current \in -1 .. (IF tracks = <<>> THEN 0 ELSE Len(tracks) - 1)

DirsFit(dirs) ==
  /\ dirs \in Seq(Ids)
  /\ \A j, k \in 1 .. Len(dirs) : dirs[j] = dirs[k] => j = k

(* The keys MarkersAgree looks at, by the panels that have them.           *)
Marks == [currentIndex |-> "board.playlist", tracks |-> "board.playlist",
          events |-> "board.calendar", eventCount |-> "board.calendar",
          expandedDirs |-> "board.filetree",
          isRunning |-> "board.timer", isPaused |-> "board.timer"]

OwnFits(type, st, n) ==
  /\ type = "board.kanban" =>
       CardsFit(At(st, "columns", InitialColumns), At(st, "cards", <<>>))
  /\ type = "board.table" => RowsFit(At(st, "columns", <<>>), At(st, "rows", <<>>))
  /\ type = "board.calendar" => EventsFit(At(st, "events", <<>>), At(st, "eventCount", 0), n)
  /\ type = "board.playlist" => TracksFit(At(st, "tracks", <<>>), At(st, "currentIndex", 0))
  /\ type = "board.filetree" => DirsFit(At(st, "expandedDirs", <<>>))
  /\ type = "board.timer" =>
       At(st, "isRunning", FALSE) = FALSE \/ At(st, "isPaused", FALSE) = FALSE

Fits(type, st, n) ==
  /\ OwnFits(type, st, n)
  /\ \A key \in DOMAIN st \cap DOMAIN Marks : Marks[key] = type

AllFit ==
  /\ requests \in Nat /\ DOMAIN pending = Clients
  /\ Fits(ptype, state, requests)
  /\ \A c \in Clients : pending[c] # Idle => Fits(ptype, pending[c].next, requests)

-----------------------------------------------------------------------------
(* Lists and maps.                                                         *)

LEMMA OverFacts ==
  ASSUME NEW f, NEW g
  PROVE  /\ DOMAIN Over(f, g) = DOMAIN f \cup DOMAIN g
         /\ \A key \in DOMAIN f : Over(f, g)[key] = f[key]
         /\ \A key \in DOMAIN g \ DOMAIN f : Over(f, g)[key] = g[key]
  BY DEF Over

LEMMA OverAt ==
  ASSUME NEW f, NEW g, NEW key, NEW fallback
  PROVE  At(Over(f, g), key, fallback) = IF key \in DOMAIN f THEN f[key]
                                                             ELSE At(g, key, fallback)
  BY DEF Over, At

LEMMA MinFacts ==
  ASSUME NEW T \in SUBSET Nat, T # {}
  PROVE  Min(T) \in T
<1>1. PICK x \in T : \A y \in T : x <= y
  BY LeastNat
<1>. QED  BY <1>1 DEF Min

LEMMA IndexFacts ==
  ASSUME NEW S, NEW list \in Seq(S), NEW id
  PROVE  LET k == IndexOfId(list, id)
         IN /\ k \in Int /\ k >= -1 /\ k < Len(list)
            /\ k >= 0 => k + 1 \in 1 .. Len(list) /\ list[k + 1].id = id
            /\ (\E j \in 1 .. Len(list) : list[j].id = id) => k >= 0
<1>. DEFINE T == {j \in 1 .. Len(list) : list[j].id = id}
<1>1. IndexOfId(list, id) = (IF T # {} THEN Min(T) ELSE 0) - 1
  BY DEF IndexOfId, SelectInSeq
<1>2. T \in SUBSET Nat /\ Len(list) \in Nat
  OBVIOUS
<1>3. T # {} => Min(T) \in T
  BY <1>2, MinFacts
<1>. QED  BY <1>1, <1>2, <1>3

LEMMA ColumnIndexIsInt ==
  ASSUME NEW S, NEW columns \in Seq(S), NEW name
  PROVE  ColumnIndex(columns, name) \in Int
<1>. DEFINE T == {j \in 1 .. Len(columns) : columns[j].name = name}
<1>1. ColumnIndex(columns, name) = (IF T # {} THEN Min(T) ELSE 0) - 1
  BY DEF ColumnIndex, SelectInSeq
<1>2. T \in SUBSET Nat
  OBVIOUS
<1>3. T # {} => Min(T) \in T
  BY <1>2, MinFacts
<1>. QED  BY <1>1, <1>2, <1>3

LEMMA JoinAround ==
  ASSUME NEW S, NEW list \in Seq(S), NEW n \in Nat, n = Len(list), NEW i \in 0 .. n - 1,
         NEW a \in Seq(S), Len(a) = i, \A k \in 1 .. i : a[k] = list[k],
         NEW b \in Seq(S), Len(b) = n - i - 1, \A k \in 1 .. n - i - 1 : b[k] = list[k + i + 1]
  PROVE  /\ a \o b \in Seq(S) /\ Len(a \o b) = n - 1
         /\ \A k \in 1 .. n - 1 : (a \o b)[k] = IF k <= i THEN list[k] ELSE list[k + 1]
<1>1. PICK c : c = a \o b
  OBVIOUS
<1>2. /\ c \in Seq(S) /\ Len(c) = n - 1
      /\ \A k \in 1 .. i : c[k] = a[k]
      /\ \A k \in 1 .. n - i - 1 : c[i + k] = b[k]
  BY <1>1, ConcatFacts
<1>3. ASSUME NEW k \in 1 .. n - 1
      PROVE  c[k] = IF k <= i THEN list[k] ELSE list[k + 1]
  <2>1. CASE k <= i
    BY <1>2, <2>1
  <2>2. CASE k > i
    <3>1. k - i \in 1 .. n - i - 1 /\ i + (k - i) = k /\ (k - i) + i + 1 = k + 1
      BY <2>2
    <3>2. c[k] = b[k - i] /\ b[k - i] = list[k + 1]
      BY <1>2, <3>1
    <3>. QED  BY <2>2, <3>2
  <2>. QED  BY <2>1, <2>2
<1>. QED  BY <1>1, <1>2, <1>3

LEMMA WithoutFacts ==
  ASSUME NEW S, NEW list \in Seq(S), NEW i \in 0 .. Len(list) - 1
  PROVE  /\ Without(list, i) \in Seq(S) /\ Len(Without(list, i)) = Len(list) - 1
         /\ \A k \in 1 .. Len(list) - 1 :
              Without(list, i)[k] = IF k <= i THEN list[k] ELSE list[k + 1]
<1>1. PICK n \in Nat : n = Len(list)
  OBVIOUS
<1>2. PICK a, b : a = SubSeq(list, 1, i) /\ b = SubSeq(list, i + 2, n)
  OBVIOUS
<1>3. /\ a \in Seq(S) /\ Len(a) = i
      /\ \A k \in 1 .. i : a[k] = list[k]
  BY <1>2
<1>4. /\ b \in Seq(S) /\ Len(b) = n - i - 1
      /\ \A k \in 1 .. n - i - 1 : b[k] = list[k + i + 1]
  BY <1>1, <1>2
<1>5. Without(list, i) = a \o b
  <2>1. (i + 1) - 1 = i /\ (i + 1) + 1 = i + 2
    OBVIOUS
  <2>. QED  BY <1>1, <1>2, <2>1 DEF Without, RemoveAt
<1>. QED  BY <1>1, <1>3, <1>4, <1>5, JoinAround

LEMMA SublistDistinct ==
  ASSUME NEW S, NEW list \in Seq(S), NEW places, DistinctIds(list)
  PROVE  DistinctIds(Sublist(list, places))
<1>1. PICK part : part = Sublist(list, places)
  OBVIOUS
<1>2. PICK e : Shows(list, places, part, e)
  BY <1>1, SublistShows
<1>3. part \in Seq(S)
  BY <1>1, SublistType
<1>4. SUFFICES ASSUME NEW j \in 1 .. Len(part), NEW k \in 1 .. Len(part),
                      part[j].id = part[k].id
               PROVE  j = k
  BY <1>1 DEF DistinctIds
<1>5. /\ e[j] \in 1 .. Len(list) /\ e[k] \in 1 .. Len(list)
      /\ part[j] = list[e[j]] /\ part[k] = list[e[k]]
  BY <1>2 DEF Shows
<1>6. e[j] = e[k] /\ Len(part) \in Nat /\ Len(list) \in Nat
  BY <1>3, <1>4, <1>5 DEF DistinctIds
<1>7. (j < k => e[j] < e[k]) /\ (k < j => e[k] < e[j])
  BY <1>2 DEF Shows
<1>. QED  BY <1>5, <1>6, <1>7

-----------------------------------------------------------------------------
(* A request keeps the invariant if what it computed fits.                 *)

LEMMA FitsLater ==
  ASSUME NEW type, NEW st, NEW n \in Nat, Fits(type, st, n)
  PROVE  Fits(type, st, n + 1)
<1>1. CalEvent(n) \subseteq CalEvent(n + 1)
  BY DEF CalEvent
<1>2. \A events : events \in Seq(CalEvent(n)) => events \in Seq(CalEvent(n + 1))
  BY <1>1, SeqGrow
<1>. QED  BY <1>2 DEF Fits, OwnFits, EventsFit

LEMMA RequestKeeps ==
  ASSUME AllFit, NEW c \in Clients, NEW update, Request(c, update),
         OwnFits(ptype, Over(update, state), requests + 1),
         \A key \in DOMAIN update \cap DOMAIN Marks : key \in DOMAIN state \/ Marks[key] = ptype
  PROVE  AllFit'
<1>1. PICK next : next = Over(update, state)
  OBVIOUS
<1>2. Fits(ptype, next, requests + 1)
  <2>1. ASSUME NEW key \in DOMAIN next, key \in DOMAIN Marks
        PROVE  Marks[key] = ptype
    <3>0. DOMAIN next = DOMAIN update \cup DOMAIN state
      BY <1>1, OverFacts
    <3>1. key \in DOMAIN update \/ key \in DOMAIN state
      BY <2>1, <3>0
    <3>2. key \in DOMAIN state => Marks[key] = ptype
      BY <2>1 DEF AllFit, Fits
    <3>. QED  BY <2>1, <3>1, <3>2
  <2>. QED  BY <1>1, <2>1 DEF Fits
<1>3. /\ pending' = [pending EXCEPT ![c] = [keys |-> DOMAIN update, next |-> next]]
      /\ requests' = requests + 1 /\ ptype' = ptype /\ state' = state
  BY <1>1 DEF Request
<1>4. Fits(ptype, state, requests + 1) /\ requests \in Nat /\ DOMAIN pending = Clients
  BY FitsLater DEF AllFit
<1>5. ASSUME NEW d \in Clients, pending'[d] # Idle
      PROVE  Fits(ptype, pending'[d].next, requests + 1)
  <2>1. CASE d = c
    BY <1>2, <1>3, <1>4, <2>1
  <2>2. CASE d # c
    BY <1>3, <1>4, <1>5, <2>2, FitsLater DEF AllFit
  <2>. QED  BY <2>1, <2>2
<1>. QED  BY <1>3, <1>4, <1>5 DEF AllFit

(* An action that leaves alone what the properties look at.                *)
Watched == DOMAIN Marks \cup {"columns", "cards", "rows"}

LEMMA OtherKeysKeep ==
  ASSUME AllFit, NEW c \in Clients, NEW update, Request(c, update),
         \A key \in DOMAIN update \cap Watched : key \in DOMAIN state /\ update[key] = state[key]
  PROVE  AllFit'
<1>1. PICK next : next = Over(update, state)
  OBVIOUS
<1>2. \A key \in Watched : \A fallback : At(next, key, fallback) = At(state, key, fallback)
  <2>1. SUFFICES ASSUME NEW key \in Watched, NEW fallback
                 PROVE  At(next, key, fallback) = At(state, key, fallback)
    OBVIOUS
  <2>2. At(next, key, fallback) = IF key \in DOMAIN update THEN update[key]
                                                         ELSE At(state, key, fallback)
    BY <1>1, OverAt
  <2>3. key \in DOMAIN update => At(state, key, fallback) = update[key]
    BY DEF At
  <2>. QED  BY <2>2, <2>3
<1>3. /\ "columns" \in Watched /\ "cards" \in Watched /\ "rows" \in Watched
      /\ "events" \in Watched /\ "eventCount" \in Watched
      /\ "tracks" \in Watched /\ "currentIndex" \in Watched
      /\ "expandedDirs" \in Watched /\ "isRunning" \in Watched /\ "isPaused" \in Watched
  BY DEF Watched, Marks
<1>4. OwnFits(ptype, state, requests + 1)
  BY FitsLater DEF AllFit, Fits
<1>5. OwnFits(ptype, next, requests + 1)
  BY <1>2, <1>3, <1>4 DEF OwnFits
<1>. QED  BY <1>1, <1>5, RequestKeeps DEF Watched

-----------------------------------------------------------------------------
(* Kanban.                                                                 *)

LEMMA InitialColumnsFit == InitialColumns \in Seq(Column)
<1>1. /\ [name |-> "Todo", key |-> 1] \in Column
      /\ [name |-> "Doing", key |-> 2] \in Column
      /\ [name |-> "Done", key |-> 3] \in Column
  BY DEF Column
<1>. QED  BY <1>1 DEF InitialColumns

LEMMA NewColumnsFit ==
  ASSUME NEW columns, NEW cards, CardsFit(columns, cards), NEW list \in Seq(Column),
         Len(list) >= Len(columns),
         \A k \in 1 .. Len(columns) : list[k].key = columns[k].key
  PROVE  CardsFit(list, cards)
<1>1. SUFFICES ASSUME NEW k \in 1 .. Len(cards), InPlace(columns, cards[k])
               PROVE  InPlace(list, cards[k])
  BY DEF CardsFit
<1>2. Len(columns) \in Nat /\ Len(list) \in Nat
  BY DEF CardsFit
<1>3. ASSUME cards[k].columnIndex \in Places(columns)
      PROVE  /\ cards[k].columnIndex \in Places(list)
             /\ cards[k].columnIndex + 1 \in 1 .. Len(columns)
  BY <1>2, <1>3 DEF Places
<1>. QED  BY <1>1, <1>3 DEF InPlace

LEMMA NewCardFits ==
  ASSUME NEW columns \in Seq(Column), NEW id \in Ids,
         NEW to \in Places(columns) \union {Len(columns)}, NEW card,
         card = [id |-> id, columnIndex |-> to,
                 home |-> IF to \in Places(columns) THEN columns[to + 1].key ELSE 0]
  PROVE  card \in Card /\ InPlace(columns, card)
<1>1. to \in Int
  BY DEF Places
<1>2. to \in Places(columns) => columns[to + 1].key \in Nat
  <2>1. to \in Places(columns) => columns[to + 1] \in Column
    BY DEF Places
  <2>2. \A column \in Column : column.key \in Nat
    BY DEF Column
  <2>. QED  BY <2>1, <2>2
<1>. QED  BY <1>1, <1>2 DEF Card, CardIds, InPlace

LEMMA RemoveColumnFits ==
  ASSUME NEW columns, NEW cards, CardsFit(columns, cards), NEW i \in Places(columns)
  PROVE  LET r == RemoveColumn(columns, cards, i) IN CardsFit(r.columns, r.cards)
<1>1. /\ columns \in Seq(Column) /\ cards \in Seq(Card) /\ Len(columns) \in Nat
      /\ i \in 0 .. Len(columns) - 1
  BY DEF CardsFit, Places
<1>2. PICK left : left = Without(columns, i)
  OBVIOUS
<1>3. /\ left \in Seq(Column) /\ Len(left) = Len(columns) - 1
      /\ \A k \in 1 .. Len(columns) - 1 :
           left[k] = IF k <= i THEN columns[k] ELSE columns[k + 1]
  BY <1>1, <1>2, WithoutFacts
<1>. DEFINE places == {k \in DOMAIN cards : OldIndex(cards[k], left) # i}
            moved(card) == LET old == OldIndex(card, left)
                           IN [id |-> card.id,
                               columnIndex |-> IF old > i THEN old - 1 ELSE old,
                               home |-> IF "home" \in DOMAIN card THEN card.home ELSE 0]
<1>4. PICK kept : kept = Sublist(cards, places)
  OBVIOUS
<1>5. /\ kept \in Seq(Card) /\ Len(kept) \in Nat
      /\ ToSet(kept) = {cards[k] : k \in (DOMAIN cards) \cap places}
  BY <1>1, <1>4, SublistType, SublistElements
<1>6. ASSUME NEW card \in Card, InPlace(columns, card), OldIndex(card, left) # i
      PROVE  moved(card) \in Card /\ InPlace(left, moved(card))
  <2>1. PICK old : old = OldIndex(card, left)
    OBVIOUS
  <2>2. old \in Int
    BY <1>3, <2>1, ColumnIndexIsInt DEF OldIndex, Card
  <2>3. card.id \in CardIds /\ ("home" \in DOMAIN card => card.home \in Nat)
    BY DEF Card
  <2>4. moved(card) \in Card
    BY <2>1, <2>2, <2>3, <1>1 DEF Card
  <2>5. ASSUME "home" \in DOMAIN card, card.home # 0
        PROVE  LET to == IF old > i THEN old - 1 ELSE old
               IN to \in Places(left) /\ left[to + 1].key = card.home
    <3>1. old = card.columnIndex
      BY <2>1, <2>5 DEF OldIndex, Card
    <3>2. old \in 0 .. Len(columns) - 1 /\ columns[old + 1].key = card.home
      BY <1>6, <2>5, <3>1 DEF InPlace, Places
    <3>3. CASE old > i
      <4>1. old \in 1 .. Len(columns) - 1 /\ (old - 1) + 1 = old
        BY <1>1, <3>2, <3>3
      <4>2. left[old] = columns[old + 1]
        BY <1>1, <1>3, <3>3, <4>1
      <4>. QED  BY <1>3, <3>2, <3>3, <4>1, <4>2 DEF Places
    <3>4. CASE old < i
      <4>1. old + 1 \in 1 .. Len(columns) - 1 /\ old + 1 <= i /\ ~(old > i)
        BY <1>1, <3>2, <3>4
      <4>2. left[old + 1] = columns[old + 1]
        BY <1>3, <4>1
      <4>. QED  BY <1>3, <3>2, <4>1, <4>2 DEF Places
    <3>. QED  BY <1>1, <1>6, <2>1, <2>2, <3>3, <3>4
  <2>. QED  BY <2>1, <2>4, <2>5 DEF InPlace
<1>7. PICK list : list = [k \in DOMAIN kept |-> moved(kept[k])]
  OBVIOUS
<1>8. RemoveColumn(columns, cards, i) = [columns |-> left, cards |-> list]
  BY <1>2, <1>4, <1>7 DEF RemoveColumn, Kept
<1>9. ASSUME NEW k \in 1 .. Len(kept)
      PROVE  moved(kept[k]) \in Card /\ InPlace(left, moved(kept[k]))
  <2>1. kept[k] \in ToSet(kept)
    BY <1>5, ToSetFacts
  <2>2. PICK j \in DOMAIN cards : kept[k] = cards[j] /\ OldIndex(cards[j], left) # i
    BY <1>5, <2>1
  <2>3. cards[j] \in Card /\ InPlace(columns, cards[j])
    BY <1>1, <2>2 DEF CardsFit
  <2>. QED  BY <1>6, <2>2, <2>3
<1>. HIDE DEF moved, places
<1>10. /\ list \in Seq(Card) /\ Len(list) = Len(kept)
       /\ \A k \in 1 .. Len(kept) : list[k] = moved(kept[k])
  BY <1>5, <1>7, <1>9
<1>11. CardsFit(left, list)
  BY <1>3, <1>9, <1>10 DEF CardsFit
<1>. QED  BY <1>8, <1>11

LEMMA KanbanRequest ==
  ASSUME AllFit, ptype = "board.kanban", NEW c \in Clients, NEW update, Request(c, update),
         DOMAIN update \subseteq {"columns", "cards"},
         CardsFit(IF "columns" \in DOMAIN update THEN update.columns
                                                ELSE Value("columns", InitialColumns),
                  IF "cards" \in DOMAIN update THEN update.cards ELSE Value("cards", <<>>))
  PROVE  AllFit'
<1>1. CardsFit(At(Over(update, state), "columns", InitialColumns),
               At(Over(update, state), "cards", <<>>))
  <2>1. PICK next : next = Over(update, state)
    OBVIOUS
  <2>2. /\ At(next, "columns", InitialColumns)
             = IF "columns" \in DOMAIN update THEN update.columns
                                              ELSE Value("columns", InitialColumns)
        /\ At(next, "cards", <<>>)
             = IF "cards" \in DOMAIN update THEN update.cards ELSE Value("cards", <<>>)
    <3>1. \A key, fallback : Value(key, fallback) = At(state, key, fallback)
      BY DEF Value, At
    <3>. QED  BY <2>1, <3>1, OverAt
  <2>. QED  BY <2>1, <2>2
<1>2. OwnFits(ptype, Over(update, state), requests + 1)
  BY <1>1 DEF OwnFits
<1>3. \A key \in DOMAIN update : key \notin DOMAIN Marks
  BY DEF Marks
<1>. QED  BY <1>2, <1>3, RequestKeeps

LEMMA KanbanKeeps ==
  ASSUME AllFit, ptype = "board.kanban", NEW c \in Clients, KanbanAction(c)
  PROVE  AllFit'
<1>1. PICK columns, cards : columns = Value("columns", InitialColumns)
                            /\ cards = Value("cards", <<>>)
  OBVIOUS
<1>2. CardsFit(columns, cards) /\ requests \in Nat
  BY <1>1 DEF AllFit, Fits, OwnFits, Value, At
<1>3. columns \in Seq(Column) /\ cards \in Seq(Card)
  BY <1>2 DEF CardsFit
<1>. DEFINE targets == Places(columns) \union {Len(columns)}
            card(id, to) == [id |-> id, columnIndex |-> to,
                             home |-> IF to \in Places(columns) THEN columns[to + 1].key ELSE 0]
            newColumn == [name |-> "New", key |-> requests + 4]
            renamed(i) == [columns[i + 1] EXCEPT !.name = "Other"]
<1>4. CASE Request(c, [columns |-> Append(columns, newColumn)])
  <2>1. newColumn \in Column
    BY <1>2 DEF Column
  <2>2. PICK list : list = Append(columns, newColumn)
    OBVIOUS
  <2>3. /\ list \in Seq(Column) /\ Len(list) = Len(columns) + 1 /\ Len(columns) \in Nat
        /\ \A k \in 1 .. Len(columns) : list[k] = columns[k]
    BY <1>3, <2>1, <2>2, AppendFacts
  <2>4. CardsFit(list, cards)
    BY <1>2, <2>3, NewColumnsFit
  <2>. QED  BY <1>1, <1>4, <2>2, <2>4, KanbanRequest
<1>5. ASSUME NEW i \in Places(columns), Request(c, [columns |-> With(columns, i, renamed(i))])
      PROVE  AllFit'
  <2>1. columns[i + 1] \in Column /\ i \in 0 .. Len(columns) - 1 /\ i + 1 \in 1 .. Len(columns)
    BY <1>3 DEF Places
  <2>2. renamed(i) \in Column /\ renamed(i).key = columns[i + 1].key
    BY <2>1 DEF Column
  <2>3. PICK list : list = With(columns, i, renamed(i))
    OBVIOUS
  <2>. HIDE DEF renamed
  <2>4. /\ list \in Seq(Column) /\ Len(list) = Len(columns)
        /\ list[i + 1] = renamed(i)
        /\ \A k \in 1 .. Len(columns) : k # i + 1 => list[k] = columns[k]
    BY <1>3, <2>1, <2>2, <2>3 DEF With
  <2>5. \A k \in 1 .. Len(columns) : list[k].key = columns[k].key
    BY <2>2, <2>4
  <2>6. Len(list) >= Len(columns)
    BY <1>3, <2>4
  <2>7. CardsFit(list, cards)
    BY <1>2, <2>4, <2>5, <2>6, NewColumnsFit
  <2>. QED  BY <1>1, <1>5, <2>3, <2>7, KanbanRequest
<1>6. ASSUME NEW i \in Places(columns), Request(c, RemoveColumn(columns, cards, i))
      PROVE  AllFit'
  <2>1. PICK r : r = RemoveColumn(columns, cards, i)
    OBVIOUS
  <2>2. DOMAIN r = {"columns", "cards"}
    BY <2>1 DEF RemoveColumn
  <2>3. CardsFit(r.columns, r.cards)
    BY <1>2, <2>1, RemoveColumnFits, Zenon
  <2>. QED  BY <1>6, <2>1, <2>2, <2>3, KanbanRequest
<1>7. ASSUME NEW id \in Ids, NEW to \in targets,
             Request(c, [cards |-> Append(cards, card(id, to))])
      PROVE  AllFit'
  <2>1. PICK new : new = card(id, to)
    OBVIOUS
  <2>2. new \in Card /\ InPlace(columns, new)
    BY <1>3, <2>1, NewCardFits
  <2>3. PICK list : list = Append(cards, new)
    OBVIOUS
  <2>4. /\ list \in Seq(Card) /\ Len(list) = Len(cards) + 1 /\ Len(cards) \in Nat
        /\ list[Len(cards) + 1] = new
        /\ \A k \in 1 .. Len(cards) : list[k] = cards[k]
    BY <1>3, <2>2, <2>3, AppendFacts
  <2>5. \A k \in 1 .. Len(list) : InPlace(columns, list[k])
    BY <1>2, <2>2, <2>4 DEF CardsFit
  <2>6. CardsFit(columns, list)
    BY <1>3, <2>4, <2>5 DEF CardsFit
  <2>. QED  BY <1>1, <1>7, <2>1, <2>3, <2>6, KanbanRequest
<1>8. ASSUME NEW id \in Ids, NEW to \in targets, IndexOfId(cards, id) >= 0,
             Request(c, [cards |-> With(cards, IndexOfId(cards, id), card(id, to))])
      PROVE  AllFit'
  <2>1. PICK new, i : new = card(id, to) /\ i = IndexOfId(cards, id)
    OBVIOUS
  <2>2. new \in Card /\ InPlace(columns, new)
    BY <1>3, <2>1, NewCardFits
  <2>3. i \in 0 .. Len(cards) - 1
    BY <1>3, <1>8, <2>1, IndexFacts
  <2>4. PICK list : list = With(cards, i, new)
    OBVIOUS
  <2>5. /\ list \in Seq(Card) /\ Len(list) = Len(cards)
        /\ list[i + 1] = new
        /\ \A k \in 1 .. Len(cards) : k # i + 1 => list[k] = cards[k]
    BY <1>3, <2>2, <2>3, <2>4 DEF With
  <2>6. \A k \in 1 .. Len(list) : InPlace(columns, list[k])
    BY <1>2, <2>2, <2>5 DEF CardsFit
  <2>7. CardsFit(columns, list)
    BY <1>3, <2>5, <2>6 DEF CardsFit
  <2>. QED  BY <1>1, <1>8, <2>1, <2>4, <2>7, KanbanRequest
<1>9. ASSUME NEW id \in Ids, Request(c, [cards |-> WithoutId(cards, id)])
      PROVE  AllFit'
  <2>1. PICK list : list = WithoutId(cards, id)
    OBVIOUS
  <2>2. list \in Seq(Card) /\ ToSet(list) \subseteq {cards[k] : k \in DOMAIN cards}
    BY <1>3, <2>1, SublistType, SublistElements DEF WithoutId, Kept
  <2>3. ASSUME NEW k \in 1 .. Len(list) PROVE InPlace(columns, list[k])
    <3>1. PICK j \in DOMAIN cards : list[k] = cards[j]
      BY <2>2, ToSetFacts
    <3>. QED  BY <1>2, <1>3, <3>1 DEF CardsFit
  <2>4. CardsFit(columns, list)
    BY <1>3, <2>2, <2>3 DEF CardsFit
  <2>. QED  BY <1>1, <1>9, <2>1, <2>4, KanbanRequest
<1>10. CASE Request(c, [cards |-> cards])
  BY <1>1, <1>2, <1>10, KanbanRequest
<1>. QED
  BY <1>1, <1>4, <1>5, <1>6, <1>7, <1>8, <1>9, <1>10 DEF KanbanAction

-----------------------------------------------------------------------------
(* Tables.                                                                 *)

LEMMA CellsAre ==
  ASSUME NEW cells
  PROVE  cells \in Cells <=> /\ DOMAIN cells \subseteq Ids
                             /\ cells \in [DOMAIN cells -> ColumnTypes]
  BY DEF Cells

LEMMA OverCells ==
  ASSUME NEW f \in Cells, NEW g \in Cells
  PROVE  Over(f, g) \in Cells
<1>1. PICK h : h = Over(f, g)
  OBVIOUS
<1>2. h = [key \in DOMAIN f \union DOMAIN g |-> IF key \in DOMAIN f THEN f[key] ELSE g[key]]
  BY <1>1 DEF Over
<1>3. /\ DOMAIN f \subseteq Ids /\ \A key \in DOMAIN f : f[key] \in ColumnTypes
      /\ DOMAIN g \subseteq Ids /\ \A key \in DOMAIN g : g[key] \in ColumnTypes
  BY CellsAre
<1>4. DOMAIN h \subseteq Ids /\ h \in [DOMAIN h -> ColumnTypes]
  BY <1>2, <1>3
<1>. QED  BY <1>1, <1>4, CellsAre

LEMMA ColumnIdsAre ==
  ASSUME NEW columns \in Seq(TableColumn)
  PROVE  /\ \A k \in 1 .. Len(columns) : /\ columns[k].id \in ColumnIds(columns)
                                         /\ columns[k].type \in ColumnTypes
         /\ \A id \in ColumnIds(columns) : \E k \in 1 .. Len(columns) : columns[k].id = id
         /\ ColumnIds(columns) \subseteq Ids
<1>1. \A k \in 1 .. Len(columns) : columns[k] \in TableColumn
  OBVIOUS
<1>2. \A column \in TableColumn : column.id \in Ids /\ column.type \in ColumnTypes
  BY DEF TableColumn
<1>. QED  BY <1>1, <1>2 DEF ColumnIds

LEMMA LastIn ==
  ASSUME NEW n \in Nat, NEW T \in SUBSET (1 .. n), T # {}
  PROVE  Max(T) \in T
<1>. DEFINE fromEnd == {n - x : x \in T}
<1>1. fromEnd \in SUBSET Nat /\ fromEnd # {}
  <2>1. \A x \in T : x \in Nat /\ n - x \in Nat
    OBVIOUS
  <2>. QED  BY <2>1
<1>2. PICK least \in fromEnd : \A y \in fromEnd : least <= y
  BY <1>1, LeastNat
<1>3. PICK x \in T : least = n - x
  BY <1>2
<1>4. \A y \in T : x >= y
  <2>1. TAKE y \in T
  <2>2. n - y \in fromEnd
    OBVIOUS
  <2>3. n - x <= n - y
    BY <1>2, <1>3, <2>2
  <2>. QED  BY <2>3
<1>. QED  BY <1>4 DEF Max

LEMMA TypeOfColumn ==
  ASSUME NEW columns \in Seq(TableColumn)
  PROVE  /\ \A id \in ColumnIds(columns) : TypeOf(columns, id) \in ColumnTypes
         /\ DistinctIds(columns) =>
              \A k \in 1 .. Len(columns) : TypeOf(columns, columns[k].id) = columns[k].type
<1>1. ASSUME NEW k \in 1 .. Len(columns)
      PROVE  /\ TypeOf(columns, columns[k].id) \in ColumnTypes
             /\ DistinctIds(columns) => TypeOf(columns, columns[k].id) = columns[k].type
  <2>1. PICK T : T = {j \in DOMAIN columns : columns[j].id = columns[k].id}
    OBVIOUS
  <2>2. PICK last : last = Max(T)
    OBVIOUS
  <2>3. TypeOf(columns, columns[k].id) = columns[last].type
    BY <2>1, <2>2 DEF TypeOf
  <2>4. T \in SUBSET (1 .. Len(columns)) /\ k \in T /\ Len(columns) \in Nat
    BY <2>1
  <2>5. last \in 1 .. Len(columns) /\ columns[last].id = columns[k].id
    BY <2>1, <2>2, <2>4, LastIn
  <2>6. columns[last] \in TableColumn
    BY <2>5
  <2>7. columns[last].type \in ColumnTypes
    BY <2>6 DEF TableColumn
  <2>8. DistinctIds(columns) => last = k
    BY <2>5 DEF DistinctIds
  <2>. QED  BY <2>3, <2>7, <2>8
<1>. QED  BY <1>1, ColumnIdsAre

LEMMA CastCellIsType ==
  ASSUME NEW input, NEW type \in ColumnTypes
  PROVE  CastCell(input, type) = type
  BY DEF CastCell, DefaultCell, ColumnTypes

IsNew(columns, column) == column \in TableColumn /\ column.id \notin ColumnIds(columns)

LEMMA AddColumnCells ==
  ASSUME NEW columns \in Seq(TableColumn), NEW column, IsNew(columns, column),
         NEW cells \in Cells
  PROVE  LET new == Over(Entry(column.id, DefaultCell(column.type)), cells)
         IN /\ new \in Cells
            /\ CellsFit(columns, cells) => CellsFit(Append(columns, column), new)
<1>. DEFINE id == column.id
            type == column.type
<1>0. column \in TableColumn /\ id \in Ids \ ColumnIds(columns) /\ type \in ColumnTypes
  BY DEF IsNew, TableColumn
<1>1. PICK one, new, list : /\ one = Entry(id, DefaultCell(type))
                           /\ new = Over(one, cells) /\ list = Append(columns, column)
  OBVIOUS
<1>2. DOMAIN one = {id} /\ one[id] = type /\ one \in [DOMAIN one -> ColumnTypes]
  BY <1>0, <1>1 DEF Entry, DefaultCell
<1>3. new \in Cells
  BY <1>0, <1>1, <1>2, CellsAre, OverCells
<1>4. /\ DOMAIN new = {id} \cup DOMAIN cells /\ new[id] = type
      /\ \A key \in DOMAIN cells \ {id} : new[key] = cells[key]
  <2>1. DOMAIN new = DOMAIN one \cup DOMAIN cells
    BY <1>1, OverFacts
  <2>2. new[id] = type
    BY <1>1, <1>2 DEF Over
  <2>3. \A key \in DOMAIN cells \ {id} : new[key] = cells[key]
    BY <1>1, <1>2 DEF Over
  <2>. QED  BY <1>2, <2>1, <2>2, <2>3
<1>5. PICK n : n = Len(columns)
  OBVIOUS
<1>7. /\ list \in Seq(TableColumn) /\ Len(list) = n + 1 /\ n \in Nat
      /\ list[n + 1] = column /\ \A k \in 1 .. n : list[k] = columns[k]
  BY <1>0, <1>1, <1>5, AppendFacts
<1>8. ColumnIds(list) = {id} \cup ColumnIds(columns)
  <2>1. DOMAIN list = 1 .. n + 1 /\ DOMAIN columns = 1 .. n
    BY <1>5, <1>7
  <2>. QED  BY <1>7, <2>1 DEF ColumnIds
<1>9. ASSUME CellsFit(columns, cells), NEW k \in 1 .. n + 1
      PROVE  new[list[k].id] = list[k].type
  <2>1. CASE k = n + 1
    BY <1>4, <1>7, <2>1
  <2>2. CASE k # n + 1
    <3>1. k \in 1 .. n /\ list[k] = columns[k]
      BY <1>7, <2>2
    <3>2. columns[k].id \in DOMAIN cells \ {id} /\ cells[columns[k].id] = columns[k].type
      BY <1>0, <1>5, <1>9, <3>1, ColumnIdsAre DEF CellsFit
    <3>. QED  BY <1>4, <3>1, <3>2
  <2>. QED  BY <2>1, <2>2
<1>10. DistinctIds(columns) => DistinctIds(list)
  <2>1. \A k \in 1 .. n : columns[k].id # id
    BY <1>0, <1>5, ColumnIdsAre
  <2>2. \A j \in 1 .. n + 1 : j \in 1 .. n \/ j = n + 1
    BY <1>7
  <2>. QED  BY <1>5, <1>7, <2>1, <2>2 DEF DistinctIds
<1>11. CellsFit(columns, cells) => CellsFit(list, new)
  BY <1>4, <1>7, <1>8, <1>9, <1>10 DEF CellsFit
<1>. QED  BY <1>1, <1>3, <1>11

LEMMA RemoveColumnCells ==
  ASSUME NEW columns \in Seq(TableColumn), NEW cells \in Cells,
         NEW i \in 0 .. Len(columns) - 1, NEW id, columns[i + 1].id = id,
         NEW new, new = Restrict(cells, DOMAIN cells \ {id}),
         NEW left, left = Without(columns, i)
  PROVE  /\ left \in Seq(TableColumn)
         /\ new \in Cells
         /\ CellsFit(columns, cells) => CellsFit(left, new)
<1>1. PICK n \in Nat : n = Len(columns)
  OBVIOUS
<1>2. /\ left \in Seq(TableColumn) /\ Len(left) = n - 1 /\ i \in 0 .. n - 1
      /\ \A k \in 1 .. n - 1 : left[k] = IF k <= i THEN columns[k] ELSE columns[k + 1]
  BY <1>1, WithoutFacts
<1>3. DistinctIds(columns) => DistinctIds(left)
  <2>1. SUFFICES ASSUME DistinctIds(columns), NEW j \in 1 .. n - 1, NEW k \in 1 .. n - 1,
                        left[j].id = left[k].id
                 PROVE  j = k
    BY <1>2 DEF DistinctIds
  <2>2. PICK x, y : x = (IF j <= i THEN j ELSE j + 1) /\ y = (IF k <= i THEN k ELSE k + 1)
    OBVIOUS
  <2>3. x \in 1 .. n /\ y \in 1 .. n /\ left[j] = columns[x] /\ left[k] = columns[y]
    BY <1>2, <2>2
  <2>4. x = y
    BY <1>1, <2>1, <2>3 DEF DistinctIds
  <2>. QED  BY <1>2, <2>2, <2>4
<1>4. /\ DOMAIN new = DOMAIN cells \ {id}
      /\ \A key \in DOMAIN cells \ {id} : new[key] = cells[key]
      /\ new = [key \in DOMAIN cells \ {id} |-> cells[key]]
  BY DEF Restrict
<1>5. new \in Cells
  <2>1. DOMAIN cells \subseteq Ids /\ \A key \in DOMAIN cells : cells[key] \in ColumnTypes
    BY CellsAre
  <2>2. DOMAIN new \subseteq Ids /\ new \in [DOMAIN new -> ColumnTypes]
    BY <1>4, <2>1
  <2>. QED  BY <2>2, CellsAre
<1>6. \A k \in 1 .. n - 1 : \E x \in 1 .. n : x # i + 1 /\ left[k] = columns[x]
  <2>1. TAKE k \in 1 .. n - 1
  <2>2. PICK x : x = IF k <= i THEN k ELSE k + 1
    OBVIOUS
  <2>3. x \in 1 .. n /\ x # i + 1 /\ left[k] = columns[x]
    BY <1>2, <2>2
  <2>. QED  BY <2>3
<1>7. \A x \in 1 .. n : x # i + 1 => \E k \in 1 .. n - 1 : left[k] = columns[x]
  <2>1. SUFFICES ASSUME NEW x \in 1 .. n, x # i + 1
                 PROVE  \E k \in 1 .. n - 1 : left[k] = columns[x]
    OBVIOUS
  <2>2. CASE x <= i
    <3>1. x \in 1 .. n - 1 /\ left[x] = columns[x]
      BY <1>2, <2>2
    <3>. QED  BY <3>1
  <2>3. CASE x > i
    <3>1. PICK k : k = x - 1
      OBVIOUS
    <3>2. k \in 1 .. n - 1 /\ ~(k <= i) /\ k + 1 = x
      BY <1>2, <2>1, <2>3, <3>1
    <3>. QED  BY <1>2, <3>2
  <2>. QED  BY <1>2, <2>2, <2>3
<1>8. DistinctIds(columns) => \A x \in 1 .. n : x # i + 1 => columns[x].id # id
  <2>1. i + 1 \in 1 .. n
    BY <1>2
  <2>. QED  BY <1>1, <2>1 DEF DistinctIds
<1>9. ASSUME DistinctIds(columns) PROVE ColumnIds(left) = ColumnIds(columns) \ {id}
  <2>1. DOMAIN left = 1 .. n - 1 /\ DOMAIN columns = 1 .. n
    BY <1>1, <1>2
  <2>2. ColumnIds(left) = {left[k].id : k \in 1 .. n - 1}
    BY <2>1 DEF ColumnIds
  <2>3. ColumnIds(columns) = {columns[k].id : k \in 1 .. n}
    BY <2>1 DEF ColumnIds
  <2>4. ASSUME NEW k \in 1 .. n - 1 PROVE left[k].id \in ColumnIds(columns) \ {id}
    BY <1>6, <1>8, <1>9, <2>3
  <2>5. ASSUME NEW x \in 1 .. n, columns[x].id # id PROVE columns[x].id \in ColumnIds(left)
    <3>1. x # i + 1
      BY <2>5
    <3>2. PICK k \in 1 .. n - 1 : left[k] = columns[x]
      BY <1>7, <3>1
    <3>. QED  BY <2>2, <3>2
  <2>6. \A u \in ColumnIds(left) : u \in ColumnIds(columns) /\ u # id
    BY <2>2, <2>4
  <2>7. ASSUME NEW u \in ColumnIds(columns), u # id PROVE u \in ColumnIds(left)
    <3>1. PICK x \in 1 .. n : columns[x].id = u
      BY <2>3
    <3>. QED  BY <2>5, <2>7, <3>1
  <2>. QED  BY <2>6, <2>7
<1>10. ASSUME CellsFit(columns, cells), NEW k \in 1 .. n - 1
       PROVE  new[left[k].id] = left[k].type
  <2>1. PICK x \in 1 .. n : x # i + 1 /\ left[k] = columns[x]
    BY <1>6
  <2>2. DistinctIds(columns)
    BY <1>10 DEF CellsFit
  <2>3. cells[columns[x].id] = columns[x].type /\ columns[x].id \in DOMAIN cells \ {id}
    BY <1>1, <1>8, <1>10, <2>1, <2>2, ColumnIdsAre DEF CellsFit
  <2>. QED  BY <1>4, <2>1, <2>3
<1>. QED  BY <1>2, <1>3, <1>4, <1>5, <1>9, <1>10 DEF CellsFit

(* Every row gets other cells.                                             *)
LEMMA NewCellsFit ==
  ASSUME NEW columns, NEW rows, RowsFit(columns, rows),
         NEW left \in Seq(TableColumn),
         NEW list \in Seq(Row), Len(list) = Len(rows),
         \A k \in 1 .. Len(rows) :
           /\ list[k].by = rows[k].by
           /\ CellsFit(columns, rows[k].cells) => CellsFit(left, list[k].cells)
  PROVE  RowsFit(left, list)
  BY DEF RowsFit

LEMMA TableRequest ==
  ASSUME AllFit, ptype = "board.table", NEW c \in Clients, NEW update, Request(c, update),
         DOMAIN update \subseteq {"columns", "rows"},
         RowsFit(IF "columns" \in DOMAIN update THEN update.columns ELSE Value("columns", <<>>),
                 IF "rows" \in DOMAIN update THEN update.rows ELSE Value("rows", <<>>))
  PROVE  AllFit'
<1>1. PICK next : next = Over(update, state)
  OBVIOUS
<1>2. /\ At(next, "columns", <<>>)
           = IF "columns" \in DOMAIN update THEN update.columns ELSE Value("columns", <<>>)
      /\ At(next, "rows", <<>>)
           = IF "rows" \in DOMAIN update THEN update.rows ELSE Value("rows", <<>>)
  <2>1. \A key, fallback : Value(key, fallback) = At(state, key, fallback)
    BY DEF Value, At
  <2>. QED  BY <1>1, <2>1, OverAt
<1>3. OwnFits(ptype, next, requests + 1)
  BY <1>2 DEF OwnFits
<1>4. \A key \in DOMAIN update : key \notin DOMAIN Marks
  BY DEF Marks
<1>. QED  BY <1>1, <1>3, <1>4, RequestKeeps

LEMMA TableKeeps ==
  ASSUME AllFit, ptype = "board.table", NEW c \in Clients, TableAction(c)
  PROVE  AllFit'
<1>1. PICK columns, rows, ids : /\ columns = Value("columns", <<>>) /\ rows = Value("rows", <<>>)
                               /\ ids = ColumnIds(columns)
  OBVIOUS
<1>2. RowsFit(columns, rows)
  BY <1>1 DEF AllFit, Fits, OwnFits, Value, At
<1>3. /\ columns \in Seq(TableColumn)
      /\ rows \in Seq(Row) /\ Len(rows) \in Nat /\ DOMAIN rows = 1 .. Len(rows)
  BY <1>2 DEF RowsFit
<1>4. \A k \in 1 .. Len(rows) : /\ rows[k].cells \in Cells
                                /\ rows[k].by = "add-row" => CellsFit(columns, rows[k].cells)
  <2>1. TAKE k \in 1 .. Len(rows)
  <2>2. rows[k] \in Row
    BY <1>3
  <2>3. rows[k].cells \in Cells
    BY <2>2 DEF Row
  <2>. QED  BY <1>2, <2>3 DEF RowsFit
<1>5. /\ ids \subseteq Ids /\ \A id \in ids : TypeOf(columns, id) \in ColumnTypes
      /\ \A id \in ids : \A input : CastCell(input, TypeOf(columns, id)) = TypeOf(columns, id)
  BY <1>1, <1>3, ColumnIdsAre, TypeOfColumn, CastCellIsType
<1>6. ASSUME NEW t \in GivenTables, Request(c, [columns |-> t.columns, rows |-> t.rows])
      PROVE  AllFit'
  <2>1. /\ t.columns \in Seq(TableColumn)
        /\ t.rows \in Seq([id : Ids, by : {"set"}, cells : Cells])
    BY GivenTablesAssumption DEF TableColumn
  <2>2. [id : Ids, by : {"set"}, cells : Cells] \subseteq Row
    BY DEF Row
  <2>3. t.rows \in Seq(Row)
    BY <2>1, <2>2, SeqGrow
  <2>4. \A k \in 1 .. Len(t.rows) : t.rows[k].by # "add-row"
    <3>1. PICK S, list : S = [id : Ids, by : {"set"}, cells : Cells] /\ list = t.rows
      OBVIOUS
    <3>2. list \in Seq(S)
      BY <2>1, <3>1
    <3>3. \A k \in 1 .. Len(list) : list[k] \in S
      BY <3>2
    <3>4. \A row \in S : row.by # "add-row"
      BY <3>1
    <3>. QED  BY <3>1, <3>3, <3>4
  <2>5. RowsFit(t.columns, t.rows)
    BY <2>1, <2>3, <2>4 DEF RowsFit
  <2>. QED  BY <1>6, <2>5, TableRequest
<1>7. CASE Request(c, Over([tableId |-> "t"], state))
  <2>1. \A key \in DOMAIN Over([tableId |-> "t"], state) \cap Watched :
          key \in DOMAIN state /\ Over([tableId |-> "t"], state)[key] = state[key]
    BY DEF Over, Watched, Marks
  <2>. QED  BY <1>7, <2>1, OtherKeysKeep
<1>8. ASSUME NEW id \in Ids \ ids, NEW type \in ColumnTypes,
             Request(c, [columns |-> Append(columns, [id |-> id, type |-> type]),
                         rows |-> EachRow(rows, LAMBDA r : Over(Entry(id, DefaultCell(type)), r))])
      PROVE  AllFit'
  <2>1. PICK left, new, list :
          /\ left = Append(columns, [id |-> id, type |-> type])
          /\ new = [k \in 1 .. Len(rows) |-> Over(Entry(id, DefaultCell(type)), rows[k].cells)]
          /\ list = EachRow(rows, LAMBDA r : Over(Entry(id, DefaultCell(type)), r))
    OBVIOUS
  <2>2. list = [k \in 1 .. Len(rows) |-> [rows[k] EXCEPT !.cells = new[k]]]
    BY <1>3, <2>1 DEF EachRow
  <2>3. \A k \in 1 .. Len(rows) : /\ new[k] \in Cells
                                  /\ CellsFit(columns, rows[k].cells) => CellsFit(left, new[k])
    <3>1. TAKE k \in 1 .. Len(rows)
    <3>2. new[k] = Over(Entry(id, DefaultCell(type)), rows[k].cells)
      BY <2>1
    <3>3. id \in Ids \ ColumnIds(columns) /\ rows[k].cells \in Cells
      BY <1>1, <1>4
    <3>4. PICK column : column = [id |-> id, type |-> type]
      OBVIOUS
    <3>5. column.id = id /\ column.type = type /\ IsNew(columns, column)
      BY <3>3, <3>4 DEF IsNew, TableColumn
    <3>6. /\ Over(Entry(column.id, DefaultCell(column.type)), rows[k].cells) \in Cells
          /\ CellsFit(columns, rows[k].cells) =>
               CellsFit(Append(columns, column),
                        Over(Entry(column.id, DefaultCell(column.type)), rows[k].cells))
      BY <1>3, <3>3, <3>5, AddColumnCells
    <3>. QED  BY <2>1, <3>2, <3>4, <3>5, <3>6
  <2>4. left \in Seq(TableColumn)
    <3>1. [id |-> id, type |-> type] \in TableColumn
      BY DEF TableColumn
    <3>. QED  BY <1>3, <2>1, <3>1, AppendFacts
  <2>5. ASSUME NEW k \in 1 .. Len(rows)
        PROVE  list[k] \in Row /\ list[k].by = rows[k].by /\ list[k].cells = new[k]
    <3>1. rows[k] \in Row /\ new[k] \in Cells /\ list[k] = [rows[k] EXCEPT !.cells = new[k]]
      BY <1>3, <2>2, <2>3
    <3>. QED  BY <3>1 DEF Row
  <2>6. list \in Seq(Row) /\ Len(list) = Len(rows)
    BY <1>3, <2>2, <2>5
  <2>7. RowsFit(left, list)
    BY <1>2, <2>3, <2>4, <2>5, <2>6, NewCellsFit
  <2>. QED  BY <1>8, <2>1, <2>7, TableRequest
<1>9. CASE Request(c, [columns |-> columns])
  BY <1>1, <1>2, <1>9, TableRequest
<1>10. ASSUME NEW id \in ids,
              Request(c, [columns |-> Without(columns, IndexOfId(columns, id)),
                          rows |-> EachRow(rows, LAMBDA r : Restrict(r, DOMAIN r \ {id}))])
       PROVE  AllFit'
  <2>1. PICK i, left, new, list :
          /\ i = IndexOfId(columns, id) /\ left = Without(columns, i)
          /\ new = [k \in 1 .. Len(rows) |->
                      Restrict(rows[k].cells, DOMAIN rows[k].cells \ {id})]
          /\ list = EachRow(rows, LAMBDA r : Restrict(r, DOMAIN r \ {id}))
    OBVIOUS
  <2>2. list = [k \in 1 .. Len(rows) |-> [rows[k] EXCEPT !.cells = new[k]]]
    BY <1>3, <2>1 DEF EachRow
  <2>3. i \in 0 .. Len(columns) - 1 /\ columns[i + 1].id = id
    <3>1. \E k \in 1 .. Len(columns) : columns[k].id = id
      BY <1>1, <1>3, ColumnIdsAre
    <3>. QED  BY <1>3, <2>1, <3>1, IndexFacts
  <2>4. left \in Seq(TableColumn)
    <3>1. <<>> \in [{} -> ColumnTypes] /\ {} \subseteq Ids
      OBVIOUS
    <3>2. <<>> \in Cells
      BY <3>1 DEF Cells
    <3>. QED  BY <1>3, <2>1, <2>3, <3>2, RemoveColumnCells
  <2>5. \A k \in 1 .. Len(rows) : /\ new[k] \in Cells
                                  /\ CellsFit(columns, rows[k].cells) => CellsFit(left, new[k])
    BY <1>3, <1>4, <2>1, <2>3, RemoveColumnCells
  <2>6. ASSUME NEW k \in 1 .. Len(rows)
        PROVE  list[k] \in Row /\ list[k].by = rows[k].by /\ list[k].cells = new[k]
    <3>1. rows[k] \in Row /\ new[k] \in Cells /\ list[k] = [rows[k] EXCEPT !.cells = new[k]]
      BY <1>3, <2>2, <2>5
    <3>. QED  BY <3>1 DEF Row
  <2>7. list \in Seq(Row) /\ Len(list) = Len(rows)
    BY <1>3, <2>2, <2>6
  <2>8. RowsFit(left, list)
    BY <1>2, <2>4, <2>5, <2>6, <2>7, NewCellsFit
  <2>. QED  BY <1>10, <2>1, <2>8, TableRequest
<1>11. ASSUME NEW ms \in Ids, NEW input \in [ids -> Inputs],
              Request(c, [rows |-> Append(rows,
                 [id |-> ms, by |-> IF DistinctIds(columns) THEN "add-row" ELSE "twin-row",
                  cells |-> [id \in ids |-> CastCell(input[id], TypeOf(columns, id))]])])
       PROVE  AllFit'
  <2>1. PICK cells : cells = [id \in ids |-> CastCell(input[id], TypeOf(columns, id))]
    OBVIOUS
  <2>2. PICK by : by = IF DistinctIds(columns) THEN "add-row" ELSE "twin-row"
    OBVIOUS
  <2>3. PICK row, list : /\ row = [id |-> ms, by |-> by, cells |-> cells]
                         /\ list = Append(rows, row)
    OBVIOUS
  <2>4. cells = [id \in ids |-> TypeOf(columns, id)]
    BY <1>5, <2>1
  <2>5. cells \in Cells
    <3>1. DOMAIN cells = ids /\ cells \in [DOMAIN cells -> ColumnTypes]
      BY <1>5, <2>4
    <3>. QED  BY <1>5, <3>1, CellsAre
  <2>6. DistinctIds(columns) => CellsFit(columns, cells)
    <3>1. DistinctIds(columns) =>
            \A k \in 1 .. Len(columns) : cells[columns[k].id] = columns[k].type
      BY <1>1, <1>3, <2>4, ColumnIdsAre, TypeOfColumn
    <3>. QED  BY <1>1, <2>4, <3>1 DEF CellsFit
  <2>7. /\ row \in Row /\ row.cells = cells
        /\ row.by = "add-row" => DistinctIds(columns)
    BY <2>2, <2>3, <2>5 DEF Row
  <2>8. /\ list \in Seq(Row) /\ Len(list) = Len(rows) + 1 /\ list[Len(rows) + 1] = row
        /\ \A k \in 1 .. Len(rows) : list[k] = rows[k]
    BY <1>3, <2>3, <2>7, AppendFacts
  <2>9. \A k \in 1 .. Len(rows) + 1 : k \in 1 .. Len(rows) \/ k = Len(rows) + 1
    BY <1>3
  <2>10. RowsFit(columns, list)
    BY <1>3, <1>4, <2>6, <2>7, <2>8, <2>9 DEF RowsFit
  <2>. QED  BY <1>1, <1>11, <2>1, <2>2, <2>3, <2>10, TableRequest
<1>12. ASSUME NEW r \in Ids, NEW given \in SUBSET ids, NEW input \in [given -> Inputs],
              IndexOfId(rows, r) >= 0,
              Request(c, [rows |->
                [rows EXCEPT ![IndexOfId(rows, r) + 1].cells =
                   Over([id \in given |-> CastCell(input[id], TypeOf(columns, id))], @)]])
       PROVE  AllFit'
  <2>0. PICK cast : cast = [id \in given |-> CastCell(input[id], TypeOf(columns, id))]
    OBVIOUS
  <2>1. PICK i : i = IndexOfId(rows, r) + 1
    OBVIOUS
  <2>2. i \in 1 .. Len(rows)
    BY <1>3, <1>12, <2>1, IndexFacts
  <2>3. cast = [id \in given |-> TypeOf(columns, id)]
    BY <1>5, <2>0
  <2>4. cast \in Cells
    <3>1. DOMAIN cast \subseteq Ids /\ cast \in [DOMAIN cast -> ColumnTypes]
      BY <1>5, <2>3
    <3>. QED  BY <3>1, CellsAre
  <2>5. PICK cells : cells = Over(cast, rows[i].cells)
    OBVIOUS
  <2>6. cells \in Cells
    BY <1>4, <2>2, <2>4, <2>5, OverCells
  <2>7. ASSUME CellsFit(columns, rows[i].cells)
        PROVE  CellsFit(columns, cells)
    <3>1. DOMAIN rows[i].cells = ids
      BY <1>1, <2>7 DEF CellsFit
    <3>2. DOMAIN cells = ids /\ \A id \in ids : cells[id] = IF id \in given THEN TypeOf(columns, id)
                                                                      ELSE rows[i].cells[id]
      BY <2>3, <2>5, <3>1 DEF Over
    <3>3. \A k \in 1 .. Len(columns) : /\ columns[k].id \in ids
                                       /\ TypeOf(columns, columns[k].id) = columns[k].type
                                       /\ rows[i].cells[columns[k].id] = columns[k].type
      BY <1>1, <1>3, <2>7, ColumnIdsAre, TypeOfColumn DEF CellsFit
    <3>4. \A k \in 1 .. Len(columns) : cells[columns[k].id] = columns[k].type
      BY <3>2, <3>3
    <3>. QED  BY <1>1, <2>7, <3>2, <3>4 DEF CellsFit
  <2>8. PICK list : list = [rows EXCEPT ![i].cells = Over(cast, @)]
    OBVIOUS
  <2>9. list = [rows EXCEPT ![i] = [rows[i] EXCEPT !.cells = cells]]
    BY <2>5, <2>8
  <2>10. PICK row : row = [rows[i] EXCEPT !.cells = cells]
    OBVIOUS
  <2>11. row \in Row /\ row.by = rows[i].by /\ row.cells = cells
    <3>1. rows[i] \in Row
      BY <1>3, <2>2
    <3>. QED  BY <2>6, <2>10, <3>1 DEF Row
  <2>12. /\ list \in Seq(Row) /\ Len(list) = Len(rows) /\ list[i] = row
         /\ \A k \in 1 .. Len(rows) : k # i => list[k] = rows[k]
    BY <1>3, <2>2, <2>9, <2>10, <2>11
  <2>13. RowsFit(columns, list)
    BY <1>3, <1>4, <2>2, <2>7, <2>11, <2>12 DEF RowsFit
  <2>. QED  BY <1>1, <1>12, <2>0, <2>1, <2>8, <2>13, TableRequest
<1>13. ASSUME NEW r \in Ids, Request(c, [rows |-> WithoutId(rows, r)])
       PROVE  AllFit'
  <2>1. PICK list : list = WithoutId(rows, r)
    OBVIOUS
  <2>2. list \in Seq(Row) /\ ToSet(list) \subseteq {rows[k] : k \in DOMAIN rows}
    BY <1>3, <2>1, SublistType, SublistElements DEF WithoutId, Kept
  <2>3. ASSUME NEW k \in 1 .. Len(list), list[k].by = "add-row"
        PROVE  CellsFit(columns, list[k].cells)
    <3>1. PICK j \in DOMAIN rows : list[k] = rows[j]
      BY <2>2, ToSetFacts
    <3>. QED  BY <1>3, <1>4, <2>3, <3>1
  <2>4. RowsFit(columns, list)
    BY <1>3, <2>2, <2>3 DEF RowsFit
  <2>. QED  BY <1>1, <1>13, <2>1, <2>4, TableRequest
<1>14. CASE Request(c, [rows |-> <<>>])
  <2>1. RowsFit(columns, <<>>)
    BY <1>3 DEF RowsFit
  <2>. QED  BY <1>1, <1>14, <2>1, TableRequest
<1>. QED
  BY <1>1, <1>6, <1>7, <1>8, <1>9, <1>10, <1>11, <1>12, <1>13, <1>14 DEF TableAction

-----------------------------------------------------------------------------
(* Calendars, playlists, file trees and timers.                            *)

LEMMA ValueIs == \A key, fallback : Value(key, fallback) = At(state, key, fallback)
  BY DEF Value, At

LEMMA CalendarRequest ==
  ASSUME AllFit, ptype = "board.calendar", NEW c \in Clients, NEW events,
         Request(c, WithEvents(events)), EventsFit(events, Len(events), requests + 1)
  PROVE  AllFit'
<1>1. PICK update, next : update = WithEvents(events) /\ next = Over(update, state)
  OBVIOUS
<1>2. /\ DOMAIN update = {"events", "eventCount"}
      /\ update.events = events /\ update.eventCount = Len(events)
  BY <1>1 DEF WithEvents
<1>3. At(next, "events", <<>>) = events /\ At(next, "eventCount", 0) = Len(events)
  BY <1>1, <1>2, OverAt
<1>4. OwnFits(ptype, next, requests + 1)
  BY <1>3 DEF OwnFits
<1>5. \A key \in DOMAIN update : Marks[key] = ptype
  BY <1>2 DEF Marks
<1>. QED  BY <1>1, <1>4, <1>5, RequestKeeps

LEMMA CalendarKeeps ==
  ASSUME AllFit, ptype = "board.calendar", NEW c \in Clients, CalendarAction(c)
  PROVE  AllFit'
<1>1. PICK events, n : events = Value("events", <<>>) /\ n = requests + 1
  OBVIOUS
<1>2. requests \in Nat /\ n \in Nat /\ EventsFit(events, Len(events), requests)
  BY <1>1, ValueIs DEF AllFit, Fits, OwnFits, EventsFit
<1>3. CalEvent(requests) \subseteq CalEvent(n)
  BY <1>1, <1>2 DEF CalEvent
<1>4. /\ events \in Seq(CalEvent(n)) /\ DistinctIds(events) /\ Len(events) \in Nat
      /\ \A k \in 1 .. Len(events) : events[k].id \in 0 .. requests - 1
  <2>1. events \in Seq(CalEvent(requests)) /\ DistinctIds(events)
    BY <1>2 DEF EventsFit
  <2>2. events \in Seq(CalEvent(n))
    BY <1>3, <2>1, SeqGrow
  <2>3. \A e \in CalEvent(requests) : e.id \in 0 .. requests - 1
    BY DEF CalEvent
  <2>4. \A k \in 1 .. Len(events) : events[k] \in CalEvent(requests)
    BY <2>1
  <2>. QED  BY <2>1, <2>2, <2>3, <2>4
<1>5. EventsFit(events, Len(events), n)
  BY <1>4 DEF EventsFit
<1>6. ASSUME NEW allDay \in BOOLEAN,
             Request(c, WithEvents(Append(events, [id |-> requests, allDay |-> allDay])))
      PROVE  AllFit'
  <2>1. PICK new, list : /\ new = [id |-> requests, allDay |-> allDay]
                         /\ list = Append(events, new)
    OBVIOUS
  <2>2. new \in CalEvent(n) /\ new.id = requests
    BY <1>1, <1>2, <2>1 DEF CalEvent
  <2>3. /\ list \in Seq(CalEvent(n)) /\ Len(list) = Len(events) + 1
        /\ list[Len(events) + 1] = new /\ \A k \in 1 .. Len(events) : list[k] = events[k]
    BY <1>4, <2>1, <2>2, AppendFacts
  <2>4. \A k \in 1 .. Len(list) : k \in 1 .. Len(events) \/ k = Len(events) + 1
    BY <1>4, <2>3
  <2>5. \A k \in 1 .. Len(events) : events[k].id # requests
    BY <1>2, <1>4
  <2>6. DistinctIds(list)
    BY <1>4, <2>2, <2>3, <2>4, <2>5 DEF DistinctIds
  <2>. QED  BY <1>1, <1>6, <2>1, <2>3, <2>6, CalendarRequest DEF EventsFit
<1>7. ASSUME NEW k \in Places(events), NEW allDay \in BOOLEAN,
             Request(c, WithEvents(With(events, k, [events[k + 1] EXCEPT !.allDay = allDay])))
      PROVE  AllFit'
  <2>1. k + 1 \in 1 .. Len(events) /\ k \in 0 .. Len(events) - 1
    BY <1>4 DEF Places
  <2>2. PICK new, list : /\ new = [events[k + 1] EXCEPT !.allDay = allDay]
                         /\ list = With(events, k, new)
    OBVIOUS
  <2>3. new \in CalEvent(n) /\ new.id = events[k + 1].id
    <3>1. events[k + 1] \in CalEvent(n)
      BY <1>4, <2>1
    <3>. QED  BY <2>2, <3>1 DEF CalEvent
  <2>4. /\ list \in Seq(CalEvent(n)) /\ Len(list) = Len(events)
        /\ list[k + 1] = new
        /\ \A j \in 1 .. Len(events) : j # k + 1 => list[j] = events[j]
    BY <1>4, <2>1, <2>2, <2>3 DEF With
  <2>5. \A j \in 1 .. Len(events) : list[j].id = events[j].id
    BY <2>3, <2>4
  <2>6. DistinctIds(list)
    BY <1>4, <2>4, <2>5 DEF DistinctIds
  <2>. QED  BY <1>1, <1>7, <2>2, <2>4, <2>6, CalendarRequest DEF EventsFit
<1>8. ASSUME NEW id, Request(c, WithEvents(WithoutId(events, id)))
      PROVE  AllFit'
  <2>1. PICK list : list = WithoutId(events, id)
    OBVIOUS
  <2>2. list \in Seq(CalEvent(n)) /\ DistinctIds(list)
    BY <1>4, <2>1, SublistType, SublistDistinct DEF WithoutId, Kept
  <2>. QED  BY <1>1, <1>8, <2>1, <2>2, CalendarRequest DEF EventsFit
<1>9. CASE Request(c, WithEvents(events))
  BY <1>1, <1>5, <1>9, CalendarRequest
<1>10. ASSUME NEW key \in {"view", "focusedDate", "scrollHour"},
              Request(c, Over(Entry(key, "set"), state))
       PROVE  AllFit'
  <2>1. key \notin Watched
    BY DEF Watched, Marks
  <2>2. \A k \in DOMAIN Over(Entry(key, "set"), state) \cap Watched :
          k \in DOMAIN state /\ Over(Entry(key, "set"), state)[k] = state[k]
    BY <2>1 DEF Over, Entry
  <2>. QED  BY <1>10, <2>2, OtherKeysKeep
<1>. QED
  BY <1>1, <1>6, <1>7, <1>8, <1>9, <1>10 DEF CalendarAction

LEMMA PlaylistRequest ==
  ASSUME AllFit, ptype = "board.playlist", NEW c \in Clients, NEW update, Request(c, update),
         DOMAIN update \subseteq {"tracks", "currentIndex", "playing"},
         TracksFit(IF "tracks" \in DOMAIN update THEN update.tracks ELSE Value("tracks", <<>>),
                   IF "currentIndex" \in DOMAIN update THEN update.currentIndex
                                                       ELSE Value("currentIndex", 0))
  PROVE  AllFit'
<1>1. PICK next : next = Over(update, state)
  OBVIOUS
<1>2. TracksFit(At(next, "tracks", <<>>), At(next, "currentIndex", 0))
  BY <1>1, OverAt, ValueIs
<1>3. OwnFits(ptype, next, requests + 1)
  BY <1>2 DEF OwnFits
<1>4. \A key \in DOMAIN update \cap DOMAIN Marks : Marks[key] = ptype
  BY DEF Marks
<1>. QED  BY <1>1, <1>3, <1>4, RequestKeeps

LEMMA PlaylistKeeps ==
  ASSUME AllFit, ptype = "board.playlist", NEW c \in Clients, PlaylistAction(c)
  PROVE  AllFit'
<1>1. PICK tracks, current, last :
        /\ tracks = Value("tracks", <<>>) /\ current = Value("currentIndex", 0)
        /\ last = Len(tracks) - 1
  OBVIOUS
<1>2. TracksFit(tracks, current)
  BY <1>1, ValueIs DEF AllFit, Fits, OwnFits
<1>3. /\ tracks \in Seq({"track"}) /\ Len(tracks) \in Nat /\ last \in Int
      /\ current \in Int /\ current >= -1 /\ (tracks = <<>> <=> last = -1)
      /\ tracks = <<>> => current <= 0
      /\ tracks # <<>> => current <= last /\ last >= 0 /\ last = Len(tracks) - 1
  BY <1>1, <1>2 DEF TracksFit
<1>4. CASE Request(c, [tracks |-> Append(tracks, "track")])
  <2>1. PICK list : list = Append(tracks, "track")
    OBVIOUS
  <2>2. list \in Seq({"track"}) /\ Len(list) = Len(tracks) + 1 /\ list # <<>>
    BY <1>3, <2>1
  <2>3. TracksFit(list, current)
    BY <1>1, <1>3, <2>2 DEF TracksFit
  <2>. QED  BY <1>1, <1>4, <2>1, <2>3, PlaylistRequest
<1>5. ASSUME NEW i \in Places(tracks),
             Request(c, [tracks |-> Without(tracks, i),
                         currentIndex |-> IF last = 0 THEN -1 ELSE 0])
      PROVE  AllFit'
  <2>1. PICK list : list = Without(tracks, i)
    OBVIOUS
  <2>2. list \in Seq({"track"}) /\ Len(list) = Len(tracks) - 1
    BY <1>3, <2>1, WithoutFacts DEF Places
  <2>3. TracksFit(list, IF last = 0 THEN -1 ELSE 0)
    BY <1>1, <1>3, <2>2 DEF TracksFit
  <2>. QED  BY <1>5, <2>1, <2>3, PlaylistRequest
<1>6. ASSUME NEW i \in 0 .. last, Request(c, [currentIndex |-> i, playing |-> TRUE])
      PROVE  AllFit'
  <2>1. TracksFit(tracks, i)
    BY <1>1, <1>3 DEF TracksFit
  <2>. QED  BY <1>1, <1>6, <2>1, PlaylistRequest
<1>7. ASSUME tracks # <<>>, NEW i \in (-1 .. MaxItems) \union {current}
      PROVE  Clamp(i, 0, last) \in 0 .. last
  <2>1. i \in Int
    BY <1>3, BoundsAreNat
  <2>. QED  BY <1>3, <1>7, <2>1 DEF Clamp
<1>8. ASSUME tracks # <<>>
      PROVE  /\ (current + 1) % Len(tracks) \in 0 .. last
             /\ (IF current > 0 THEN current - 1 ELSE last) \in 0 .. last
  BY <1>3, <1>8
<1>9. CASE Request(c, [playing |-> FALSE])
  BY <1>1, <1>2, <1>9, PlaylistRequest
<1>10. CASE Request(c, [playing |-> FALSE, currentIndex |-> 0])
  <2>1. TracksFit(tracks, 0)
    BY <1>1, <1>3 DEF TracksFit
  <2>. QED  BY <1>1, <1>10, <2>1, PlaylistRequest
<1>. QED
  BY <1>1, <1>4, <1>5, <1>6, <1>7, <1>8, <1>9, <1>10 DEF PlaylistAction

LEMMA DirsRequest ==
  ASSUME AllFit, ptype = "board.filetree", NEW c \in Clients, NEW update, Request(c, update),
         DOMAIN update \cap DOMAIN Marks = {"expandedDirs"}, DirsFit(update.expandedDirs)
  PROVE  AllFit'
<1>1. PICK next : next = Over(update, state)
  OBVIOUS
<1>2. DirsFit(At(next, "expandedDirs", <<>>))
  BY <1>1, OverAt
<1>3. OwnFits(ptype, next, requests + 1)
  BY <1>2 DEF OwnFits
<1>4. \A key \in DOMAIN update \cap DOMAIN Marks : Marks[key] = ptype
  BY DEF Marks
<1>. QED  BY <1>1, <1>3, <1>4, RequestKeeps

LEMMA FileTreeKeeps ==
  ASSUME AllFit, ptype = "board.filetree", NEW c \in Clients, FileTreeAction(c)
  PROVE  AllFit'
<1>1. PICK dirs : dirs = Value("expandedDirs", <<>>)
  OBVIOUS
<1>2. DirsFit(dirs)
  BY <1>1, ValueIs DEF AllFit, Fits, OwnFits
<1>3. dirs \in Seq(Ids) /\ Len(dirs) \in Nat
  BY <1>2 DEF DirsFit
<1>4. PICK path \in Ids :
        \/ Request(c, [selectedFile |-> path])
        \/ Request(c, [expandedDirs |-> IF path \in ToSet(dirs) THEN dirs
                                                             ELSE Append(dirs, path)])
        \/ Request(c, [expandedDirs |-> Kept(dirs, LAMBDA e : e # path)])
        \/ Request(c, [rootPath |-> path, expandedDirs |-> <<>>, selectedFile |-> 0])
        \/ Request(c, [refreshAt |-> "now"])
  BY <1>1 DEF FileTreeAction
<1>5. ASSUME NEW list, DirsFit(list), Request(c, [expandedDirs |-> list])
      PROVE  AllFit'
  <2>1. PICK update : update = [expandedDirs |-> list]
    OBVIOUS
  <2>2. DOMAIN update \cap DOMAIN Marks = {"expandedDirs"} /\ update.expandedDirs = list
    BY <2>1 DEF Marks
  <2>. QED  BY <1>5, <2>1, <2>2, DirsRequest
<1>6. CASE Request(c, [selectedFile |-> path])
  <2>1. DOMAIN [selectedFile |-> path] \cap Watched = {}
    BY DEF Watched, Marks
  <2>. QED  BY <1>6, <2>1, OtherKeysKeep
<1>7. CASE Request(c, [expandedDirs |-> IF path \in ToSet(dirs) THEN dirs
                                                              ELSE Append(dirs, path)])
  <2>1. CASE path \in ToSet(dirs)
    BY <1>2, <1>5, <1>7, <2>1
  <2>2. CASE path \notin ToSet(dirs)
    <3>1. PICK list : list = Append(dirs, path)
      OBVIOUS
    <3>2. /\ list \in Seq(Ids) /\ Len(list) = Len(dirs) + 1 /\ list[Len(dirs) + 1] = path
          /\ \A k \in 1 .. Len(dirs) : list[k] = dirs[k] /\ dirs[k] # path
      BY <1>3, <2>2, <3>1, AppendFacts, ToSetFacts
    <3>3. \A k \in 1 .. Len(list) : k \in 1 .. Len(dirs) \/ k = Len(dirs) + 1
      BY <1>3, <3>2
    <3>4. DirsFit(list)
      BY <1>2, <3>2, <3>3 DEF DirsFit
    <3>. QED  BY <1>5, <1>7, <2>2, <3>1, <3>4
  <2>. QED  BY <2>1, <2>2
<1>8. CASE Request(c, [expandedDirs |-> Kept(dirs, LAMBDA e : e # path)])
  <2>1. PICK places, list : /\ places = {k \in DOMAIN dirs : dirs[k] # path}
                            /\ list = Sublist(dirs, places)
    OBVIOUS
  <2>2. PICK e : Shows(dirs, places, list, e)
    BY <1>3, <2>1, SublistShows
  <2>3. list \in Seq(Ids)
    BY <1>3, <2>1, SublistType
  <2>4. ASSUME NEW j \in 1 .. Len(list), NEW k \in 1 .. Len(list), list[j] = list[k]
        PROVE  j = k
    <3>1. /\ e[j] \in 1 .. Len(dirs) /\ e[k] \in 1 .. Len(dirs)
          /\ list[j] = dirs[e[j]] /\ list[k] = dirs[e[k]]
      BY <1>3, <2>2 DEF Shows
    <3>2. e[j] = e[k]
      BY <1>2, <2>4, <3>1 DEF DirsFit
    <3>3. (j < k => e[j] < e[k]) /\ (k < j => e[k] < e[j])
      BY <2>2 DEF Shows
    <3>. QED  BY <2>3, <3>1, <3>2, <3>3
  <2>5. DirsFit(list)
    BY <2>3, <2>4 DEF DirsFit
  <2>6. Kept(dirs, LAMBDA e1 : e1 # path) = list
    BY <2>1 DEF Kept
  <2>. QED  BY <1>5, <1>8, <2>5, <2>6
<1>9. CASE Request(c, [rootPath |-> path, expandedDirs |-> <<>>, selectedFile |-> 0])
  <2>1. PICK update : update = [rootPath |-> path, expandedDirs |-> <<>>, selectedFile |-> 0]
    OBVIOUS
  <2>2. DOMAIN update \cap DOMAIN Marks = {"expandedDirs"} /\ update.expandedDirs = <<>>
    BY <2>1 DEF Marks
  <2>3. DirsFit(<<>>)
    BY DEF DirsFit
  <2>. QED  BY <1>9, <2>1, <2>2, <2>3, DirsRequest
<1>10. CASE Request(c, [refreshAt |-> "now"])
  <2>1. DOMAIN [refreshAt |-> "now"] \cap Watched = {}
    BY DEF Watched, Marks
  <2>. QED  BY <1>10, <2>1, OtherKeysKeep
<1>. QED  BY <1>4, <1>6, <1>7, <1>8, <1>9, <1>10

LEMMA TimerRequest ==
  ASSUME AllFit, ptype = "board.timer", NEW c \in Clients, NEW update, Request(c, update),
         DOMAIN update \cap DOMAIN Marks = {"isRunning", "isPaused"},
         update.isRunning = FALSE \/ update.isPaused = FALSE
  PROVE  AllFit'
<1>1. PICK next : next = Over(update, state)
  OBVIOUS
<1>5. "isRunning" \in DOMAIN update /\ "isPaused" \in DOMAIN update
  OBVIOUS
<1>6. PICK run, pause : run = update["isRunning"] /\ pause = update["isPaused"]
  OBVIOUS
<1>7. /\ "isRunning" \in DOMAIN next /\ next["isRunning"] = run
      /\ "isPaused" \in DOMAIN next /\ next["isPaused"] = pause
  BY <1>1, <1>5, <1>6 DEF Over
<1>8. run = FALSE => At(next, "isRunning", FALSE) = FALSE
  BY <1>7 DEF At
<1>10. pause = FALSE => At(next, "isPaused", FALSE) = FALSE
  BY <1>7 DEF At
<1>9. run = FALSE \/ pause = FALSE
  BY <1>6
<1>2. At(next, "isRunning", FALSE) = FALSE \/ At(next, "isPaused", FALSE) = FALSE
  BY <1>8, <1>9, <1>10
<1>3. OwnFits(ptype, next, requests + 1)
  BY <1>2 DEF OwnFits
<1>4. \A key \in DOMAIN update \cap DOMAIN Marks : Marks[key] = ptype
  BY DEF Marks
<1>. QED  BY <1>1, <1>3, <1>4, RequestKeeps

LEMMA TimerKeeps ==
  ASSUME AllFit, ptype = "board.timer", NEW c \in Clients, TimerAction(c)
  PROVE  AllFit'
<1>. DEFINE own == Value("duration", 300)
            stopped == [isRunning |-> FALSE, isPaused |-> FALSE, completed |-> FALSE]
            to(d) == [duration |-> DurationArg(d), remaining |-> DurationArg(d)]
<1>1. ASSUME NEW update, Request(c, update),
             \/ \E d : update = Over(to(d), stopped)
             \/ \E d : update = Over(to(d), [stopped EXCEPT !.isRunning = TRUE])
             \/ update = Over([remaining |-> DurationArg(own)], stopped)
      PROVE  AllFit'
  <2>1. DOMAIN update \cap DOMAIN Marks = {"isRunning", "isPaused"}
    BY <1>1 DEF Over, Marks
  <2>2. update.isPaused = FALSE
    BY <1>1 DEF Over
  <2>. QED  BY <1>1, <2>1, <2>2, TimerRequest
<1>2. ASSUME NEW run \in BOOLEAN, NEW pause \in BOOLEAN, run = FALSE \/ pause = FALSE,
             Request(c, [isRunning |-> run, isPaused |-> pause])
      PROVE  AllFit'
  <2>1. PICK update : update = [isRunning |-> run, isPaused |-> pause]
    OBVIOUS
  <2>2. /\ DOMAIN update \cap DOMAIN Marks = {"isRunning", "isPaused"}
        /\ update.isRunning = run /\ update.isPaused = pause
    BY <2>1 DEF Marks
  <2>. QED  BY <1>2, <2>1, <2>2, TimerRequest
<1>3. \/ \E d : \/ Request(c, Over(to(d), stopped))
                \/ Request(c, Over(to(d), [stopped EXCEPT !.isRunning = TRUE]))
      \/ Request(c, [isRunning |-> FALSE, isPaused |-> TRUE])
      \/ Request(c, [isRunning |-> TRUE, isPaused |-> FALSE])
      \/ Request(c, Over([remaining |-> DurationArg(own)], stopped))
  BY DEF TimerAction
<1>4. CASE \E d : \/ Request(c, Over(to(d), stopped))
                  \/ Request(c, Over(to(d), [stopped EXCEPT !.isRunning = TRUE]))
  <2>1. PICK d : \/ Request(c, Over(to(d), stopped))
                 \/ Request(c, Over(to(d), [stopped EXCEPT !.isRunning = TRUE]))
    BY <1>4
  <2>2. PICK set, start : /\ set = Over(to(d), stopped)
                          /\ start = Over(to(d), [stopped EXCEPT !.isRunning = TRUE])
    OBVIOUS
  <2>3. Request(c, set) \/ Request(c, start)
    BY <2>1, <2>2
  <2>. HIDE DEF to, stopped
  <2>. QED  BY <1>1, <2>2, <2>3
<1>5. CASE Request(c, [isRunning |-> FALSE, isPaused |-> TRUE])
  BY <1>2, <1>5
<1>6. CASE Request(c, [isRunning |-> TRUE, isPaused |-> FALSE])
  BY <1>2, <1>6
<1>7. CASE Request(c, Over([remaining |-> DurationArg(own)], stopped))
  <2>1. PICK reset : reset = Over([remaining |-> DurationArg(own)], stopped)
    OBVIOUS
  <2>2. Request(c, reset)
    BY <1>7, <2>1
  <2>. HIDE DEF own, stopped
  <2>. QED  BY <1>1, <2>1, <2>2
<1>. QED  BY <1>3, <1>4, <1>5, <1>6, <1>7

-----------------------------------------------------------------------------
(* The other panels, and all of them.                                      *)

LEMMA OthersKeep ==
  ASSUME AllFit, NEW c \in Clients,
         \/ ChecklistAction(c) \/ FilesAction(c) \/ SetupGuideAction(c)
         \/ ChatAction(c) \/ ChartAction(c)
  PROVE  AllFit'
<1>1. ASSUME NEW update, Request(c, update),
             DOMAIN update \subseteq {"items", "files", "selectedPath", "selectedPackageIds",
                                     "messages", "configured", "config"}
      PROVE  AllFit'
  <2>1. DOMAIN update \cap Watched = {}
    BY <1>1 DEF Watched, Marks
  <2>. QED  BY <1>1, <2>1, OtherKeysKeep
<1>2. CASE ChecklistAction(c)
  <2>1. \E list : Request(c, [items |-> list])
    BY <1>2 DEF ChecklistAction
  <2>. QED  BY <1>1, <2>1
<1>3. CASE FilesAction(c)
  <2>1. \E list : Request(c, [files |-> list]) \/ Request(c, [selectedPath |-> list])
    BY <1>3 DEF FilesAction
  <2>. QED  BY <1>1, <2>1
<1>4. CASE SetupGuideAction(c)
  <2>1. \E list : Request(c, [selectedPackageIds |-> list])
    BY <1>4 DEF SetupGuideAction
  <2>. QED  BY <1>1, <2>1
<1>5. CASE ChatAction(c)
  <2>1. \E list : \/ Request(c, [messages |-> list, configured |-> TRUE])
                  \/ Request(c, [config |-> list, configured |-> TRUE])
                  \/ Request(c, [messages |-> list])
    BY <1>5 DEF ChatAction
  <2>. QED  BY <1>1, <2>1
<1>6. CASE ChartAction(c)
  <2>1. PICK key, value : Request(c, Over(Entry(key, value), state)) /\ key \notin Watched
    <3>1. /\ "tablePanelId" \notin Watched
          /\ \A key \in {"data", "type", "xKey", "yKey", "groupKey", "animated", "tablePanelId"} :
               key \notin Watched
      BY DEF Watched, Marks
    <3>2. [tablePanelId |-> "nil"] = Entry("tablePanelId", "nil")
      BY DEF Entry
    <3>. QED  BY <1>6, <3>1, <3>2 DEF ChartAction
  <2>2. \A k \in DOMAIN Over(Entry(key, value), state) \cap Watched :
          k \in DOMAIN state /\ Over(Entry(key, value), state)[k] = state[k]
    BY <2>1 DEF Over, Entry
  <2>. QED  BY <2>1, <2>2, OtherKeysKeep
<1>. QED  BY <1>2, <1>3, <1>4, <1>5, <1>6

LEMMA StoreKeeps ==
  ASSUME AllFit, NEW c \in Clients, Store(c)
  PROVE  AllFit'
<1>1. /\ state' = pending[c].next /\ ptype' = ptype /\ requests' = requests
      /\ pending' = [pending EXCEPT ![c] = Idle] /\ pending[c] # Idle
  BY DEF Store
<1>2. \A d \in Clients : pending'[d] = IF d = c THEN Idle ELSE pending[d]
  BY <1>1 DEF AllFit
<1>3. DOMAIN pending' = Clients
  BY <1>1 DEF AllFit
<1>. QED  BY <1>1, <1>2, <1>3 DEF AllFit

LEMMA AllFitInit == Init => AllFit
<1>. SUFFICES ASSUME Init PROVE AllFit
  OBVIOUS
<1>1. DOMAIN state \subseteq {"columns", "cards"} /\ (DOMAIN state # {} => ptype = "board.kanban")
  BY DEF Init, InitialStates, NoKeys
<1>2. DOMAIN state \cap DOMAIN Marks = {}
  BY <1>1 DEF Marks
<1>3. ptype = "board.kanban" =>
        CardsFit(At(state, "columns", InitialColumns), At(state, "cards", <<>>))
  <2>1. PICK card : card = [id |-> 1, column |-> "Done"]
    OBVIOUS
  <2>2. card \in Card /\ DOMAIN card = {"id", "column"}
    BY <2>1 DEF Card, CardIds
  <2>3. \A columns : InPlace(columns, card)
    BY <2>2 DEF InPlace
  <2>4. CardsFit(InitialColumns, <<>>) /\ CardsFit(InitialColumns, <<card>>)
    BY <2>2, <2>3, InitialColumnsFit DEF CardsFit
  <2>5. ptype = "board.kanban" =>
          state = NoKeys \/ state = [columns |-> InitialColumns, cards |-> <<card>>]
    BY <2>1 DEF Init, InitialStates
  <2>. QED  BY <2>4, <2>5 DEF At, NoKeys
<1>4. ptype # "board.kanban" => \A key, fallback : At(state, key, fallback) = fallback
  BY <1>1 DEF At
<1>5. /\ RowsFit(<<>>, <<>>) /\ EventsFit(<<>>, 0, 0) /\ TracksFit(<<>>, 0) /\ DirsFit(<<>>)
  BY DEF RowsFit, EventsFit, TracksFit, DirsFit, DistinctIds
<1>6. OwnFits(ptype, state, 0)
  BY <1>3, <1>4, <1>5 DEF OwnFits
<1>. QED  BY <1>2, <1>6 DEF Init, AllFit, Fits

LEMMA AllFitNext == AllFit /\ [Next]_vars => AllFit'
<1>. SUFFICES ASSUME AllFit, [Next]_vars PROVE AllFit'
  OBVIOUS
<1>1. ASSUME NEW c \in Clients, PanelAction(c) PROVE AllFit'
  BY <1>1, KanbanKeeps, TableKeeps, CalendarKeeps, PlaylistKeeps, FileTreeKeeps,
     TimerKeeps, OthersKeep DEF PanelAction
<1>2. ASSUME NEW c \in Clients, Store(c) PROVE AllFit'
  BY <1>2, StoreKeeps
<1>3. CASE UNCHANGED vars
  BY <1>3 DEF vars, AllFit
<1>. QED  BY <1>1, <1>2, <1>3 DEF Next, Done

LEMMA AllFitHolds == Spec => []AllFit
  BY AllFitInit, AllFitNext, PTL DEF Spec

(* A card stays in the column its user put it into, whatever columns come  *)
(* and go and whichever of several requests is stored last.                *)
THEOREM CardsStayInTheirColumnHolds == Spec => []CardsStayInTheirColumn
<1>1. AllFit => CardsStayInTheirColumn
  <2>. SUFFICES ASSUME AllFit, ptype = "board.kanban" PROVE CardsStayInTheirColumn
    BY DEF CardsStayInTheirColumn
  <2>1. CardsFit(Value("columns", InitialColumns), Value("cards", <<>>))
    BY ValueIs DEF AllFit, Fits, OwnFits
  <2>. QED  BY <2>1 DEF CardsFit, InPlace, CardsStayInTheirColumn
<1>. QED  BY <1>1, AllFitHolds, PTL

(* A row that add-row made while the columns had different ids has one     *)
(* cell per column, of the column's type, whatever columns are added,      *)
(* removed and added again with another type, and although a client may    *)
(* also set a table in which two columns share an id.                      *)
THEOREM RowsFitColumnsHolds == Spec => []RowsFitColumns
<1>1. AllFit => RowsFitColumns
  <2>. SUFFICES ASSUME AllFit, ptype = "board.table" PROVE RowsFitColumns
    BY DEF RowsFitColumns
  <2>1. PICK columns, rows : columns = Value("columns", <<>>) /\ rows = Value("rows", <<>>)
    OBVIOUS
  <2>2. RowsFit(columns, rows)
    BY <2>1, ValueIs DEF AllFit, Fits, OwnFits
  <2>3. columns \in Seq(TableColumn) /\ rows \in Seq(Row)
    BY <2>2 DEF RowsFit
  <2>4. ASSUME NEW k \in DOMAIN rows, rows[k].by = "add-row"
        PROVE  rows[k].cells = [id \in ColumnIds(columns) |-> TypeOf(columns, id)]
    <3>1. PICK cells : cells = rows[k].cells
      OBVIOUS
    <3>2. CellsFit(columns, cells)
      BY <2>2, <2>3, <2>4, <3>1 DEF RowsFit
    <3>3. rows[k] \in Row
      BY <2>3, <2>4
    <3>4. cells \in Cells
      BY <3>1, <3>3 DEF Row
    <3>5. \A id \in ColumnIds(columns) : cells[id] = TypeOf(columns, id)
      BY <2>3, <3>2, ColumnIdsAre, TypeOfColumn DEF CellsFit
    <3>6. DOMAIN cells = ColumnIds(columns) /\ cells = [id \in DOMAIN cells |-> cells[id]]
      BY <3>2, <3>4, CellsAre DEF CellsFit
    <3>. QED  BY <3>1, <3>5, <3>6
  <2>. QED  BY <2>1, <2>4 DEF RowsFitColumns
<1>. QED  BY <1>1, AllFitHolds, PTL

(* What a panel stores beside a list agrees with the list, whichever of    *)
(* several requests is stored last.                                        *)
THEOREM MarkersAgreeHolds == Spec => []MarkersAgree
<1>1. AllFit => MarkersAgree
  <2>. SUFFICES ASSUME AllFit PROVE MarkersAgree
    OBVIOUS
  <2>1. \A key \in DOMAIN Marks : \A fallback :
          Marks[key] # ptype => Value(key, fallback) = fallback
    BY DEF AllFit, Fits, Value
  <2>2. /\ Marks["currentIndex"] = "board.playlist" /\ Marks["tracks"] = "board.playlist"
        /\ Marks["events"] = "board.calendar" /\ Marks["eventCount"] = "board.calendar"
        /\ Marks["expandedDirs"] = "board.filetree"
        /\ Marks["isRunning"] = "board.timer" /\ Marks["isPaused"] = "board.timer"
        /\ {"currentIndex", "tracks", "events", "eventCount", "expandedDirs",
            "isRunning", "isPaused"} \subseteq DOMAIN Marks
    BY DEF Marks
  <2>3. TracksFit(Value("tracks", <<>>), Value("currentIndex", 0))
    <3>1. TracksFit(<<>>, 0)
      BY DEF TracksFit
    <3>. QED  BY <2>1, <2>2, <3>1, ValueIs DEF AllFit, Fits, OwnFits
  <2>4. /\ DistinctIds(Value("events", <<>>)) /\ Len(Value("events", <<>>)) \in Nat
        /\ Value("eventCount", 0) = Len(Value("events", <<>>))
    <3>1. DistinctIds(<<>>) /\ Len(<<>>) = 0
      BY DEF DistinctIds
    <3>2. CASE ptype = "board.calendar"
      BY <3>2, ValueIs DEF AllFit, Fits, OwnFits, EventsFit
    <3>3. CASE ptype # "board.calendar"
      <4>1. Value("events", <<>>) = <<>> /\ Value("eventCount", 0) = 0
        BY <2>1, <2>2, <3>3
      <4>. QED  BY <3>1, <4>1
    <3>. QED  BY <3>2, <3>3
  <2>5. DirsFit(Value("expandedDirs", <<>>))
    <3>1. DirsFit(<<>>)
      BY DEF DirsFit
    <3>. QED  BY <2>1, <2>2, <3>1, ValueIs DEF AllFit, Fits, OwnFits
  <2>6. Value("isRunning", FALSE) = FALSE \/ Value("isPaused", FALSE) = FALSE
    BY <2>1, <2>2, ValueIs DEF AllFit, Fits, OwnFits
  <2>7. IsInjective(Value("expandedDirs", <<>>))
    <3>1. PICK dirs : dirs = Value("expandedDirs", <<>>)
      OBVIOUS
    <3>2. dirs \in Seq(Ids) /\ \A j, k \in 1 .. Len(dirs) : dirs[j] = dirs[k] => j = k
      BY <2>5, <3>1 DEF DirsFit
    <3>3. IsInjective(dirs)
      BY <3>2 DEF IsInjective
    <3>. QED  BY <3>1, <3>3
  <2>8. Value("currentIndex", 0) \in
          -1 .. (IF Len(Value("tracks", <<>>)) - 1 < 0 THEN 0
                                                     ELSE Len(Value("tracks", <<>>)) - 1)
    <3>1. PICK tracks : tracks = Value("tracks", <<>>)
      OBVIOUS
    <3>2. Len(tracks) \in Nat /\ (tracks = <<>> <=> Len(tracks) = 0)
      BY <2>3, <3>1 DEF TracksFit
    <3>. QED  BY <2>3, <3>1, <3>2 DEF TracksFit
  <2>. QED  BY <2>4, <2>6, <2>7, <2>8 DEF MarkersAgree
<1>. QED  BY <1>1, AllFitHolds, PTL
=============================================================================

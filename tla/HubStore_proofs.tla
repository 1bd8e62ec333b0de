--------------------------- MODULE HubStore_proofs ---------------------------
(***************************************************************************)
(* What holds of the hub's store whatever the requests, the system calls   *)
(* that fail and the crashes.  The four invariants hang together: who the  *)
(* active board is rests on what a save is about to write, that on the     *)
(* ids in use being distinct and at most lastId, and all of it on the      *)
(* order of the five steps of a save.                                      *)
(***************************************************************************)
EXTENDS HubStore, Lists_proofs

-----------------------------------------------------------------------------
(* The inductive invariant. *)

(* A board is a record of these fields; the panels, links and groups may   *)
(* be whatever a client has put there.                                     *)
IsBoard(b) ==
  /\ DOMAIN b = {"id", "revision", "archived", "panels", "links", "groups"}
  /\ b.id \in Nat /\ b.revision \in Nat

IsList(list) == list \in Seq(ToSet(list))

IsBoardList(boards) ==
  /\ IsList(boards)
  /\ \A k \in DOMAIN boards : IsBoard(boards[k])
  /\ \A j, k \in DOMAIN boards : boards[j].id = boards[k].id => j = k

Places == {"tmp", "remove", "rename", "active", "event"}

ShapesOK ==
  /\ "boards" \in DOMAIN disk => IsBoardList(disk.boards)
  /\ \/ saving = NoSave
     \/ /\ DOMAIN saving = {"at", "by", "boards", "active", "event"}
        /\ saving.at \in Places /\ saving.by \in Clients \union {Startup}
        /\ IsBoardList(saving.boards) /\ saving.event \in BOOLEAN
  /\ DOMAIN pending = Clients
  /\ lastId \in Nat /\ faults \in Nat

(* No id is used before nextID has given it out.                           *)
IdsGivenOut ==
  /\ BoardIds(Boards) \subseteq 0 .. lastId
  /\ ~Unlocked => BoardIds(saving.boards) \subseteq 0 .. lastId
  /\ deleted \subseteq 0 .. lastId
  /\ \A c \in Clients : pending[c].op \notin {"none", "create"} =>
                          pending[c].seen.id \in 0 .. lastId

(* Once renamed, the new boards are the boards on disk.                    *)
SavedOnce ==
  saving.at \in {"active", "event"} => "boards" \in DOMAIN disk /\ disk.boards = saving.boards

Names(active, boards) ==
  IF boards = << >> THEN active = NoActive ELSE active \in BoardIds(boards)

ActiveInv ==
  faults = 0 =>
    /\ saving.at \in {"none", "event"} => Names(ActiveId, Boards)
    /\ ~Unlocked => Names(IF saving.active = RemoveActive THEN NoActive ELSE saving.active,
                          saving.boards)

ForwardInv ==
  /\ BoardsOnlyGoForward
  /\ ~Unlocked => BoardIds(saving.boards) \intersect deleted = {}
  /\ saving.at \in {"tmp", "remove", "rename"} /\ saving.by # Startup
     /\ pending[saving.by].op = "delete" =>
       pending[saving.by].seen.id \notin BoardIds(saving.boards)

(* What CopyOnDisk's steps rest on: a save keeps the boards that are in    *)
(* boards.json and not to be deleted, and it has written them all to       *)
(* boards.json.tmp before it touches boards.json.                          *)
CopyInv ==
  /\ saving.at \in {"tmp", "remove"} /\ "boards" \in DOMAIN disk =>
       kept \intersect BoardIds(Boards) \subseteq BoardIds(saving.boards)
  /\ saving.at \in {"remove", "rename"} =>
       "tmp" \in DOMAIN disk /\ disk.tmp = [whole |-> TRUE, boards |-> saving.boards]
  /\ saving.at = "rename" => "boards" \notin DOMAIN disk

StoreInv ==
  /\ ShapesOK /\ IdsGivenOut /\ SavedOnce
  /\ ActiveInv /\ ForwardInv /\ CopyInv /\ WorkOfOthersIsKept

-----------------------------------------------------------------------------
(* Lists of boards: what a creation, a deletion and an update make of one. *)

LEMMA OwnElements ==
  ASSUME NEW S, NEW list \in Seq(S)
  PROVE  IsList(list)
  BY DEF IsList, ToSet

LEMMA NoBoards == IsBoardList(<< >>)
<1>1. << >> \in Seq({}) /\ DOMAIN << >> = {}
  OBVIOUS
<1>. QED  BY <1>1, OwnElements DEF IsBoardList

LEMMA NoIds ==
  ASSUME NEW boards, IsBoardList(boards)
  PROVE  BoardIds(boards) = {} <=> boards = << >>
<1>1. CASE boards # << >>
  <2>1. 1 \in DOMAIN boards
    BY <1>1 DEF IsBoardList, IsList
  <2>. QED  BY <1>1, <2>1 DEF BoardIds
<1>2. CASE boards = << >>
  BY <1>2 DEF BoardIds
<1>. QED  BY <1>1, <1>2

(* A board at the end, under an id of its own.                             *)
LEMMA BoardsAppend ==
  ASSUME NEW boards, IsBoardList(boards), NEW b, IsBoard(b), b.id \notin BoardIds(boards)
  PROVE  /\ IsBoardList(Append(boards, b)) /\ Append(boards, b) # << >>
         /\ BoardIds(Append(boards, b)) = BoardIds(boards) \union {b.id}
         /\ ToSet(Append(boards, b)) = ToSet(boards) \union {b}
<1>1. PICK S : S = ToSet(boards) \union {b}
  OBVIOUS
<1>2. boards \in Seq(S) /\ b \in S
  BY <1>1, SeqGrow DEF IsBoardList, IsList
<1>3. PICK new : new = Append(boards, b)
  OBVIOUS
<1>4. PICK n : n = Len(boards)
  OBVIOUS
<1>5. /\ n \in Nat /\ DOMAIN boards = 1 .. n /\ DOMAIN new = 1 .. n + 1
      /\ new \in Seq(S) /\ new # << >>
      /\ \A k \in 1 .. n : new[k] = boards[k]
      /\ new[n + 1] = b
  BY <1>2, <1>3, <1>4, AppendFacts
<1>6. IsList(new)
  BY <1>5, OwnElements
<1>7. \A k \in DOMAIN new : k \in DOMAIN boards \/ k = n + 1
  BY <1>5
<1>8. \A k \in DOMAIN boards : k \in DOMAIN new /\ new[k] = boards[k] /\ boards[k].id # b.id
  BY <1>5 DEF BoardIds
<1>9. n + 1 \in DOMAIN new
  BY <1>5
<1>10. IsBoardList(new)
  BY <1>5, <1>6, <1>7, <1>8 DEF IsBoardList
<1>11. BoardIds(new) = BoardIds(boards) \union {b.id}
  BY <1>5, <1>7, <1>8, <1>9 DEF BoardIds
<1>12. ToSet(new) = ToSet(boards) \union {b}
  BY <1>5, <1>7, <1>8, <1>9 DEF ToSet
<1>. QED  BY <1>3, <1>5, <1>10, <1>11, <1>12

(* All boards but one.                                                     *)
AllBut(boards, id) == Sublist(boards, {k \in DOMAIN boards : boards[k].id # id})

LEMMA BoardsWithout ==
  ASSUME NEW boards, IsBoardList(boards), NEW id, NEW left, left = AllBut(boards, id)
  PROVE  /\ IsBoardList(left)
         /\ BoardIds(left) = BoardIds(boards) \ {id}
         /\ ToSet(left) = {b \in ToSet(boards) : b.id # id}
<1>1. PICK places : places = {k \in DOMAIN boards : boards[k].id # id}
  OBVIOUS
<1>2. boards \in Seq(ToSet(boards))
  BY DEF IsBoardList, IsList
<1>3. left \in Seq(ToSet(boards))
  BY <1>1, <1>2, SublistType DEF AllBut
<1>4. PICK e : Shows(boards, places, left, e)
  BY <1>1, <1>2, SublistShows DEF AllBut
<1>5. Len(left) \in Nat /\ DOMAIN left = 1 .. Len(left)
  BY <1>3
<1>6. \A i \in DOMAIN left :
        e[i] \in DOMAIN boards /\ left[i] = boards[e[i]] /\ boards[e[i]].id # id
  BY <1>1, <1>4, <1>5 DEF Shows
<1>7. \A i, j \in DOMAIN left : e[i] = e[j] => i = j
  <2>1. \A i, j \in 1 .. Len(left) : i < j => e[i] < e[j]
    BY <1>4 DEF Shows
  <2>2. \A i \in 1 .. Len(left) : e[i] \in Int
    <3>1. DOMAIN boards \subseteq Int
      BY <1>2
    <3>. QED  BY <1>5, <1>6, <3>1
  <2>. QED  BY <1>5, <2>1, <2>2
<1>8. \A k \in DOMAIN boards : boards[k].id # id => \E i \in DOMAIN left : left[i] = boards[k]
  <2>1. SUFFICES ASSUME NEW k \in DOMAIN boards, boards[k].id # id
                 PROVE  \E i \in DOMAIN left : left[i] = boards[k]
    OBVIOUS
  <2>2. k \in (DOMAIN boards) \cap places
    BY <1>1, <2>1
  <2>3. PICK i \in 1 .. Len(left) : e[i] = k
    BY <1>4, <2>2 DEF Shows
  <2>. QED  BY <1>5, <1>6, <2>3
<1>9. IsBoardList(left)
  <2>1. IsList(left)
    BY <1>3, OwnElements
  <2>2. \A k \in DOMAIN left : IsBoard(left[k])
    BY <1>6 DEF IsBoardList
  <2>3. \A j, k \in DOMAIN left : left[j].id = left[k].id => j = k
    <3>1. SUFFICES ASSUME NEW j \in DOMAIN left, NEW k \in DOMAIN left,
                          left[j].id = left[k].id
                   PROVE  j = k
      OBVIOUS
    <3>2. e[j] = e[k]
      BY <1>6, <3>1 DEF IsBoardList
    <3>. QED  BY <1>7, <3>2
  <2>. QED  BY <2>1, <2>2, <2>3 DEF IsBoardList
<1>10. BoardIds(left) = BoardIds(boards) \ {id}
  <2>1. \A x \in BoardIds(left) : x \in BoardIds(boards) /\ x # id
    BY <1>6 DEF BoardIds
  <2>2. \A x \in BoardIds(boards) : x # id => x \in BoardIds(left)
    BY <1>8 DEF BoardIds
  <2>. QED  BY <2>1, <2>2
<1>11. ToSet(left) = {b \in ToSet(boards) : b.id # id}
  <2>1. \A x \in ToSet(left) : x \in ToSet(boards) /\ x.id # id
    BY <1>6 DEF ToSet
  <2>2. \A x \in ToSet(boards) : x.id # id => x \in ToSet(left)
    BY <1>8 DEF ToSet
  <2>. QED  BY <2>1, <2>2
<1>. QED  BY <1>9, <1>10, <1>11

(* One board in the place of an earlier state of it.                       *)
PutAt(boards, k, b) == [boards EXCEPT ![k] = b]

LEMMA BoardsExcept ==
  ASSUME NEW boards, IsBoardList(boards), NEW k \in DOMAIN boards, NEW b, IsBoard(b),
         b.id = boards[k].id, NEW new, new = PutAt(boards, k, b)
  PROVE  /\ IsBoardList(new) /\ new # << >>
         /\ BoardIds(new) = BoardIds(boards)
         /\ \A old \in ToSet(boards) : old = boards[k] \/ (old.id # b.id /\ old \in ToSet(new))
         /\ \A x \in ToSet(new) : x = b \/ (x.id # b.id /\ x \in ToSet(boards))
         /\ b \in ToSet(new)
<1>1. PICK S : S = ToSet(boards) \union {b}
  OBVIOUS
<1>2. boards \in Seq(S) /\ b \in S
  BY <1>1, SeqGrow DEF IsBoardList, IsList
<1>3. new \in Seq(S) /\ DOMAIN new = DOMAIN boards
  BY <1>2 DEF PutAt
<1>4. new[k] = b /\ \A j \in DOMAIN boards : j # k => new[j] = boards[j]
  BY <1>2 DEF PutAt
<1>5. IsList(new)
  BY <1>3, OwnElements
<1>6. IsBoardList(new)
  BY <1>3, <1>4, <1>5 DEF IsBoardList
<1>7. BoardIds(new) = BoardIds(boards)
  BY <1>3, <1>4 DEF BoardIds
<1>8. new # << >>
  BY <1>3
<1>9. \A old \in ToSet(boards) : old = boards[k] \/ (old.id # b.id /\ old \in ToSet(new))
  BY <1>3, <1>4 DEF ToSet, IsBoardList
<1>10. \A x \in ToSet(new) : x = b \/ (x.id # b.id /\ x \in ToSet(boards))
  BY <1>3, <1>4 DEF ToSet, IsBoardList
<1>11. b \in ToSet(new)
  BY <1>3, <1>4 DEF ToSet
<1>. QED  BY <1>6, <1>7, <1>8, <1>9, <1>10, <1>11

-----------------------------------------------------------------------------
(* What a request makes of its board.                                      *)

(* The new board has all that the old one has, but for what q asks for.    *)
Keeps(q, old, new) ==
  /\ q.op = "groups" \/ Replaces(q, "metadata") \/ new.groups = old.groups
  /\ \A p \in old.panels \ new.panels :
       Replaces(q, "panels") \/ (q.op = "remove" /\ p = q.panel)
  /\ \A l \in DOMAIN old.links \ DOMAIN new.links :
       \/ Replaces(q, "links")
       \/ q.op = "unlink" /\ l = q.id
       \/ q.op = "remove" /\ q.panel \in old.links[l]

Fields == {"id", "revision", "archived", "panels", "links", "groups"}

LEMMA MutateFacts ==
  ASSUME NEW q, NEW board, IsBoard(board)
  PROVE  /\ DOMAIN Mutate(q, board) = Fields
         /\ Mutate(q, board).id = board.id
         /\ q.op # "put" => Mutate(q, board).revision = board.revision
         /\ Keeps(q, board, Mutate(q, board))
<1>1. CASE q.op = "archive"
  BY <1>1 DEF Mutate, Keeps, Fields, IsBoard
<1>2. CASE q.op = "put"
  <2>1. Mutate(q, board) = ApplyBody(q.body, board)
    BY <1>2 DEF Mutate
  <2>2. PICK body, new : body = q.body /\ new = ApplyBody(body, board)
    OBVIOUS
  <2>3. /\ DOMAIN new = Fields /\ new.id = board.id
        /\ "metadata" \in DOMAIN body \/ new.groups = board.groups
        /\ "panels" \in DOMAIN body \/ new.panels = board.panels
        /\ "links" \in DOMAIN body \/ new.links = board.links
    BY <2>2 DEF ApplyBody, IsBoard, Fields
  <2>. QED  BY <1>2, <2>1, <2>2, <2>3 DEF Keeps, Replaces
<1>3. CASE q.op = "groups"
  BY <1>3 DEF Mutate, Keeps, Fields, IsBoard
<1>4. CASE q.op = "link"
  BY <1>4 DEF Mutate, Keeps, Fields, IsBoard, With
<1>5. CASE q.op = "unlink"
  BY <1>5 DEF Mutate, Keeps, Fields, IsBoard, Without
<1>6. CASE q.op = "add"
  BY <1>6 DEF Mutate, Keeps, Fields, IsBoard
<1>7. CASE q.op = "remove"
  BY <1>7 DEF Mutate, Keeps, Fields, IsBoard, RemovePanel, Restrict
<1>8. CASE q.op \notin {"archive", "put", "groups", "link", "unlink", "add", "remove"}
  BY <1>8 DEF Mutate, Keeps, Fields, IsBoard
<1>. QED  BY <1>1, <1>2, <1>3, <1>4, <1>5, <1>6, <1>7, <1>8

(* The board's own id, no lower revision, and what others have put there.  *)
LEMMA UpdatedFacts ==
  ASSUME NEW q, NEW board, IsBoard(board), NEW recorded \in Recorded(q, board)
  PROVE  /\ IsBoard(Updated(q, board, recorded))
         /\ Updated(q, board, recorded).id = board.id
         /\ Updated(q, board, recorded).revision >= board.revision
         /\ Keeps(q, board, Updated(q, board, recorded))
         /\ recorded \in BOOLEAN
<1>1. recorded \in BOOLEAN
  BY DEF Recorded
<1>2. PICK new : new = Mutate(q, board)
  OBVIOUS
<1>3. /\ DOMAIN new = Fields /\ new.id = board.id
      /\ q.op # "put" => new.revision = board.revision
      /\ Keeps(q, board, new)
  BY <1>2, MutateFacts
<1>4. recorded \/ new.revision = board.revision
  <2>1. CASE q.op # "put"
    BY <1>3, <2>1
  <2>2. CASE q.op = "put" /\ new = board
    BY <2>2
  <2>3. CASE q.op = "put" /\ new # board
    BY <1>2, <2>3 DEF Recorded
  <2>. QED  BY <2>1, <2>2, <2>3
<1>5. board.revision \in Nat /\ board.id \in Nat
  BY DEF IsBoard
<1>6. PICK r : r = IF recorded THEN board.revision + 1 ELSE new.revision
  OBVIOUS
<1>7. r \in Nat /\ r >= board.revision
  BY <1>1, <1>4, <1>5, <1>6
<1>8. Updated(q, board, recorded) = [new EXCEPT !.revision = r]
  BY <1>2, <1>6 DEF Updated
<1>9. PICK end : end = [new EXCEPT !.revision = r]
  OBVIOUS
<1>10. /\ DOMAIN end = Fields /\ end.id = board.id /\ end.revision = r
       /\ end.groups = new.groups /\ end.panels = new.panels /\ end.links = new.links
  BY <1>3, <1>9 DEF Fields
<1>11. IsBoard(end)
  BY <1>5, <1>7, <1>10 DEF IsBoard, Fields
<1>12. Keeps(q, board, end)
  BY <1>3, <1>10 DEF Keeps
<1>. QED  BY <1>1, <1>7, <1>8, <1>9, <1>10, <1>11, <1>12

-----------------------------------------------------------------------------
(* The files. *)

LEMMA WithFacts ==
  ASSUME NEW f, NEW x, NEW v
  PROVE  /\ DOMAIN With(f, x, v) = DOMAIN f \union {x} /\ With(f, x, v)[x] = v
         /\ \A y \in DOMAIN f : y # x => With(f, x, v)[y] = f[y]
  BY DEF With

LEMMA WithoutFacts ==
  ASSUME NEW f, NEW x
  PROVE  /\ DOMAIN Without(f, x) = DOMAIN f \ {x}
         /\ \A y \in DOMAIN f : y # x => Without(f, x)[y] = f[y]
  BY DEF Without

(* Nothing that happens to the other files is seen in boards.json.         *)
LEMMA SameBoards ==
  ASSUME "boards" \in DOMAIN disk' <=> "boards" \in DOMAIN disk,
         "boards" \in DOMAIN disk => disk'.boards = disk.boards
  PROVE  Boards' = Boards
  BY DEF Boards

LEMMA SameActive ==
  ASSUME "active" \in DOMAIN disk' <=> "active" \in DOMAIN disk,
         "active" \in DOMAIN disk => disk'.active = disk.active
  PROVE  ActiveId' = ActiveId
  BY DEF ActiveId

(* A call cut short never touches boards.json, and a file only while it is *)
(* being written.                                                          *)
LEMMA CutShortFacts ==
  ASSUME NEW files \in CutShort
  PROVE  /\ "boards" \in DOMAIN files <=> "boards" \in DOMAIN disk
         /\ "boards" \in DOMAIN disk => files.boards = disk.boards
         /\ saving.at # "tmp" =>
              /\ "tmp" \in DOMAIN files <=> "tmp" \in DOMAIN disk
              /\ "tmp" \in DOMAIN disk => files.tmp = disk.tmp
<1>1. CASE files = disk
  BY <1>1
<1>2. CASE saving.at = "tmp" /\ files = With(disk, "tmp", [whole |-> FALSE, boards |-> << >>])
  <2>1. DOMAIN files = DOMAIN disk \union {"tmp"}
    BY <1>2 DEF With
  <2>2. \A y \in DOMAIN disk \ {"tmp"} : files[y] = disk[y]
    BY <1>2 DEF With
  <2>. QED  BY <1>2, <2>1, <2>2
<1>3. CASE saving.at = "active" /\ files = With(disk, "active", NoActive)
  <2>1. DOMAIN files = DOMAIN disk \union {"active"}
    BY <1>3 DEF With
  <2>2. \A y \in DOMAIN disk \ {"active"} : files[y] = disk[y]
    BY <1>3 DEF With
  <2>. QED  BY <1>3, <2>1, <2>2
<1>. QED  BY <1>1, <1>2, <1>3 DEF CutShort

-----------------------------------------------------------------------------
(* The steps. *)

LEMMA StoreInvInit ==
  ASSUME Init
  PROVE  StoreInv
<1>1. PICK old \in OldBoards :
        disk = IF old = << >> THEN << >> ELSE [boards |-> old, active |-> old[1].id]
  BY DEF Init
<1>2. /\ saving = NoSave /\ Unlocked /\ saving.at = "none" /\ DOMAIN pending = Clients
      /\ \A c \in Clients : pending[c].op = "none"
      /\ lastId = OldId /\ OldId \in Nat /\ deleted = {} /\ faults = 0
  BY StoreBoundsAreNat DEF Init, Unlocked, NoSave, NoRequest
<1>3. IsBoardList(old) /\ BoardIds(old) \subseteq 0 .. OldId
  <2>. DEFINE Maps  == UNION {[ids -> SUBSET Panels] : ids \in SUBSET (1 .. OldId)}
              Fit == [id : 1 .. OldId, revision : Nat, archived : BOOLEAN,
                        panels : SUBSET Panels, links : Maps, groups : Maps]
  <2>1. old \in Seq(Fit) /\ \A j, k \in DOMAIN old : old[j].id = old[k].id => j = k
    BY <1>1, OldBoardsAssumption
  <2>2. \A b \in Fit : IsBoard(b) /\ b.id \in 0 .. OldId
    BY <1>2 DEF IsBoard
  <2>. HIDE DEF Fit
  <2>3. \A k \in DOMAIN old : old[k] \in Fit
    BY <2>1
  <2>4. IsList(old)
    BY <2>1, OwnElements
  <2>. QED  BY <2>1, <2>2, <2>3, <2>4 DEF IsBoardList, BoardIds
<1>4. CASE old = << >>
  <2>1. DOMAIN disk = {}
    BY <1>1, <1>4
  <2>2. Boards = << >> /\ ActiveId = NoActive
    BY <2>1 DEF Boards, ActiveId
  <2>3. BoardIds(Boards) = {}
    BY <2>2 DEF BoardIds
  <2>4. ShapesOK /\ IdsGivenOut /\ SavedOnce
    BY <1>2, <2>1, <2>3 DEF ShapesOK, IdsGivenOut, SavedOnce
  <2>5. ActiveInv /\ ForwardInv
    BY <1>2, <2>2, <2>3 DEF ActiveInv, Names, ForwardInv, BoardsOnlyGoForward
  <2>6. CopyInv /\ WorkOfOthersIsKept
    BY <1>2, <2>1 DEF CopyInv, WorkOfOthersIsKept
  <2>. QED  BY <2>4, <2>5, <2>6 DEF StoreInv
<1>5. CASE old # << >>
  <2>1. DOMAIN disk = {"boards", "active"} /\ disk.boards = old /\ disk.active = old[1].id
    BY <1>1, <1>5
  <2>2. Boards = old /\ ActiveId = old[1].id
    BY <2>1 DEF Boards, ActiveId
  <2>3. 1 \in DOMAIN old
    BY <1>3, <1>5 DEF IsBoardList, IsList
  <2>4. ActiveId \in BoardIds(Boards)
    BY <2>2, <2>3 DEF BoardIds
  <2>5. ShapesOK /\ IdsGivenOut /\ SavedOnce
    BY <1>2, <1>3, <2>1, <2>2 DEF ShapesOK, IdsGivenOut, SavedOnce
  <2>6. ActiveInv /\ ForwardInv
    BY <1>2, <1>5, <2>2, <2>4 DEF ActiveInv, Names, ForwardInv, BoardsOnlyGoForward
  <2>7. CopyInv /\ WorkOfOthersIsKept
    BY <1>2, <2>1 DEF CopyInv, WorkOfOthersIsKept
  <2>. QED  BY <2>5, <2>6, <2>7 DEF StoreInv
<1>. QED  BY <1>4, <1>5

(* What WorkOfOthersIsKept asks of one board on disk.                      *)
Kept(q, old, boards) ==
  \/ q.op = "delete" /\ old.id = q.seen.id
  \/ old \in ToSet(boards)
  \/ /\ q.op \notin {"create", "delete"} /\ old.id = q.seen.id
     /\ \E new \in ToSet(boards) : new.id = old.id /\ Keeps(q, old, new)

WorkKept ==
  saving.at \in {"tmp", "remove"} /\ saving.by # Startup =>
    \A old \in ToSet(Boards) : Kept(pending[saving.by], old, saving.boards)

LEMMA WorkKeptIs == WorkKept <=> WorkOfOthersIsKept
  BY DEF WorkKept, WorkOfOthersIsKept, Kept, Keeps

(* A save begins: what it is about to write must fit what is on disk.      *)
LEMMA SaveNext ==
  ASSUME StoreInv, Unlocked,
         NEW by \in Clients \union {Startup}, NEW boards, NEW active, NEW event \in BOOLEAN,
         Save(by, boards, active, event), UNCHANGED <<disk, deleted, faults>>,
         IsBoardList(boards), BoardIds(boards) \intersect deleted = {},
         DOMAIN pending' = Clients,
         \A c \in Clients : pending'[c].op \notin {"none", "create"} => pending'[c] = pending[c],
         lastId' \in Nat, lastId <= lastId', BoardIds(boards) \subseteq 0 .. lastId',
         faults = 0 => Names(IF active = RemoveActive THEN NoActive ELSE active, boards),
         \A old \in ToSet(Boards), new \in ToSet(boards) :
            new.id = old.id => new.revision >= old.revision,
         kept' \intersect BoardIds(Boards) \subseteq BoardIds(boards),
         by # Startup =>
           /\ pending'[by].op = "delete" => pending'[by].seen.id \notin BoardIds(boards)
           /\ \A old \in ToSet(Boards) : Kept(pending'[by], old, boards)
  PROVE  StoreInv'
<1>1. /\ DOMAIN saving' = {"at", "by", "boards", "active", "event"}
      /\ saving'.at = "tmp" /\ saving'.by = by /\ saving'.boards = boards
      /\ saving'.active = active /\ saving'.event = event
      /\ ~Unlocked'
  BY DEF Save, Unlocked, NoSave
<1>2. Boards' = Boards
  BY DEF Boards
<1>3. saving = NoSave /\ saving.at = "none"
  BY DEF Unlocked, NoSave
<1>4. ShapesOK'
  BY <1>1, <1>3 DEF StoreInv, ShapesOK, Places
<1>5. IdsGivenOut'
  <2>1. \A n : n \in 0 .. lastId => n \in 0 .. lastId'
    BY DEF StoreInv, ShapesOK
  <2>2. \A c \in Clients : pending'[c].op \notin {"none", "create"} =>
                             pending'[c].seen.id \in 0 .. lastId'
    BY <2>1 DEF StoreInv, IdsGivenOut
  <2>3. BoardIds(Boards)' = BoardIds(Boards)
    BY <1>2 DEF BoardIds
  <2>4. BoardIds(saving'.boards) = BoardIds(boards)
    BY <1>1
  <2>. QED  BY <2>1, <2>2, <2>3, <2>4 DEF StoreInv, IdsGivenOut
<1>6. SavedOnce'
  BY <1>1 DEF SavedOnce
<1>7. ActiveInv'
  BY <1>1 DEF ActiveInv
<1>8. ForwardInv'
  BY <1>1, <1>2 DEF StoreInv, ForwardInv, BoardsOnlyGoForward
<1>9. CopyInv'
  BY <1>1, <1>2 DEF CopyInv, BoardIds
<1>10. WorkKept'
  BY <1>1, <1>2 DEF WorkKept
<1>11. WorkOfOthersIsKept'
  BY <1>10, WorkKeptIs, PTL
<1>. QED  BY <1>4, <1>5, <1>6, <1>7, <1>8, <1>9, <1>11 DEF StoreInv


LEMMA WriteTmpNext ==
  ASSUME StoreInv, WriteTmp
  PROVE  StoreInv'
<1>1. /\ saving.at = "tmp" /\ ~Unlocked /\ saving # NoSave
      /\ DOMAIN saving = {"at", "by", "boards", "active", "event"}
  BY DEF WriteTmp, StoreInv, ShapesOK, Unlocked, NoSave
<1>2. /\ DOMAIN saving' = DOMAIN saving /\ saving'.at = "remove" /\ ~Unlocked'
      /\ saving'.by = saving.by /\ saving'.boards = saving.boards
      /\ saving'.active = saving.active /\ saving'.event = saving.event
  BY <1>1 DEF WriteTmp, Unlocked, NoSave
<1>3. /\ DOMAIN disk' = DOMAIN disk \union {"tmp"}
      /\ disk'.tmp = [whole |-> TRUE, boards |-> saving.boards]
      /\ \A y \in DOMAIN disk \ {"tmp"} : disk'[y] = disk[y]
  BY DEF WriteTmp, With
<1>4. /\ "boards" \in DOMAIN disk' <=> "boards" \in DOMAIN disk
      /\ "boards" \in DOMAIN disk => disk'.boards = disk.boards
      /\ "active" \in DOMAIN disk' <=> "active" \in DOMAIN disk
      /\ "active" \in DOMAIN disk => disk'.active = disk.active
  BY <1>3
<1>5. Boards' = Boards /\ ActiveId' = ActiveId
  BY <1>4, SameBoards, SameActive
<1>6. /\ pending' = pending /\ lastId' = lastId /\ faults' = faults
      /\ kept' = kept /\ deleted' = deleted
  BY DEF WriteTmp
<1>7. ShapesOK'
  BY <1>1, <1>2, <1>4, <1>6 DEF StoreInv, ShapesOK, Places
<1>8. IdsGivenOut' /\ SavedOnce'
  BY <1>1, <1>2, <1>5, <1>6 DEF StoreInv, IdsGivenOut, SavedOnce, BoardIds
<1>9. ActiveInv'
  BY <1>1, <1>2, <1>5, <1>6 DEF StoreInv, ActiveInv
<1>10. ForwardInv'
  BY <1>1, <1>2, <1>5, <1>6 DEF StoreInv, ForwardInv, BoardsOnlyGoForward
<1>11. CopyInv'
  BY <1>1, <1>2, <1>3, <1>4, <1>5, <1>6 DEF StoreInv, CopyInv, BoardIds
<1>12. WorkOfOthersIsKept'
  <2>1. WorkKept'
    BY <1>1, <1>2, <1>5, <1>6, WorkKeptIs DEF StoreInv, WorkKept
  <2>. QED  BY <2>1, WorkKeptIs, PTL
<1>. QED  BY <1>7, <1>8, <1>9, <1>10, <1>11, <1>12 DEF StoreInv

LEMMA RemoveOldNext ==
  ASSUME StoreInv, RemoveOld
  PROVE  StoreInv'
<1>1. /\ saving.at = "remove" /\ ~Unlocked /\ saving # NoSave
      /\ DOMAIN saving = {"at", "by", "boards", "active", "event"}
  BY DEF RemoveOld, StoreInv, ShapesOK, Unlocked, NoSave
<1>2. /\ DOMAIN saving' = DOMAIN saving /\ saving'.at = "rename" /\ ~Unlocked'
      /\ saving'.by = saving.by /\ saving'.boards = saving.boards
      /\ saving'.active = saving.active /\ saving'.event = saving.event
  BY <1>1 DEF RemoveOld, Unlocked, NoSave
<1>3. /\ DOMAIN disk' = DOMAIN disk \ {"boards"}
      /\ \A y \in DOMAIN disk \ {"boards"} : disk'[y] = disk[y]
  BY DEF RemoveOld, Without
<1>4. Boards' = << >> /\ BoardIds(Boards)' = {} /\ ToSet(Boards)' = {}
  BY <1>3 DEF Boards, BoardIds, ToSet
<1>5. pending' = pending /\ lastId' = lastId /\ deleted' = deleted /\ faults' = faults
  BY DEF RemoveOld
<1>6. ShapesOK'
  BY <1>1, <1>2, <1>3, <1>5 DEF StoreInv, ShapesOK, Places
<1>7. IdsGivenOut' /\ SavedOnce'
  BY <1>1, <1>2, <1>4, <1>5 DEF StoreInv, IdsGivenOut, SavedOnce, BoardIds
<1>8. ActiveInv'
  BY <1>1, <1>2, <1>5 DEF StoreInv, ActiveInv
<1>9. ForwardInv'
  BY <1>1, <1>2, <1>4, <1>5 DEF StoreInv, ForwardInv, BoardsOnlyGoForward
<1>10. CopyInv'
  BY <1>1, <1>2, <1>3 DEF StoreInv, CopyInv
<1>11. WorkOfOthersIsKept'
  BY <1>2 DEF WorkOfOthersIsKept
<1>. QED  BY <1>6, <1>7, <1>8, <1>9, <1>10, <1>11 DEF StoreInv

LEMMA RenameTmpNext ==
  ASSUME StoreInv, RenameTmp
  PROVE  StoreInv'
<1>1. /\ saving.at = "rename" /\ ~Unlocked /\ saving # NoSave
      /\ DOMAIN saving = {"at", "by", "boards", "active", "event"}
      /\ saving.by \in Clients \union {Startup} /\ IsBoardList(saving.boards)
  BY DEF RenameTmp, StoreInv, ShapesOK, Unlocked, NoSave
<1>2. /\ DOMAIN saving' = DOMAIN saving /\ saving'.at = "active" /\ ~Unlocked'
      /\ saving'.by = saving.by /\ saving'.boards = saving.boards
      /\ saving'.active = saving.active /\ saving'.event = saving.event
  BY <1>1 DEF RenameTmp, Unlocked, NoSave
<1>3. /\ DOMAIN disk' = (DOMAIN disk \ {"tmp"}) \union {"boards"}
      /\ disk'.boards = saving.boards
      /\ \A y \in DOMAIN disk \ {"boards", "tmp"} : disk'[y] = disk[y]
  BY DEF RenameTmp, With, Without
<1>4. "boards" \in DOMAIN disk' /\ Boards' = saving.boards
  BY <1>3 DEF Boards
<1>5. pending' = pending /\ lastId' = lastId /\ faults' = faults
  BY DEF RenameTmp
<1>6. deleted' = deleted \union
        IF saving.by # Startup /\ pending[saving.by].op = "delete"
        THEN {pending[saving.by].seen.id} ELSE {}
  BY DEF RenameTmp
<1>7. BoardIds(saving.boards) \intersect deleted' = {}
  BY <1>1, <1>6 DEF StoreInv, ForwardInv
<1>8. deleted' \subseteq 0 .. lastId
  BY <1>1, <1>6 DEF StoreInv, IdsGivenOut
<1>9. ShapesOK'
  BY <1>1, <1>2, <1>3, <1>5 DEF StoreInv, ShapesOK, Places
<1>10. IdsGivenOut' /\ SavedOnce'
  BY <1>1, <1>2, <1>3, <1>4, <1>5, <1>8 DEF StoreInv, IdsGivenOut, SavedOnce, BoardIds
<1>11. ActiveInv'
  BY <1>1, <1>2, <1>5 DEF StoreInv, ActiveInv
<1>12. ForwardInv'
  <2>1. \A old, new \in ToSet(saving.boards) : new.id = old.id => new.revision >= old.revision
    BY <1>1 DEF IsBoardList, IsBoard, ToSet
  <2>2. BoardIds(Boards)' = BoardIds(saving.boards)
    BY <1>4 DEF BoardIds
  <2>. QED  BY <1>2, <1>4, <1>7, <2>1, <2>2 DEF ForwardInv, BoardsOnlyGoForward
<1>13. CopyInv'
  BY <1>2 DEF CopyInv
<1>14. WorkOfOthersIsKept'
  BY <1>2 DEF WorkOfOthersIsKept
<1>. QED  BY <1>9, <1>10, <1>11, <1>12, <1>13, <1>14 DEF StoreInv

(* The lock is released: after the last step of a save, or too early.      *)
LEMMA ReleasedNext ==
  ASSUME StoreInv, saving' = NoSave,
         "boards" \in DOMAIN disk' <=> "boards" \in DOMAIN disk,
         "boards" \in DOMAIN disk => disk'.boards = disk.boards,
         DOMAIN pending' = Clients,
         \A c \in Clients : pending'[c] = pending[c] \/ pending'[c].op = "none",
         UNCHANGED <<lastId, deleted>>, faults' \in Nat,
         ActiveInv', CopyInv'
  PROVE  StoreInv'
<1>1. Unlocked' /\ saving'.at = "none"
  BY DEF Unlocked, NoSave
<1>2. Boards' = Boards
  BY SameBoards
<1>3. ShapesOK'
  BY DEF StoreInv, ShapesOK
<1>4. IdsGivenOut' /\ SavedOnce'
  BY <1>1, <1>2 DEF StoreInv, IdsGivenOut, SavedOnce, BoardIds
<1>5. ForwardInv'
  BY <1>1, <1>2 DEF StoreInv, ForwardInv, BoardsOnlyGoForward, BoardIds
<1>6. WorkOfOthersIsKept'
  BY <1>1 DEF WorkOfOthersIsKept
<1>. QED  BY <1>3, <1>4, <1>5, <1>6 DEF StoreInv

LEMMA ReleasePending ==
  ASSUME ShapesOK, Release \/ Fail
  PROVE  /\ saving' = NoSave /\ DOMAIN pending' = Clients
         /\ \A c \in Clients : pending'[c] = pending[c] \/ pending'[c].op = "none"
<1>1. DOMAIN pending = Clients
  BY DEF ShapesOK
<1>2. saving' = NoSave /\ (pending' = pending \/ pending' = [pending EXCEPT ![saving.by] = NoRequest])
  BY DEF Release, Fail
<1>. QED  BY <1>1, <1>2 DEF NoRequest

LEMMA WriteActiveNext ==
  ASSUME StoreInv, WriteActive
  PROVE  StoreInv'
<1>1. /\ saving.at = "active" /\ ~Unlocked /\ saving # NoSave
      /\ DOMAIN saving = {"at", "by", "boards", "active", "event"}
      /\ "boards" \in DOMAIN disk /\ disk.boards = saving.boards /\ saving.event \in BOOLEAN
  BY DEF WriteActive, StoreInv, ShapesOK, SavedOnce, Unlocked, NoSave
<1>2. /\ "boards" \in DOMAIN disk' /\ disk'.boards = disk.boards
      /\ ActiveId' = IF saving.active = RemoveActive THEN NoActive ELSE saving.active
  <2>1. CASE saving.active = RemoveActive
    <3>1. /\ DOMAIN disk' = DOMAIN disk \ {"active"}
          /\ \A y \in DOMAIN disk \ {"active"} : disk'[y] = disk[y]
      BY <2>1 DEF WriteActive, Without
    <3>. QED  BY <1>1, <2>1, <3>1 DEF ActiveId
  <2>2. CASE saving.active # RemoveActive
    <3>1. /\ DOMAIN disk' = DOMAIN disk \union {"active"} /\ disk'.active = saving.active
          /\ \A y \in DOMAIN disk \ {"active"} : disk'[y] = disk[y]
      BY <2>2 DEF WriteActive, With
    <3>. QED  BY <1>1, <2>2, <3>1 DEF ActiveId
  <2>. QED  BY <2>1, <2>2
<1>3. Boards' = Boards /\ Boards = saving.boards
  BY <1>1, <1>2 DEF Boards
<1>4. lastId' = lastId /\ deleted' = deleted /\ faults' = faults
  BY DEF WriteActive
<1>5. faults = 0 => Names(ActiveId', Boards')
  BY <1>1, <1>2, <1>3 DEF StoreInv, ActiveInv
<1>6. CASE saving.event /\ saving' = [saving EXCEPT !.at = "event"] /\ UNCHANGED pending
  <2>1. /\ DOMAIN saving' = DOMAIN saving /\ saving'.at = "event" /\ ~Unlocked'
        /\ saving'.by = saving.by /\ saving'.boards = saving.boards
        /\ saving'.active = saving.active /\ saving'.event = saving.event
    BY <1>1, <1>6 DEF Unlocked, NoSave
  <2>2. ShapesOK'
    BY <1>1, <1>2, <1>4, <1>6, <2>1 DEF StoreInv, ShapesOK, Places
  <2>3. IdsGivenOut' /\ SavedOnce'
    BY <1>1, <1>2, <1>3, <1>4, <1>6, <2>1 DEF StoreInv, IdsGivenOut, SavedOnce, BoardIds
  <2>4. ActiveInv'
    BY <1>1, <1>4, <1>5, <2>1 DEF StoreInv, ActiveInv
  <2>5. ForwardInv'
    BY <1>1, <1>3, <1>4, <2>1 DEF StoreInv, ForwardInv, BoardsOnlyGoForward
  <2>6. CopyInv'
    BY <2>1 DEF CopyInv
  <2>7. WorkOfOthersIsKept'
    BY <2>1 DEF WorkOfOthersIsKept
  <2>. QED  BY <2>2, <2>3, <2>4, <2>5, <2>6, <2>7 DEF StoreInv
<1>7. CASE Release
  <2>1. /\ saving' = NoSave /\ DOMAIN pending' = Clients
        /\ \A c \in Clients : pending'[c] = pending[c] \/ pending'[c].op = "none"
    BY <1>7, ReleasePending DEF StoreInv
  <2>2. Unlocked' /\ saving'.at = "none"
    BY <2>1 DEF Unlocked, NoSave
  <2>3. ActiveInv'
    BY <1>4, <1>5, <2>2 DEF ActiveInv
  <2>4. CopyInv'
    BY <2>2 DEF CopyInv
  <2>. QED  BY <1>1, <1>2, <1>4, <2>1, <2>3, <2>4, ReleasedNext DEF StoreInv, ShapesOK
<1>. QED  BY <1>6, <1>7 DEF WriteActive

LEMMA AppendHistoryNext ==
  ASSUME StoreInv, AppendHistory
  PROVE  StoreInv'
<1>1. /\ saving' = NoSave /\ DOMAIN pending' = Clients
      /\ \A c \in Clients : pending'[c] = pending[c] \/ pending'[c].op = "none"
  BY ReleasePending DEF StoreInv, AppendHistory
<1>2. saving.at = "event" /\ disk' = disk /\ lastId' = lastId /\ deleted' = deleted /\ faults' = faults
  BY DEF AppendHistory
<1>3. Unlocked' /\ saving'.at = "none"
  BY <1>1 DEF Unlocked, NoSave
<1>4. Boards' = Boards /\ ActiveId' = ActiveId
  BY <1>2 DEF Boards, ActiveId
<1>5. ActiveInv'
  BY <1>2, <1>3, <1>4 DEF StoreInv, ActiveInv
<1>6. CopyInv'
  BY <1>3 DEF CopyInv
<1>. QED  BY <1>1, <1>2, <1>5, <1>6, ReleasedNext DEF StoreInv, ShapesOK

(* A save is given up half way: the hub answers 500, or dies.              *)
LEMMA BrokenOffNext ==
  ASSUME StoreInv, disk' \in CutShort, saving' = NoSave, faults' = faults + 1,
         DOMAIN pending' = Clients,
         \A c \in Clients : pending'[c] = pending[c] \/ pending'[c].op = "none",
         UNCHANGED <<lastId, deleted>>
  PROVE  StoreInv'
<1>1. PICK files \in CutShort : files = disk'
  OBVIOUS
<1>2. /\ "boards" \in DOMAIN disk' <=> "boards" \in DOMAIN disk
      /\ "boards" \in DOMAIN disk => disk'.boards = disk.boards
  BY <1>1, CutShortFacts
<1>3. faults \in Nat /\ faults' \in Nat /\ faults' # 0 /\ saving'.at = "none"
  BY DEF StoreInv, ShapesOK, NoSave
<1>4. ActiveInv'
  BY <1>3 DEF ActiveInv
<1>5. CopyInv'
  BY <1>3 DEF CopyInv
<1>. QED  BY <1>2, <1>3, <1>4, <1>5, ReleasedNext

LEMMA FailNext ==
  ASSUME StoreInv, Fail
  PROVE  StoreInv'
<1>1. /\ saving' = NoSave /\ DOMAIN pending' = Clients
      /\ \A c \in Clients : pending'[c] = pending[c] \/ pending'[c].op = "none"
  BY ReleasePending DEF StoreInv
<1>. QED  BY <1>1, BrokenOffNext DEF Fail

LEMMA CrashNext ==
  ASSUME StoreInv, Crash
  PROVE  StoreInv'
<1>1. /\ saving' = NoSave /\ DOMAIN pending' = Clients
      /\ \A c \in Clients : pending'[c].op = "none"
  BY DEF Crash, NoRequest
<1>. QED  BY <1>1, BrokenOffNext DEF Crash

LEMMA StartNext ==
  ASSUME StoreInv, Unlocked, Start
  PROVE  StoreInv'
<1>1. /\ disk' = disk /\ pending' = pending /\ faults' = faults
      /\ kept' = kept /\ deleted' = deleted
  BY DEF Start
<1>2. lastId \in Nat /\ DOMAIN pending' = Clients
  BY <1>1 DEF StoreInv, ShapesOK
<1>3. CASE Boards # << >>
  <2>1. lastId' = lastId /\ saving' = saving
    BY <1>3 DEF Start
  <2>2. Boards' = Boards /\ ActiveId' = ActiveId /\ (Unlocked' <=> Unlocked)
    BY <1>1, <2>1 DEF Boards, ActiveId, Unlocked
  <2>3. ShapesOK' /\ IdsGivenOut' /\ SavedOnce'
    BY <1>1, <2>1, <2>2 DEF StoreInv, ShapesOK, IdsGivenOut, SavedOnce, BoardIds
  <2>4. ActiveInv' /\ ForwardInv' /\ CopyInv'
    BY <1>1, <2>1, <2>2
       DEF StoreInv, ActiveInv, ForwardInv, BoardsOnlyGoForward, CopyInv, BoardIds
  <2>5. WorkOfOthersIsKept'
    BY <2>1 DEF WorkOfOthersIsKept, Unlocked, NoSave
  <2>. QED  BY <2>3, <2>4, <2>5 DEF StoreInv
<1>4. CASE Boards = << >>
  <2>1. lastId' = lastId + 1 /\ lastId' \in Nat /\ lastId <= lastId'
    BY <1>2, <1>4 DEF Start
  <2>2. PICK b, id : b = NewBoard(id) /\ id = lastId'
    OBVIOUS
  <2>3. IsBoard(b) /\ b.id = lastId'
    BY <2>1, <2>2 DEF NewBoard, IsBoard
  <2>4. PICK boards : boards = <<b>>
    OBVIOUS
  <2>5. boards = <<b>> /\ DOMAIN boards = {1} /\ boards[1] = b /\ boards # << >>
    BY <2>4
  <2>6. IsBoardList(boards)
    <3>1. boards \in Seq({b})
      BY <2>4
    <3>. QED  BY <2>3, <2>5, <3>1, OwnElements DEF IsBoardList
  <2>7. BoardIds(boards) = {lastId'}
    BY <2>3, <2>5 DEF BoardIds
  <2>8. Save(Startup, boards, lastId', FALSE)
    BY <1>4, <2>2, <2>4 DEF Start, Save
  <2>9. lastId' \notin deleted /\ lastId' \in 0 .. lastId'
    BY <1>2, <2>1 DEF StoreInv, IdsGivenOut
  <2>10. Names(IF lastId' = RemoveActive THEN NoActive ELSE lastId', boards)
    BY <2>1, <2>5, <2>7 DEF Names, RemoveActive
  <2>11. ToSet(Boards) = {} /\ BoardIds(Boards) = {}
    BY <1>4 DEF ToSet, BoardIds
  <2>12. PICK active : active = lastId'
    OBVIOUS
  <2>. QED  BY <1>1, <1>2, <2>1, <2>6, <2>7, <2>8, <2>9, <2>10, <2>11, <2>12, SaveNext
<1>. QED  BY <1>3, <1>4

(* A request that is read, or dropped because its board is gone.           *)
LEMMA AskedNext ==
  ASSUME StoreInv, Unlocked, UNCHANGED <<disk, saving, deleted, faults>>,
         DOMAIN pending' = Clients, lastId' \in Nat, lastId <= lastId',
         \A c \in Clients : \/ pending'[c] = pending[c] \/ pending'[c].op = "none"
                            \/ pending'[c].seen \in ToSet(Boards)
  PROVE  StoreInv'
<1>1. /\ Boards' = Boards /\ ActiveId' = ActiveId /\ Unlocked'
      /\ saving'.at = "none" /\ BoardIds(Boards)' = BoardIds(Boards)
  BY DEF Boards, ActiveId, Unlocked, NoSave, BoardIds
<1>2. ShapesOK' /\ SavedOnce'
  BY <1>1 DEF StoreInv, ShapesOK, SavedOnce
<1>3. IdsGivenOut'
  <2>1. lastId \in Nat
    BY DEF StoreInv, ShapesOK
  <2>2. \A n : n \in 0 .. lastId => n \in 0 .. lastId'
    BY <2>1
  <2>3. \A b \in ToSet(Boards) : b.id \in 0 .. lastId
    BY DEF StoreInv, IdsGivenOut, BoardIds, ToSet
  <2>4. \A c \in Clients : pending'[c].op \notin {"none", "create"} =>
                             pending'[c].seen.id \in 0 .. lastId'
    BY <2>2, <2>3 DEF StoreInv, IdsGivenOut
  <2>. QED  BY <1>1, <2>2, <2>4 DEF StoreInv, IdsGivenOut
<1>4. ActiveInv' /\ ForwardInv' /\ CopyInv'
  BY <1>1 DEF StoreInv, ActiveInv, ForwardInv, BoardsOnlyGoForward, CopyInv
<1>5. WorkOfOthersIsKept'
  BY <1>1 DEF WorkOfOthersIsKept
<1>. QED  BY <1>2, <1>3, <1>4, <1>5 DEF StoreInv

LEMMA FindBoardNext ==
  ASSUME StoreInv, NEW c \in Clients, FindBoard(c)
  PROVE  StoreInv'
<1>1. lastId \in Nat /\ DOMAIN pending = Clients
  BY DEF StoreInv, ShapesOK
<1>2. PICK seen \in ToSet(Boards) : \E request \in Requests(seen, lastId') :
        pending' = [pending EXCEPT ![c] = request]
  BY DEF FindBoard
<1>8. PICK request \in Requests(seen, lastId') : pending' = [pending EXCEPT ![c] = request]
  BY <1>2
<1>3. request.seen = seen
  BY DEF Requests
<1>4. Unlocked /\ UNCHANGED <<disk, saving, deleted, faults>> /\ lastId' = lastId + 1
  BY DEF FindBoard
<1>5. DOMAIN pending' = Clients /\ \A d \in Clients : pending'[d] = IF d = c THEN request ELSE pending[d]
  BY <1>1, <1>8
<1>6. lastId' \in Nat /\ lastId <= lastId'
  BY <1>1, <1>4
<1>7. \A d \in Clients : pending'[d] = pending[d] \/ pending'[d].seen \in ToSet(Boards)
  BY <1>3, <1>5
<1>. QED  BY <1>4, <1>5, <1>6, <1>7, AskedNext

LEMMA CreateBoardNext ==
  ASSUME StoreInv, NEW c \in Clients, CreateBoard(c)
  PROVE  StoreInv'
<1>1. lastId \in Nat /\ DOMAIN pending = Clients /\ lastId' = lastId + 1
      /\ Unlocked /\ UNCHANGED <<disk, kept, deleted, faults>> /\ IsBoardList(Boards)
  BY NoBoards DEF StoreInv, ShapesOK, CreateBoard, Boards
<1>2. PICK b, id : b = NewBoard(id) /\ id = lastId'
  OBVIOUS
<1>3. id = lastId + 1 /\ id \in Nat /\ lastId <= id /\ id \notin 0 .. lastId
  BY <1>1, <1>2
<1>4. IsBoard(b) /\ b.id = id
  BY <1>2, <1>3 DEF NewBoard, IsBoard
<1>5. b.id \notin BoardIds(Boards) /\ id \notin deleted
  BY <1>3, <1>4 DEF StoreInv, IdsGivenOut
<1>6. PICK boards : boards = Append(Boards, b)
  OBVIOUS
<1>7. /\ IsBoardList(boards) /\ boards # << >>
      /\ BoardIds(boards) = BoardIds(Boards) \union {id}
      /\ ToSet(boards) = ToSet(Boards) \union {b}
  BY <1>1, <1>4, <1>5, <1>6, BoardsAppend
<1>8. Save(c, boards, id, FALSE)
  BY <1>2, <1>6 DEF CreateBoard, Save
<1>9. /\ DOMAIN pending' = Clients /\ pending'[c].op = "create"
      /\ \A d \in Clients : d # c => pending'[d] = pending[d]
  BY <1>1 DEF CreateBoard
<1>10. BoardIds(boards) \intersect deleted = {}
  BY <1>5, <1>7 DEF StoreInv, ForwardInv, BoardsOnlyGoForward
<1>11. BoardIds(boards) \subseteq 0 .. lastId'
  BY <1>1, <1>2, <1>3, <1>7 DEF StoreInv, IdsGivenOut
<1>12. Names(IF id = RemoveActive THEN NoActive ELSE id, boards)
  BY <1>3, <1>7 DEF Names, RemoveActive
<1>13. \A old \in ToSet(Boards) : old.id \in BoardIds(Boards) /\ IsBoard(old)
  BY <1>1 DEF ToSet, BoardIds, IsBoardList
<1>14. \A old \in ToSet(Boards), new \in ToSet(boards) :
         new.id = old.id => new.revision >= old.revision
  <2>1. \A old, new \in ToSet(Boards) : new.id = old.id => new = old
    BY <1>1 DEF ToSet, IsBoardList
  <2>2. \A old \in ToSet(Boards) : b.id # old.id /\ old.revision >= old.revision
    BY <1>5, <1>13 DEF IsBoard
  <2>. QED  BY <1>7, <2>1, <2>2
<1>15. \A old \in ToSet(Boards) : Kept(pending'[c], old, boards)
  BY <1>7 DEF Kept
<1>16. \A d \in Clients : pending'[d].op \notin {"none", "create"} => pending'[d] = pending[d]
  BY <1>9
<1>17. lastId' \in Nat /\ lastId <= lastId'
  BY <1>2, <1>3
<1>18. kept' \intersect BoardIds(Boards) \subseteq BoardIds(boards)
  BY <1>7
<1>. QED
  BY <1>1, <1>7, <1>8, <1>9, <1>10, <1>11, <1>12, <1>14, <1>15, <1>16, <1>17, <1>18, SaveNext

(* The boards on disk, as the list a request changes.                      *)
LEMMA BoardsAre ==
  ASSUME StoreInv
  PROVE  /\ IsBoardList(Boards)
         /\ \A b \in ToSet(Boards) : IsBoard(b) /\ b.id \in BoardIds(Boards)
         /\ \A b, d \in ToSet(Boards) : b.id = d.id => b = d
<1>2. IsBoardList(Boards)
  BY NoBoards DEF StoreInv, ShapesOK, Boards
<1>. QED  BY <1>2 DEF IsBoardList, ToSet, BoardIds

LEMMA DeleteBoardNext ==
  ASSUME StoreInv, NEW c \in Clients, DeleteBoard(c)
  PROVE  StoreInv'
<1>. DEFINE id == pending[c].seen.id
            left == Sublist(Boards, {k \in DOMAIN Boards : Boards[k].id # id})
            active == IF ActiveId # id THEN ActiveId
                      ELSE IF left = << >> THEN RemoveActive ELSE left[1].id
<1>1. /\ Unlocked /\ pending[c].op = "delete" /\ Save(c, left, active, FALSE)
      /\ UNCHANGED <<disk, pending, lastId, deleted, faults>>
      /\ kept' = kept \ {id}
  BY DEF DeleteBoard
<1>2. lastId \in Nat /\ DOMAIN pending = Clients
  BY DEF StoreInv, ShapesOK
<1>3. PICK boards, new : boards = left /\ new = active
  OBVIOUS
<1>4. /\ IsBoardList(boards)
      /\ BoardIds(boards) = BoardIds(Boards) \ {id}
      /\ ToSet(boards) = {b \in ToSet(Boards) : b.id # id}
  <2>1. PICK x, list : x = id /\ list = Boards
    OBVIOUS
  <2>2. boards = AllBut(list, x) /\ IsBoardList(list)
    BY <1>3, <2>1, BoardsAre DEF AllBut
  <2>. HIDE DEF left, active, id
  <2>3. IsBoardList(boards) /\ BoardIds(boards) = BoardIds(list) \ {x}
        /\ ToSet(boards) = {b \in ToSet(list) : b.id # x}
    BY <2>2, BoardsWithout
  <2>. QED  BY <2>1, <2>3
<1>5. BoardIds(boards) \intersect deleted = {} /\ BoardIds(boards) \subseteq 0 .. lastId
  BY <1>4 DEF StoreInv, IdsGivenOut, ForwardInv, BoardsOnlyGoForward
<1>6. faults = 0 => Names(IF new = RemoveActive THEN NoActive ELSE new, boards)
  <2>1. SUFFICES ASSUME faults = 0
                 PROVE  Names(IF new = RemoveActive THEN NoActive ELSE new, boards)
    OBVIOUS
  <2>2. Names(ActiveId, Boards)
    BY <1>1, <2>1 DEF StoreInv, ActiveInv, Unlocked, NoSave
  <2>3. BoardIds(boards) = {} <=> boards = << >>
    BY <1>4, NoIds
  <2>4. BoardIds(Boards) = {} <=> Boards = << >>
    BY BoardsAre, NoIds
  <2>5. BoardIds(Boards) \subseteq Nat
    BY BoardsAre DEF BoardIds, IsBoardList, IsBoard
  <2>6. CASE ActiveId # id
    <3>1. new = ActiveId
      BY <1>3, <2>6
    <3>2. CASE Boards = << >>
      BY <1>4, <2>2, <2>3, <2>4, <3>1, <3>2 DEF Names, RemoveActive, NoActive
    <3>3. CASE Boards # << >>
      <4>1. new \in BoardIds(boards) /\ new \in Nat
        BY <1>4, <2>2, <2>5, <2>6, <3>1, <3>3 DEF Names
      <4>. QED  BY <2>3, <4>1 DEF Names, RemoveActive
    <3>. QED  BY <3>2, <3>3
  <2>7. CASE ActiveId = id /\ boards = << >>
    BY <1>3, <2>7 DEF Names
  <2>8. CASE ActiveId = id /\ boards # << >>
    <3>1. 1 \in DOMAIN boards
      BY <1>4, <2>8 DEF IsBoardList, IsList
    <3>2. boards[1].id \in BoardIds(boards)
      BY <3>1 DEF BoardIds
    <3>. QED  BY <1>3, <1>4, <2>5, <2>8, <3>2 DEF Names, RemoveActive
  <2>. QED  BY <2>6, <2>7, <2>8
<1>7. \A old \in ToSet(Boards), b \in ToSet(boards) : b.id = old.id => b.revision >= old.revision
  BY <1>4, BoardsAre DEF IsBoard
<1>8. \A old \in ToSet(Boards) : Kept(pending[c], old, boards)
  BY <1>1, <1>4 DEF Kept
<1>9. pending[c].seen.id \notin BoardIds(boards)
  BY <1>4
<1>10. Save(c, boards, new, FALSE)
  BY <1>1, <1>3
<1>11. /\ DOMAIN pending' = Clients /\ \A d \in Clients : pending'[d] = pending[d]
       /\ lastId' \in Nat /\ lastId <= lastId' /\ BoardIds(boards) \subseteq 0 .. lastId'
  BY <1>1, <1>2, <1>5
<1>12. /\ pending'[c].seen.id \notin BoardIds(boards)
       /\ \A old \in ToSet(Boards) : Kept(pending'[c], old, boards)
  BY <1>8, <1>9, <1>11
<1>13. UNCHANGED <<disk, deleted, faults>> /\ Unlocked /\ FALSE \in BOOLEAN
  BY <1>1
<1>14. kept' \intersect BoardIds(Boards) \subseteq BoardIds(boards)
  BY <1>1, <1>4
<1>. HIDE DEF left, active, id
<1>. QED  BY <1>4, <1>5, <1>6, <1>7, <1>10, <1>11, <1>12, <1>13, <1>14, SaveNext

LEMMA UpdateBoardNext ==
  ASSUME StoreInv, NEW c \in Clients, UpdateBoard(c)
  PROVE  StoreInv'
<1>. DEFINE q == pending[c]
            found == {k \in DOMAIN Boards : Boards[k].id = q.seen.id}
<1>1. /\ Unlocked /\ q.op \notin {"none", "create", "delete"}
      /\ UNCHANGED <<disk, lastId, kept, deleted, faults>>
  BY DEF UpdateBoard
<1>2. lastId \in Nat /\ DOMAIN pending = Clients
  BY DEF StoreInv, ShapesOK
<1>3. CASE found = {}
  <2>1. pending' = [pending EXCEPT ![c] = NoRequest] /\ UNCHANGED saving
    BY <1>3 DEF UpdateBoard
  <2>2. DOMAIN pending' = Clients
        /\ \A d \in Clients : pending'[d] = pending[d] \/ pending'[d].op = "none"
    BY <1>2, <2>1 DEF NoRequest
  <2>. QED  BY <1>1, <1>2, <2>1, <2>2, AskedNext
<1>4. CASE found # {}
  <2>1. PICK first : first = Min(found)
    OBVIOUS
  <2>2. first \in found
    <3>1. found \in SUBSET Nat
      BY BoardsAre DEF IsBoardList, IsList
    <3>2. \E x \in found : \A y \in found : x <= y
      <4>. HIDE DEF found
      <4>. QED  BY <1>4, <3>1, LeastNat
    <3>. HIDE DEF found
    <3>. QED  BY <2>1, <3>2 DEF Min
  <2>3. first \in DOMAIN Boards /\ Boards[first].id = q.seen.id
    BY <2>2
  <2>4. PICK old : old = Boards[first]
    OBVIOUS
  <2>5. IsBoard(old) /\ old \in ToSet(Boards) /\ old.id = q.seen.id /\ old.id \in BoardIds(Boards)
    BY <2>3, <2>4, BoardsAre DEF ToSet
  <2>6. pending' = pending
    BY <1>4 DEF UpdateBoard
  <2>7. PICK active : active = IF ActiveId = NoActive THEN q.seen.id ELSE ActiveId
    OBVIOUS
  <2>8. PICK recorded \in Recorded(q, old) :
          Save(c, [Boards EXCEPT ![first] = Updated(q, @, recorded)], active, recorded)
    BY <1>4, <2>1, <2>4, <2>7 DEF UpdateBoard
  <2>9. PICK b : b = Updated(q, old, recorded)
    OBVIOUS
  <2>10. /\ IsBoard(b) /\ b.id = old.id /\ b.revision >= old.revision
         /\ Keeps(q, old, b) /\ recorded \in BOOLEAN
    BY <2>5, <2>9, UpdatedFacts
  <2>11. PICK new : new = [Boards EXCEPT ![first] = b]
    OBVIOUS
  <2>12. Save(c, new, active, recorded)
    BY <2>3, <2>4, <2>8, <2>9, <2>11
  <2>13. /\ IsBoardList(new) /\ new # << >>
         /\ BoardIds(new) = BoardIds(Boards)
         /\ \A x \in ToSet(Boards) : x = old \/ (x.id # b.id /\ x \in ToSet(new))
         /\ \A x \in ToSet(new) : x = b \/ (x.id # b.id /\ x \in ToSet(Boards))
         /\ b \in ToSet(new)
    <3>1. PICK list : list = Boards
      OBVIOUS
    <3>2. /\ IsBoardList(list) /\ first \in DOMAIN list /\ old = list[first]
          /\ IsBoard(b) /\ b.id = list[first].id /\ new = PutAt(list, first, b)
      BY <2>3, <2>4, <2>10, <2>11, <3>1, BoardsAre DEF PutAt
    <3>3. /\ IsBoardList(new) /\ new # << >>
          /\ BoardIds(new) = BoardIds(list)
          /\ \A x \in ToSet(list) : x = list[first] \/ (x.id # b.id /\ x \in ToSet(new))
          /\ \A x \in ToSet(new) : x = b \/ (x.id # b.id /\ x \in ToSet(list))
          /\ b \in ToSet(new)
      <4>. HIDE DEF found, q
      <4>. QED  BY <3>2, BoardsExcept
    <3>. QED  BY <3>1, <3>2, <3>3
  <2>14. BoardIds(new) \intersect deleted = {} /\ BoardIds(new) \subseteq 0 .. lastId
    BY <1>1, <2>13 DEF StoreInv, IdsGivenOut, ForwardInv, BoardsOnlyGoForward
  <2>15. faults = 0 => Names(IF active = RemoveActive THEN NoActive ELSE active, new)
    <3>1. SUFFICES ASSUME faults = 0
                   PROVE  Names(IF active = RemoveActive THEN NoActive ELSE active, new)
      OBVIOUS
    <3>2. Names(ActiveId, Boards)
      BY <1>1, <3>1 DEF StoreInv, ActiveInv, Unlocked, NoSave
    <3>3. Boards # << >>
      BY <2>3
    <3>4. ActiveId \in BoardIds(Boards)
      BY <3>2, <3>3 DEF Names
    <3>5. active \in BoardIds(new)
      BY <2>5, <2>7, <2>13, <3>4
    <3>6. BoardIds(new) \subseteq Nat
      BY <2>13 DEF BoardIds, IsBoardList, IsBoard
    <3>. QED  BY <2>13, <3>5, <3>6 DEF Names, RemoveActive
  <2>16. \A x \in ToSet(Boards), y \in ToSet(new) : y.id = x.id => y.revision >= x.revision
    <3>1. SUFFICES ASSUME NEW x \in ToSet(Boards), NEW y \in ToSet(new), y.id = x.id
                   PROVE  y.revision >= x.revision
      OBVIOUS
    <3>2. CASE y = b
      BY <2>5, <2>10, <2>13, <3>1, <3>2, BoardsAre
    <3>3. CASE y \in ToSet(Boards)
      BY <3>1, <3>3, BoardsAre DEF IsBoard
    <3>. QED  BY <2>13, <3>2, <3>3
  <2>17. \A x \in ToSet(Boards) : Kept(q, x, new)
    BY <1>1, <2>5, <2>10, <2>13 DEF Kept
  <2>18. pending'[c] = q /\ q.op # "delete"
    BY <1>1, <2>6
  <2>19. kept' \intersect BoardIds(Boards) \subseteq BoardIds(new)
    BY <1>1, <2>13
  <2>. HIDE DEF found, q
  <2>. QED  BY <1>1, <1>2, <2>6, <2>10, <2>12, <2>13, <2>14, <2>15, <2>16,
             <2>17, <2>18, <2>19, SaveNext
<1>. QED  BY <1>3, <1>4

(* The save has the lock: nobody starts a hub or a request meanwhile.      *)
LEMMA StoreInvNext ==
  ASSUME StoreInv, hub = "down" => Unlocked, [Next]_vars
  PROVE  StoreInv'
<1>1. CASE UNCHANGED vars
  <2>1. UNCHANGED <<disk, saving, pending, lastId, kept, deleted, faults>>
    BY <1>1 DEF vars
  <2>2. Boards' = Boards /\ ActiveId' = ActiveId /\ (Unlocked' <=> Unlocked)
    BY <2>1 DEF Boards, ActiveId, Unlocked
  <2>3. ShapesOK' /\ IdsGivenOut' /\ SavedOnce'
    BY <2>1, <2>2 DEF StoreInv, ShapesOK, IdsGivenOut, SavedOnce, BoardIds
  <2>4. ActiveInv' /\ ForwardInv' /\ CopyInv'
    BY <2>1, <2>2 DEF StoreInv, ActiveInv, ForwardInv, BoardsOnlyGoForward, CopyInv, BoardIds
  <2>5. WorkOfOthersIsKept'
    BY <2>1, <2>2 DEF StoreInv, WorkOfOthersIsKept
  <2>. QED  BY <2>3, <2>4, <2>5 DEF StoreInv
<1>2. CASE SaveStep
  BY <1>2, WriteTmpNext, RemoveOldNext, RenameTmpNext, WriteActiveNext, AppendHistoryNext
     DEF SaveStep
<1>3. CASE Start
  BY <1>3, StartNext DEF Start
<1>4. ASSUME NEW c \in Clients, FindBoard(c) \/ CreateBoard(c) \/ DeleteBoard(c) \/ UpdateBoard(c)
      PROVE  StoreInv'
  BY <1>4, FindBoardNext, CreateBoardNext, DeleteBoardNext, UpdateBoardNext
<1>. QED  BY <1>1, <1>2, <1>3, <1>4, FailNext, CrashNext DEF Next, Done

(* A hub that is down holds no lock, and until it is up no request is      *)
(* under way.                                                              *)
DownInv ==
  /\ hub = "down" => Unlocked
  /\ hub # "up" => \A c \in Clients : pending[c].op = "none"
  /\ ~Unlocked /\ saving.by = Startup => hub = "starting"

LEMMA DownInvNext ==
  ASSUME ShapesOK, DownInv, [Next]_vars
  PROVE  DownInv'
<1>. USE DEF DownInv, Unlocked
<1>1. CASE UNCHANGED vars
  BY <1>1 DEF vars
<1>2. CASE WriteTmp \/ RemoveOld \/ RenameTmp
  <2>1. DOMAIN saving = {"at", "by", "boards", "active", "event"} /\ saving # NoSave
    BY <1>2 DEF WriteTmp, RemoveOld, RenameTmp, ShapesOK, NoSave
  <2>2. saving'.by = saving.by /\ hub' = hub /\ pending' = pending
    BY <1>2, <2>1 DEF WriteTmp, RemoveOld, RenameTmp
  <2>. QED  BY <2>1, <2>2
<1>3. ASSUME Release PROVE DownInv'
  BY <1>3, ReleasePending DEF Release
<1>4. CASE WriteActive \/ AppendHistory
  <2>1. CASE saving' = [saving EXCEPT !.at = "event"] /\ UNCHANGED <<hub, pending>> /\ WriteActive
    <3>1. DOMAIN saving = {"at", "by", "boards", "active", "event"} /\ saving # NoSave
      BY <2>1 DEF WriteActive, ShapesOK, NoSave
    <3>. QED  BY <2>1, <3>1
  <2>. QED  BY <1>3, <1>4, <2>1 DEF WriteActive, AppendHistory
<1>5. CASE Fail
  BY <1>5, ReleasePending DEF Fail
<1>6. CASE Crash
  BY <1>6 DEF Crash, NoRequest
<1>7. CASE Start
  BY <1>7 DEF Start, Save
<1>8. ASSUME NEW c \in Clients, FindBoard(c) \/ CreateBoard(c)
      PROVE  DownInv'
  BY <1>8, StartupIsNoClient DEF FindBoard, CreateBoard, Save
<1>9. ASSUME NEW c \in Clients, DeleteBoard(c) \/ UpdateBoard(c)
      PROVE  DownInv'
  <2>1. pending[c].op # "none" /\ hub' = hub
    BY <1>9 DEF DeleteBoard, UpdateBoard
  <2>2. hub = "up"
    BY <2>1
  <2>3. saving' = NoSave \/ saving'.by = c
    <3>1. CASE DeleteBoard(c)
      BY <3>1 DEF DeleteBoard, Save
    <3>2. CASE UpdateBoard(c)
      <4>1. saving' = saving \/ \E boards, active, event : Save(c, boards, active, event)
        BY <3>2 DEF UpdateBoard
      <4>2. saving = NoSave
        BY <3>2 DEF UpdateBoard
      <4>. QED  BY <4>1, <4>2 DEF Save
    <3>. QED  BY <1>9, <3>1, <3>2
  <2>. QED  BY <2>1, <2>2, <2>3, StartupIsNoClient
<1>. QED  BY <1>1, <1>2, <1>4, <1>5, <1>6, <1>7, <1>8, <1>9 DEF Next, SaveStep, Done

LEMMA StoreInvHolds == Spec => []StoreInv
<1>1. Init => StoreInv /\ DownInv
  BY StoreInvInit DEF Init, DownInv, Unlocked, NoRequest
<1>2. StoreInv /\ DownInv /\ [Next]_vars => StoreInv' /\ DownInv'
  BY StoreInvNext, DownInvNext DEF StoreInv, DownInv
<1>. QED  BY <1>1, <1>2, PTL DEF Spec

(* While no call fails, the active board is one of the boards, and none    *)
(* when there are none.                                                    *)
THEOREM ActiveNamesBoardHolds == Spec => []ActiveNamesBoard
<1>1. StoreInv => ActiveNamesBoard
  BY DEF StoreInv, ActiveInv, ActiveNamesBoard, Names, Unlocked, NoSave
<1>. QED  BY <1>1, StoreInvHolds, PTL

(* A deleted board never comes back and a revision never falls.            *)
THEOREM BoardsOnlyGoForwardHolds == Spec => []BoardsOnlyGoForward
<1>1. StoreInv => BoardsOnlyGoForward
  BY DEF StoreInv, ForwardInv
<1>. QED  BY <1>1, StoreInvHolds, PTL

(* A save takes away nothing of what other requests have written since its *)
(* own request read the board, but in the parts of that board of which the *)
(* request says the whole.                                                 *)
THEOREM WorkOfOthersIsKeptHolds == Spec => []WorkOfOthersIsKept
<1>1. StoreInv => WorkOfOthersIsKept
  BY DEF StoreInv
<1>. QED  BY <1>1, StoreInvHolds, PTL

-----------------------------------------------------------------------------
(* CopyOnDisk, step by step.  Its exception: the save that begins without  *)
(* boards.json.                                                            *)
Overwrites == saving.at = "tmp" /\ "boards" \notin DOMAIN disk

LEMMA SameFiles ==
  ASSUME "boards" \in DOMAIN disk' <=> "boards" \in DOMAIN disk,
         "boards" \in DOMAIN disk => disk'.boards = disk.boards,
         \/ "boards" \in DOMAIN disk
         \/ /\ "tmp" \in DOMAIN disk' <=> "tmp" \in DOMAIN disk
            /\ "tmp" \in DOMAIN disk => disk'.tmp = disk.tmp
  PROVE  OnDisk' = OnDisk
  BY DEF OnDisk, BoardIds

LEMMA WriteTmpCopy ==
  ASSUME StoreInv, WriteTmp
  PROVE  OnDisk' = OnDisk \/ Overwrites
<1>1. /\ DOMAIN disk' = DOMAIN disk \union {"tmp"} /\ saving.at = "tmp"
      /\ \A y \in DOMAIN disk \ {"tmp"} : disk'[y] = disk[y]
  BY DEF WriteTmp, With
<1>. QED  BY <1>1, SameFiles DEF Overwrites

LEMMA RemoveOldCopy ==
  ASSUME StoreInv, RemoveOld
  PROVE  kept \intersect OnDisk \subseteq OnDisk'
<1>1. /\ saving.at = "remove"
      /\ DOMAIN disk' = DOMAIN disk \ {"boards"}
      /\ \A y \in DOMAIN disk \ {"boards"} : disk'[y] = disk[y]
  BY DEF RemoveOld, Without
<1>2. PICK tmp : tmp = disk.tmp
  OBVIOUS
<1>3. /\ "tmp" \in DOMAIN disk /\ tmp = [whole |-> TRUE, boards |-> saving.boards]
      /\ "boards" \in DOMAIN disk => kept \intersect BoardIds(Boards) \subseteq BoardIds(saving.boards)
  BY <1>1, <1>2 DEF StoreInv, CopyInv
<1>4. tmp.whole /\ tmp.boards = saving.boards
  BY <1>3
<1>5. OnDisk' = BoardIds(saving.boards)
  <2>1. "boards" \notin DOMAIN disk' /\ "tmp" \in DOMAIN disk' /\ disk'.tmp = tmp
    BY <1>1, <1>2, <1>3
  <2>2. disk'.tmp.whole /\ disk'.tmp.boards = saving.boards
    BY <1>4, <2>1
  <2>. QED  BY <2>1, <2>2 DEF OnDisk, BoardIds
<1>6. "boards" \notin DOMAIN disk => OnDisk = BoardIds(saving.boards)
  BY <1>2, <1>3, <1>4 DEF OnDisk
<1>7. "boards" \in DOMAIN disk => OnDisk = BoardIds(Boards)
  BY DEF OnDisk, Boards
<1>. QED  BY <1>3, <1>5, <1>6, <1>7

LEMMA RenameTmpCopy ==
  ASSUME StoreInv, RenameTmp
  PROVE  OnDisk' = OnDisk
<1>1. /\ saving.at = "rename"
      /\ "boards" \in DOMAIN disk' /\ disk'.boards = saving.boards
  BY DEF RenameTmp, With
<1>2. PICK tmp : tmp = disk.tmp
  OBVIOUS
<1>3. /\ "tmp" \in DOMAIN disk /\ "boards" \notin DOMAIN disk
      /\ tmp = [whole |-> TRUE, boards |-> saving.boards]
  BY <1>1, <1>2 DEF StoreInv, CopyInv
<1>4. tmp.whole /\ tmp.boards = saving.boards
  BY <1>3
<1>5. OnDisk = BoardIds(saving.boards)
  BY <1>2, <1>3, <1>4 DEF OnDisk
<1>6. OnDisk' = BoardIds(saving.boards)
  BY <1>1 DEF OnDisk, BoardIds
<1>. QED  BY <1>5, <1>6

LEMMA WriteActiveCopy ==
  ASSUME WriteActive
  PROVE  OnDisk' = OnDisk
<1>1. CASE saving.active = RemoveActive
  <2>1. /\ DOMAIN disk' = DOMAIN disk \ {"active"}
        /\ \A y \in DOMAIN disk \ {"active"} : disk'[y] = disk[y]
    BY <1>1 DEF WriteActive, Without
  <2>. QED  BY <2>1, SameFiles
<1>2. CASE saving.active # RemoveActive
  <2>1. /\ DOMAIN disk' = DOMAIN disk \union {"active"}
        /\ \A y \in DOMAIN disk \ {"active"} : disk'[y] = disk[y]
    BY <1>2 DEF WriteActive, With
  <2>. QED  BY <2>1, SameFiles
<1>. QED  BY <1>1, <1>2

LEMMA BrokenOffCopy ==
  ASSUME disk' \in CutShort
  PROVE  OnDisk' = OnDisk \/ Overwrites
<1>1. PICK files \in CutShort : files = disk'
  OBVIOUS
<1>. QED  BY <1>1, CutShortFacts, SameFiles DEF Overwrites

(* No step of a save, no failing call, crash or restart takes a board off  *)
(* the disk that was saved and is not to be deleted, but for a save that   *)
(* begins without boards.json: for any number of faults, clients and       *)
(* boards (writeJSONAtomic and its callers).                               *)
THEOREM CopyOnDiskHolds == Spec => CopyOnDisk
<1>1. ASSUME StoreInv, [Next]_vars
      PROVE  kept \intersect OnDisk \subseteq OnDisk' \/ Overwrites
  <2>1. disk' = disk => OnDisk' = OnDisk
    BY DEF OnDisk, BoardIds
  <2>2. CASE SaveStep
    BY <1>1, <2>1, <2>2, WriteTmpCopy, RemoveOldCopy, RenameTmpCopy, WriteActiveCopy
       DEF SaveStep, AppendHistory
  <2>3. CASE Fail \/ Crash
    BY <2>3, BrokenOffCopy DEF Fail, Crash
  <2>4. CASE Start \/ UNCHANGED vars
    BY <2>1, <2>4 DEF Start, vars
  <2>5. ASSUME NEW c \in Clients, FindBoard(c) \/ CreateBoard(c) \/ DeleteBoard(c) \/ UpdateBoard(c)
        PROVE  OnDisk' = OnDisk
    BY <2>1, <2>5 DEF FindBoard, CreateBoard, DeleteBoard, UpdateBoard
  <2>. QED  BY <1>1, <2>2, <2>3, <2>4, <2>5 DEF Next, Done
<1>2. StoreInv /\ [Next]_vars
        => [ \/ kept \intersect OnDisk \subseteq OnDisk'
             \/ saving.at = "tmp" /\ "boards" \notin DOMAIN disk ]_vars
  BY <1>1 DEF Overwrites
<1>. QED  BY <1>2, StoreInvHolds, PTL DEF Spec, CopyOnDisk
=============================================================================

------------------------ MODULE PanelHistory_proofs ------------------------
(***************************************************************************)
(* What holds of a board's panels, their history, undo and redo, whatever  *)
(* the panels, the edits and their number.                                 *)
(***************************************************************************)
EXTENDS PanelHistory, Lists_proofs

-----------------------------------------------------------------------------
(* The inductive invariant. *)

Kinds == {"created", "updated", "deleted", "restored"}
Fields == {"title", "x", "zIndex"}

EventSet == [type : Kinds, id : Ids, rev : Nat,
             before : Panels \cup {NoPanel}, after : Panels \cup {NoPanel},
             patch : SUBSET Fields]

RedoSet == [kind : {"recreate", "restore", "delete"}, panel : Panels]

Types ==
  /\ panels \in Seq(Panels)
  /\ revision \in Nat
  /\ events \in Seq(EventSet)
  /\ redo \in Seq(RedoSet)
  /\ faults \in 0 .. MaxFaults

(* An event is about one panel, and one that updates it knows both states. *)
AboutOnePanel(e) ==
  /\ e.before # NoPanel => e.before.id = e.id
  /\ e.after # NoPanel => e.after.id = e.id
  /\ e.type = "updated" => e.before # NoPanel /\ e.after # NoPanel

EventsFit == \A i \in DOMAIN events : AboutOnePanel(events[i])

IdsOf(ps) == {ps[i].id : i \in DOMAIN ps}

(* The panel id is gone when redo has come down to entry k of stack: it is *)
(* not among ids, those on the board now, and no entry above k is about    *)
(* it, or the next above k that is deletes it.                             *)
GoneAt(ids, stack, id, k) ==
  \/ /\ id \notin ids
     /\ \A j \in k + 1 .. Len(stack) : stack[j].panel.id # id
  \/ \E j \in k + 1 .. Len(stack) :
       /\ stack[j].panel.id = id /\ stack[j].kind = "delete"
       /\ \A m \in k + 1 .. j - 1 : stack[m].panel.id # id

(* What redo recreates is gone when its turn comes.                        *)
StackFits(ids, stack) ==
  \A k \in DOMAIN stack : stack[k].kind = "recreate" => GoneAt(ids, stack, stack[k].panel.id, k)

RedoFits == faults = 0 => StackFits(IdsOf(panels), redo)

HistoryInv ==
  Types /\ EventsFit /\ RevisionsOrdered /\ PanelIdsUnique /\ RedoFits

-----------------------------------------------------------------------------
(* The redo stack: what an undo pushes and a redo pops.                    *)

(* What an undo that pushes e has made of the ids on the board.            *)
UndoneIds(ids, e) ==
  CASE e.kind = "recreate" -> ids \ {e.panel.id}
    [] e.kind = "restore"  -> ids
    [] e.kind = "delete"   -> ids \cup {e.panel.id}

(* What redoing e makes of them.                                           *)
RedoneIds(ids, e) ==
  IF e.kind = "delete" THEN ids \ {e.panel.id} ELSE ids \cup {e.panel.id}

LEMMA PushFits ==
  ASSUME NEW ids, NEW stack \in Seq(RedoSet), StackFits(ids, stack),
         NEW e \in RedoSet, e.kind # "delete" => e.panel.id \in ids
  PROVE  StackFits(UndoneIds(ids, e), Append(stack, e))
<1>1. PICK n, id, new, left :
        n = Len(stack) /\ id = e.panel.id /\ new = Append(stack, e) /\ left = UndoneIds(ids, e)
  OBVIOUS
<1>2. /\ n \in Nat /\ DOMAIN stack = 1 .. n /\ DOMAIN new = 1 .. n + 1 /\ Len(new) = n + 1
      /\ \A i \in 1 .. n : new[i] = stack[i]
      /\ new[n + 1] = e
  BY <1>1, AppendFacts
<1>3. e.kind \in {"recreate", "restore", "delete"}
  BY DEF RedoSet
<1>4. /\ \A x : x \notin ids /\ x # id => x \notin left
      /\ e.kind = "recreate" => id \notin left
      /\ e.kind # "delete" => id \in ids
  BY <1>1, <1>3 DEF UndoneIds
<1>5. ASSUME NEW k \in 1 .. n, new[k].kind = "recreate"
      PROVE  GoneAt(left, new, new[k].panel.id, k)
  <2>1. GoneAt(ids, stack, stack[k].panel.id, k)
    BY <1>2, <1>5 DEF StackFits
  <2>2. CASE /\ stack[k].panel.id \notin ids
             /\ \A j \in k + 1 .. n : stack[j].panel.id # stack[k].panel.id
    <3>1. \A j \in k + 1 .. n + 1 : j = n + 1 \/ j \in k + 1 .. n
      BY <1>2
    <3>2. \A j \in k + 1 .. n : j \in 1 .. n
      BY <1>2
    <3>3. CASE stack[k].panel.id = id
      <4>1. n + 1 \in k + 1 .. n + 1 /\ (n + 1) - 1 = n
        BY <1>2
      <4>2. e.kind = "delete"
        BY <1>4, <2>2, <3>3
      <4>. QED  BY <1>1, <1>2, <2>2, <3>2, <3>3, <4>1, <4>2 DEF GoneAt
    <3>4. CASE stack[k].panel.id # id
      BY <1>1, <1>2, <1>4, <2>2, <3>1, <3>2, <3>4 DEF GoneAt
    <3>. QED  BY <3>3, <3>4
  <2>3. ASSUME NEW j \in k + 1 .. n, stack[j].panel.id = stack[k].panel.id,
               stack[j].kind = "delete",
               \A m \in k + 1 .. j - 1 : stack[m].panel.id # stack[k].panel.id
        PROVE  GoneAt(left, new, new[k].panel.id, k)
    <3>1. j \in k + 1 .. n + 1 /\ j \in 1 .. n /\ \A m \in k + 1 .. j - 1 : m \in 1 .. n
      BY <1>2
    <3>. QED  BY <1>2, <2>3, <3>1 DEF GoneAt
  <2>. QED  BY <1>1, <2>1, <2>2, <2>3 DEF GoneAt
<1>6. new[n + 1].kind = "recreate" => GoneAt(left, new, new[n + 1].panel.id, n + 1)
  BY <1>1, <1>2, <1>4 DEF GoneAt
<1>7. \A k \in DOMAIN new : k = n + 1 \/ k \in 1 .. n
  BY <1>2
<1>. QED  BY <1>1, <1>2, <1>5, <1>6, <1>7 DEF StackFits

LEMMA PopFits ==
  ASSUME NEW ids, NEW stack \in Seq(RedoSet), stack # <<>>, StackFits(ids, stack)
  PROVE  /\ Front(stack) \in Seq(RedoSet) /\ Last(stack) \in RedoSet
         /\ Last(stack).kind = "recreate" => Last(stack).panel.id \notin ids
         /\ StackFits(RedoneIds(ids, Last(stack)), Front(stack))
<1>1. PICK n, e, new, more :
        n = Len(stack) /\ e = Last(stack) /\ new = Front(stack) /\ more = RedoneIds(ids, e)
  OBVIOUS
<1>2. /\ n \in Nat \ {0} /\ DOMAIN stack = 1 .. n /\ DOMAIN new = 1 .. n - 1 /\ Len(new) = n - 1
      /\ \A i \in 1 .. n - 1 : new[i] = stack[i]
      /\ stack[n] = e /\ e \in RedoSet /\ new \in Seq(RedoSet)
  BY <1>1 DEF Front, Last
<1>3. e.kind = "recreate" => e.panel.id \notin ids
  <2>1. CASE e.kind = "recreate"
    <3>1. GoneAt(ids, stack, e.panel.id, n)
      BY <1>2, <2>1 DEF StackFits
    <3>2. n + 1 .. Len(stack) = {}
      BY <1>1, <1>2
    <3>. QED  BY <3>1, <3>2 DEF GoneAt
  <2>. QED  BY <2>1
<1>4. /\ \A x : x \notin ids /\ x # e.panel.id => x \notin more
      /\ e.kind = "delete" => e.panel.id \notin more
  BY <1>1 DEF RedoneIds
<1>5. ASSUME NEW k \in 1 .. n - 1, new[k].kind = "recreate"
      PROVE  GoneAt(more, new, new[k].panel.id, k)
  <2>1. k \in 1 .. n /\ k \in Nat /\ GoneAt(ids, stack, stack[k].panel.id, k)
    BY <1>2, <1>5 DEF StackFits
  <2>2. \A j \in k + 1 .. n - 1 : j \in k + 1 .. n /\ j \in 1 .. n - 1
    BY <1>2
  <2>3. n \in k + 1 .. n
    BY <1>2
  <2>4. CASE /\ stack[k].panel.id \notin ids
             /\ \A j \in k + 1 .. n : stack[j].panel.id # stack[k].panel.id
    <3>1. stack[k].panel.id \notin more
      BY <1>2, <1>4, <2>3, <2>4
    <3>. QED  BY <1>2, <2>2, <2>4, <3>1 DEF GoneAt
  <2>5. ASSUME NEW j \in k + 1 .. n, stack[j].panel.id = stack[k].panel.id,
               stack[j].kind = "delete",
               \A m \in k + 1 .. j - 1 : stack[m].panel.id # stack[k].panel.id
        PROVE  GoneAt(more, new, new[k].panel.id, k)
    <3>1. CASE j = n
      <4>1. stack[k].panel.id \notin more
        BY <1>2, <1>4, <2>5, <3>1
      <4>. QED  BY <1>2, <2>2, <2>5, <3>1, <4>1 DEF GoneAt
    <3>2. CASE j # n
      <4>1. j \in k + 1 .. n - 1 /\ j \in 1 .. n - 1
            /\ \A m \in k + 1 .. j - 1 : m \in 1 .. n - 1
        BY <1>2, <3>2
      <4>. QED  BY <1>2, <2>5, <4>1 DEF GoneAt
    <3>. QED  BY <3>1, <3>2
  <2>. QED  BY <1>1, <2>1, <2>4, <2>5 DEF GoneAt
<1>. QED  BY <1>1, <1>2, <1>3, <1>5 DEF StackFits

-----------------------------------------------------------------------------
(* Lists of panels. *)

Distinct(ps) == \A i, j \in DOMAIN ps : ps[i].id = ps[j].id => i = j

LEMMA PlacesOrdered ==
  ASSUME NEW ps \in Seq(Panels), NEW at \in SUBSET DOMAIN ps, at # {}
  PROVE  Min(at) \in at /\ Max(at) \in at
<1>1. at \in SUBSET Nat /\ at \in SUBSET (0 .. Len(ps)) /\ Len(ps) \in Nat
  OBVIOUS
<1>2. \E x \in at : \A y \in at : x <= y
  BY <1>1, LeastNat
<1>3. \E x \in at : \A y \in at : y <= x
  BY <1>1, GreatestBelow
<1>4. \E x \in at : \A y \in at : x >= y
  BY <1>1, <1>3
<1>. QED  BY <1>2, <1>4 DEF Min, Max

LEMMA FindFacts ==
  ASSUME NEW ps \in Seq(Panels), NEW id, NEW p, p = Find(ps, id) \/ p = FindLast(ps, id)
  PROVE  /\ p = NoPanel <=> id \notin IdsOf(ps)
         /\ p # NoPanel => p \in Panels /\ p.id = id /\ p \in ToSet(ps)
<1>. DEFINE at == {i \in DOMAIN ps : ps[i].id = id}
<1>1. CASE at = {}
  BY <1>1 DEF Find, FindLast, IdsOf
<1>2. CASE at # {}
  <2>1. PICK i \in at : p = ps[i]
    <3>1. Min(at) \in at /\ Max(at) \in at
      BY <1>2, PlacesOrdered
    <3>. QED  BY <1>2, <3>1 DEF Find, FindLast
  <2>2. p \in Panels /\ p.id = id
    BY <2>1
  <2>3. p # NoPanel
    BY <2>2, HistoryAssumption
  <2>4. id \in IdsOf(ps) /\ p \in ToSet(ps)
    BY <2>1 DEF IdsOf, ToSet
  <2>. QED  BY <2>2, <2>3, <2>4
<1>. QED  BY <1>1, <1>2

(* Some of the panels, in their order.                                     *)
LEMMA SomePanels ==
  ASSUME NEW ps \in Seq(Panels), NEW places \in SUBSET DOMAIN ps,
         NEW part, part = Sublist(ps, places)
  PROVE  /\ part \in Seq(Panels)
         /\ Distinct(ps) => Distinct(part)
         /\ IdsOf(part) = {ps[i].id : i \in places}
         /\ ToSet(part) = {ps[i] : i \in places}
<1>1. part \in Seq(Panels)
  BY SublistType
<1>2. PICK e : Shows(ps, places, part, e)
  BY SublistShows
<1>3. Len(part) \in Nat /\ DOMAIN part = 1 .. Len(part)
  BY <1>1
<1>4. \A i \in DOMAIN part : e[i] \in places /\ e[i] \in DOMAIN ps /\ part[i] = ps[e[i]]
  BY <1>2, <1>3 DEF Shows
<1>5. \A i, j \in DOMAIN part : e[i] = e[j] => i = j
  <2>1. \A i, j \in 1 .. Len(part) : i < j => e[i] < e[j]
    BY <1>2 DEF Shows
  <2>2. \A i \in 1 .. Len(part) : e[i] \in Int
    BY <1>3, <1>4
  <2>. QED  BY <1>3, <2>1, <2>2
<1>6. \A k \in places : \E i \in DOMAIN part : part[i] = ps[k]
  <2>1. TAKE k \in places
  <2>2. k \in (DOMAIN ps) \cap places
    OBVIOUS
  <2>3. PICK i \in 1 .. Len(part) : e[i] = k
    BY <1>2, <2>2 DEF Shows
  <2>. QED  BY <1>3, <1>4, <2>3
<1>7. Distinct(ps) => Distinct(part)
  BY <1>4, <1>5 DEF Distinct
<1>8. IdsOf(part) = {ps[i].id : i \in places}
  BY <1>4, <1>6 DEF IdsOf
<1>9. ToSet(part) = {ps[i] : i \in places}
  BY <1>4, <1>6 DEF ToSet
<1>. QED  BY <1>1, <1>7, <1>8, <1>9

LEMMA WithoutFacts ==
  ASSUME NEW ps \in Seq(Panels), NEW id, NEW left, left = Without(ps, id)
  PROVE  /\ left \in Seq(Panels)
         /\ Distinct(ps) => Distinct(left)
         /\ IdsOf(left) = IdsOf(ps) \ {id}
         /\ ToSet(left) = {p \in ToSet(ps) : p.id # id}
<1>1. PICK places : places = {i \in DOMAIN ps : ps[i].id # id}
  OBVIOUS
<1>2. places \in SUBSET DOMAIN ps /\ left = Sublist(ps, places)
  BY <1>1 DEF Without
<1>3. /\ left \in Seq(Panels)
      /\ Distinct(ps) => Distinct(left)
      /\ IdsOf(left) = {ps[i].id : i \in places}
      /\ ToSet(left) = {ps[i] : i \in places}
  BY <1>2, SomePanels
<1>4. {ps[i].id : i \in places} = IdsOf(ps) \ {id}
  BY <1>1 DEF IdsOf
<1>5. {ps[i] : i \in places} = {p \in ToSet(ps) : p.id # id}
  BY <1>1 DEF ToSet
<1>. QED  BY <1>3, <1>4, <1>5

LEMMA AppendPanel ==
  ASSUME NEW ps \in Seq(Panels), NEW q \in Panels, NEW new, new = Append(ps, q)
  PROVE  /\ new \in Seq(Panels)
         /\ Distinct(ps) /\ q.id \notin IdsOf(ps) => Distinct(new)
         /\ IdsOf(new) = IdsOf(ps) \cup {q.id}
         /\ ToSet(new) = ToSet(ps) \cup {q}
<1>1. PICK n : n = Len(ps)
  OBVIOUS
<1>2. /\ n \in Nat /\ DOMAIN ps = 1 .. n /\ DOMAIN new = 1 .. n + 1 /\ new \in Seq(Panels)
      /\ \A i \in 1 .. n : new[i] = ps[i]
      /\ new[n + 1] = q
  BY <1>1, AppendFacts
<1>3. \A i \in DOMAIN new : i = n + 1 \/ i \in 1 .. n
  BY <1>2
<1>4. n + 1 \in DOMAIN new /\ \A i \in 1 .. n : i \in DOMAIN new
  BY <1>2
<1>5. Distinct(ps) /\ q.id \notin IdsOf(ps) => Distinct(new)
  BY <1>2, <1>3 DEF Distinct, IdsOf
<1>6. IdsOf(new) = IdsOf(ps) \cup {q.id}
  BY <1>2, <1>3, <1>4 DEF IdsOf
<1>7. ToSet(new) = ToSet(ps) \cup {q}
  BY <1>2, <1>3, <1>4 DEF ToSet
<1>. QED  BY <1>2, <1>5, <1>6, <1>7

LEMMA ReplaceFacts ==
  ASSUME NEW ps \in Seq(Panels), NEW q \in Panels, NEW new, new = Replace(ps, q)
  PROVE  /\ new \in Seq(Panels)
         /\ Distinct(ps) => Distinct(new)
         /\ IdsOf(new) = IdsOf(ps)
         /\ q.id \in IdsOf(ps) => ToSet(new) = {p \in ToSet(ps) : p.id # q.id} \cup {q}
<1>1. new \in Seq(Panels) /\ DOMAIN new = DOMAIN ps
  BY DEF Replace
<1>2. \A i \in DOMAIN ps : new[i] = IF ps[i].id = q.id THEN q ELSE ps[i]
  BY DEF Replace
<1>3. \A i \in DOMAIN ps : new[i].id = ps[i].id
  BY <1>2
<1>4. Distinct(ps) => Distinct(new)
  BY <1>1, <1>3 DEF Distinct
<1>5. IdsOf(new) = IdsOf(ps)
  BY <1>1, <1>3 DEF IdsOf
<1>6. q.id \in IdsOf(ps) => ToSet(new) = {p \in ToSet(ps) : p.id # q.id} \cup {q}
  BY <1>1, <1>2 DEF IdsOf, ToSet
<1>. QED  BY <1>1, <1>4, <1>5, <1>6

LEMMA PutFacts ==
  ASSUME NEW ps \in Seq(Panels), NEW q \in Panels, NEW new, new = Put(ps, q)
  PROVE  /\ new \in Seq(Panels)
         /\ Distinct(ps) => Distinct(new)
         /\ IdsOf(new) = IdsOf(ps) \cup {q.id}
         /\ ToSet(new) = {p \in ToSet(ps) : p.id # q.id} \cup {q}
<1>1. CASE q.id \notin IdsOf(ps)
  <2>1. new = Append(ps, q)
    BY <1>1, FindFacts DEF Put
  <2>2. ToSet(ps) = {p \in ToSet(ps) : p.id # q.id}
    BY <1>1 DEF IdsOf, ToSet
  <2>3. /\ new \in Seq(Panels)
        /\ Distinct(ps) /\ q.id \notin IdsOf(ps) => Distinct(new)
        /\ IdsOf(new) = IdsOf(ps) \cup {q.id}
        /\ ToSet(new) = ToSet(ps) \cup {q}
    BY <2>1, AppendPanel
  <2>. QED  BY <1>1, <2>2, <2>3
<1>2. CASE q.id \in IdsOf(ps)
  <2>1. new = Replace(ps, q)
    BY <1>2, FindFacts DEF Put
  <2>. QED  BY <1>2, <2>1, ReplaceFacts
<1>. QED  BY <1>1, <1>2

(* A greatest zIndex there is, so what is put on top of the others gets a  *)
(* number.                                                                 *)
LEMMA OnTopFacts ==
  ASSUME NEW ps \in Seq(Panels), NEW q \in Panels, NEW top, top = OnTop(ps, q)
  PROVE  top \in Panels /\ top.id = q.id /\ SameButZ(top, q) /\ SameButZ(q, top)
<1>. DEFINE Zs == {0} \cup {p.content.zIndex : p \in ToSet(ps)}
<1>1. PICK n, f : n = Len(ps) /\ f = [i \in 1 .. n |-> ps[i].content.zIndex]
  OBVIOUS
<1>2. n \in Nat /\ DOMAIN ps = 1 .. n /\ \A i \in 1 .. n : ps[i] \in Panels
  BY <1>1
<1>3. f \in [1 .. n -> Nat]
  BY <1>1, <1>2 DEF Panels
<1>4. PICK m \in Nat : \A i \in 1 .. n : f[i] <= m
  BY <1>2, <1>3, BoundOf
<1>5. Max(Zs) \in Nat
  <2>1. \A x \in Zs : x = 0 \/ \E i \in 1 .. n : x = f[i]
    BY <1>1, <1>2 DEF ToSet
  <2>2. \A i \in 1 .. n : f[i] \in 0 .. m
    BY <1>3, <1>4
  <2>3. Zs \in SUBSET (0 .. m) /\ Zs # {}
    <3>1. 0 \in 0 .. m
      OBVIOUS
    <3>2. \A x \in Zs : x \in 0 .. m
      <4>. HIDE DEF Zs
      <4>. QED  BY <2>1, <2>2, <3>1
    <3>. QED  BY <3>2
  <2>. HIDE DEF Zs
  <2>4. \E x \in Zs : \A y \in Zs : y <= x
    BY <2>3, GreatestBelow
  <2>5. \E x \in Zs : \A y \in Zs : x >= y
    BY <2>3, <2>4
  <2>6. Max(Zs) \in Zs
    BY <2>5 DEF Max
  <2>7. \A x \in 0 .. m : x \in Nat
    OBVIOUS
  <2>8. Max(Zs) \in 0 .. m
    BY <2>3, <2>6
  <2>. QED  BY <2>7, <2>8
<1>6. PICK z : z = 1 + Max(Zs)
  OBVIOUS
<1>7. z \in Nat
  <2>. HIDE DEF Zs
  <2>. QED  BY <1>5, <1>6
<1>8. top = IF q.content.zIndex # 0 THEN q ELSE [q EXCEPT !.content.zIndex = z]
  BY <1>6 DEF OnTop
<1>. QED  BY <1>7, <1>8 DEF Panels, SameButZ, Patch

-----------------------------------------------------------------------------
(* Events and commits. *)

(* An event the next commit may record.                                    *)
Fits(ev) == ev \in EventSet /\ ev.rev = revision + 1 /\ AboutOnePanel(ev)

LEMMA EventFacts ==
  ASSUME Types, NEW p \in Panels, NEW q \in Panels
  PROVE  /\ Fits(Created(p)) /\ Fits(Deleted(p)) /\ Fits(Restored(p))
         /\ q.id = p.id => Fits(Updated(p, q)) /\ Fits(Event("updated", p.id, q, p, {}))
<1>1. /\ revision + 1 \in Nat /\ p.id \in Ids /\ p # NoPanel /\ q # NoPanel
      /\ DOMAIN p.content = Fields
  BY HistoryAssumption DEF Types, Panels, Fields
<1>2. Fits(Created(p)) /\ Fits(Deleted(p)) /\ Fits(Restored(p))
  BY <1>1 DEF Fits, Created, Deleted, Restored, Event, EventSet, Kinds, AboutOnePanel
<1>3. Patch(p, q) \in SUBSET Fields
  BY <1>1 DEF Patch
<1>4. q.id = p.id => Fits(Updated(p, q)) /\ Fits(Event("updated", p.id, q, p, {}))
  BY <1>1, <1>3 DEF Fits, Updated, Event, EventSet, Kinds, AboutOnePanel
<1>. QED  BY <1>2, <1>4

LEMMA FitsIsEvent ==
  ASSUME NEW ev, Fits(ev)
  PROVE  ev # NoEvent
  BY DEF Fits, EventSet, Kinds, NoEvent

LEMMA EventAt ==
  ASSUME NEW es \in Seq(EventSet), NEW k \in DOMAIN es
  PROVE  es[k] \in EventSet /\ es[k].rev \in Nat
<1>1. es[k] \in EventSet
  OBVIOUS
<1>. QED  BY <1>1 DEF EventSet

LEMMA CommitNext ==
  ASSUME HistoryInv, NEW next \in Seq(Panels), NEW ev, ev = NoEvent \/ Fits(ev),
         NEW o \in Outcomes, Commit(next, ev, o)
  PROVE  /\ panels' \in Seq(Panels) /\ revision' \in Nat /\ events' \in Seq(EventSet)
         /\ faults' \in 0 .. MaxFaults /\ EventsFit' /\ RevisionsOrdered'
         /\ faults' = 0 => faults = 0 /\ o = "ok" /\ panels' = next
<1>. USE DEF HistoryInv, Types
<1>1. panels' \in Seq(Panels) /\ revision' \in Nat /\ revision' \in {revision, revision + 1}
  BY DEF Commit
<1>2. o = "ok" \/ (o \in {"unsaved", "unlogged"} /\ faults < MaxFaults)
  BY DEF Outcomes
<1>3. /\ faults' \in 0 .. MaxFaults
      /\ faults' = 0 => faults = 0 /\ o = "ok" /\ panels' = next
  BY <1>2, HistoryAssumption DEF Commit
<1>4. CASE events' = events /\ (o = "ok" => revision' = revision)
  <2>1. EventsFit' /\ events' \in Seq(EventSet)
    BY <1>4 DEF EventsFit
  <2>2. \A k \in DOMAIN events : events[k].rev \in Nat
    BY EventAt
  <2>3. RevisionsOrdered'
    BY <1>1, <1>3, <1>4, <2>2 DEF RevisionsOrdered
  <2>. QED  BY <1>1, <1>3, <2>1, <2>3
<1>5. CASE events' = Append(events, ev) /\ Recorded(next, ev) /\ o = "ok" /\ revision' = revision + 1
  <2>1. Fits(ev) /\ ev \in EventSet
    BY <1>5 DEF Recorded, Fits
  <2>2. PICK n : n = Len(events)
    OBVIOUS
  <2>3. PICK new : new = Append(events, ev)
    OBVIOUS
  <2>4. /\ n \in Nat /\ DOMAIN events = 1 .. n /\ DOMAIN new = 1 .. n + 1 /\ new \in Seq(EventSet)
        /\ \A k \in 1 .. n : new[k] = events[k]
        /\ new[n + 1] = ev /\ Len(new) = n + 1
    BY <2>1, <2>2, <2>3, AppendFacts
  <2>5. \A k \in DOMAIN new : k = n + 1 \/ k \in 1 .. n
    BY <2>4
  <2>6. EventsFit'
    BY <1>5, <2>1, <2>3, <2>4, <2>5 DEF EventsFit, Fits
  <2>7. /\ \A k \in 1 .. n : events[k].rev \in Nat /\ events[k].rev <= revision
        /\ \A j, k \in 1 .. n : j < k => events[j].rev < events[k].rev
        /\ faults = 0 => revision = n
    <3>1. \A k \in 1 .. n : events[k].rev \in Nat
      BY <2>4, EventAt
    <3>. QED  BY <2>2, <2>4, <3>1 DEF RevisionsOrdered
  <2>8. ev.rev = revision + 1 /\ revision \in Nat
    BY <2>1 DEF Fits
  <2>9. \A j, k \in DOMAIN new : j < k => new[j].rev < new[k].rev
    <3>1. SUFFICES ASSUME NEW j \in 1 .. n + 1, NEW k \in 1 .. n + 1, j < k
                   PROVE  new[j].rev < new[k].rev
      BY <2>4
    <3>2. j \in 1 .. n
      BY <2>4, <3>1
    <3>3. new[j] = events[j] /\ events[j].rev \in Nat /\ events[j].rev <= revision
      BY <2>4, <2>7, <3>2
    <3>4. CASE k = n + 1
      BY <2>4, <2>8, <3>3, <3>4
    <3>5. CASE k \in 1 .. n
      BY <2>4, <2>7, <3>1, <3>2, <3>5
    <3>. QED  BY <2>4, <3>4, <3>5
  <2>10. \A k \in DOMAIN new : new[k].rev <= revision + 1
    BY <2>4, <2>5, <2>7, <2>8
  <2>11. RevisionsOrdered'
    BY <1>3, <1>5, <2>3, <2>4, <2>7, <2>9, <2>10 DEF RevisionsOrdered
  <2>. QED  BY <1>1, <1>3, <1>5, <2>3, <2>4, <2>6, <2>11
<1>. QED  BY <1>1, <1>4, <1>5 DEF Commit

(* What a step must establish beyond its commit.                           *)
LEMMA CommittedNext ==
  ASSUME HistoryInv, NEW next \in Seq(Panels), NEW ev, ev = NoEvent \/ Fits(ev),
         NEW o \in Outcomes, Commit(next, ev, o), redo' \in Seq(RedoSet),
         faults = 0 /\ o = "ok" => Distinct(next) /\ StackFits(IdsOf(next), redo')
  PROVE  HistoryInv'
<1>1. /\ panels' \in Seq(Panels) /\ revision' \in Nat /\ events' \in Seq(EventSet)
      /\ faults' \in 0 .. MaxFaults /\ EventsFit' /\ RevisionsOrdered'
      /\ faults' = 0 => faults = 0 /\ o = "ok" /\ panels' = next
  BY CommitNext
<1>2. PanelIdsUnique' /\ RedoFits'
  BY <1>1 DEF PanelIdsUnique, RedoFits, Distinct, IdsOf
<1>. QED  BY <1>1, <1>2 DEF HistoryInv, Types

LEMMA EditNext ==
  ASSUME HistoryInv, NEW next \in Seq(Panels), NEW ev, ev = NoEvent \/ Fits(ev),
         NEW o \in Outcomes, NEW op, Edit(op, next, ev, o),
         Distinct(panels) => Distinct(next),
         ev = NoEvent => IdsOf(next) = IdsOf(panels)
  PROVE  HistoryInv'
<1>1. Commit(next, ev, o) /\ (redo' = <<>> \/ (redo' = redo /\ ~Recorded(next, ev)))
  BY DEF Edit
<1>2. redo' \in Seq(RedoSet)
  <2>1. redo \in Seq(RedoSet) /\ <<>> \in Seq(RedoSet)
    BY DEF HistoryInv, Types
  <2>. QED  BY <1>1, <2>1
<1>3. faults = 0 => Distinct(next)
  BY DEF HistoryInv, PanelIdsUnique, Distinct
<1>4. faults = 0 => StackFits(IdsOf(next), redo')
  <2>1. CASE redo' = <<>>
    BY <2>1 DEF StackFits
  <2>2. CASE redo' = redo /\ ~Recorded(next, ev)
    <3>1. IdsOf(next) = IdsOf(panels)
      BY <2>2 DEF Recorded
    <3>. QED  BY <2>2, <3>1 DEF HistoryInv, RedoFits
  <2>. QED  BY <1>1, <2>1, <2>2
<1>. QED  BY <1>1, <1>2, <1>3, <1>4, CommittedNext

LEMMA UndoNext ==
  ASSUME HistoryInv, NEW next \in Seq(Panels), NEW ev, ev = NoEvent \/ Fits(ev),
         NEW o \in Outcomes, NEW i, NEW entries, Undo(i, next, ev, entries, o),
         Distinct(panels) => Distinct(next),
         \/ entries = <<>> /\ IdsOf(next) = IdsOf(panels)
         \/ \E e \in RedoSet : /\ entries = <<e>>
                               /\ e.kind # "delete" => e.panel.id \in IdsOf(panels)
                               /\ IdsOf(next) = UndoneIds(IdsOf(panels), e)
  PROVE  HistoryInv'
<1>1. Commit(next, ev, o) /\ redo' = redo \o entries
  BY DEF Undo
<1>2. faults = 0 => Distinct(next)
  BY DEF HistoryInv, PanelIdsUnique, Distinct
<1>3. redo \in Seq(RedoSet)
  BY DEF HistoryInv, Types
<1>4. CASE entries = <<>> /\ IdsOf(next) = IdsOf(panels)
  <2>1. redo' = redo
    BY <1>1, <1>3, <1>4
  <2>. QED  BY <1>1, <1>2, <1>3, <1>4, <2>1, CommittedNext DEF HistoryInv, RedoFits
<1>5. ASSUME NEW e \in RedoSet, entries = <<e>>,
             e.kind # "delete" => e.panel.id \in IdsOf(panels),
             IdsOf(next) = UndoneIds(IdsOf(panels), e)
      PROVE  HistoryInv'
  <2>1. redo' = Append(redo, e)
    BY <1>1, <1>3, <1>5
  <2>2. redo' \in Seq(RedoSet)
    BY <1>3, <2>1, AppendFacts
  <2>3. faults = 0 => StackFits(IdsOf(next), redo')
    <3>1. faults = 0 => StackFits(IdsOf(panels), redo)
      BY DEF HistoryInv, RedoFits
    <3>. QED  BY <1>3, <1>5, <2>1, <3>1, PushFits
  <2>. QED  BY <1>1, <1>2, <2>2, <2>3, CommittedNext
<1>. QED  BY <1>4, <1>5

LEMMA RedoNext ==
  ASSUME HistoryInv, NEW next \in Seq(Panels), NEW ev, ev = NoEvent \/ Fits(ev),
         NEW o \in Outcomes, redo # <<>>, Redo(next, ev, o),
         faults = 0 /\ o = "ok" => Distinct(next) /\ IdsOf(next) = RedoneIds(IdsOf(panels), Last(redo))
  PROVE  HistoryInv'
<1>1. Commit(next, ev, o) /\ redo' = Front(redo)
  BY DEF Redo
<1>2. redo \in Seq(RedoSet) /\ (faults = 0 => StackFits(IdsOf(panels), redo))
  BY DEF HistoryInv, Types, RedoFits
<1>3. redo' \in Seq(RedoSet)
  BY <1>1, <1>2, SMT DEF Front
<1>4. faults = 0 /\ o = "ok" => StackFits(IdsOf(next), redo')
  BY <1>1, <1>2, PopFits
<1>. QED  BY <1>1, <1>3, <1>4, CommittedNext

-----------------------------------------------------------------------------
(* The operations. *)

LEMMA HistoryInvInit ==
  ASSUME HistoryInit
  PROVE  HistoryInv
<1>1. Types
  BY HistoryAssumption DEF HistoryInit, Types
<1>2. EventsFit /\ RevisionsOrdered /\ PanelIdsUnique /\ RedoFits
  BY DEF HistoryInit, EventsFit, RevisionsOrdered, PanelIdsUnique, RedoFits, StackFits
<1>. QED  BY <1>1, <1>2 DEF HistoryInv

LEMMA NewPanel ==
  ASSUME NEW id \in Ids, NEW c \in Contents
  PROVE  /\ Panel(id, c) \in Panels /\ Panel(id, c).id = id
         /\ Panel(id, [c EXCEPT !.zIndex = 0]) \in Panels
         /\ Panel(id, [c EXCEPT !.zIndex = 0]).id = id
  BY HistoryAssumption DEF Panel, Panels

LEMMA AddPanelNext ==
  ASSUME HistoryInv, NEW id \in Ids, NEW c \in Contents, NEW o \in Outcomes, AddPanel(id, c, o)
  PROVE  HistoryInv'
<1>1. panels \in Seq(Panels) /\ Types
  BY DEF HistoryInv, Types
<1>2. PICK p : p = OnTop(panels, Panel(id, [c EXCEPT !.zIndex = 0]))
  OBVIOUS
<1>3. p \in Panels /\ p.id = id
  BY <1>1, <1>2, NewPanel, OnTopFacts
<1>4. id \notin IdsOf(panels)
  BY <1>1, FindFacts DEF AddPanel
<1>5. PICK next : next = Append(panels, p)
  OBVIOUS
<1>6. next \in Seq(Panels) /\ (Distinct(panels) => Distinct(next))
  BY <1>1, <1>3, <1>4, <1>5, AppendPanel
<1>7. Edit("edit", next, Created(p), o)
  BY <1>2, <1>5 DEF AddPanel
<1>8. Fits(Created(p)) /\ Created(p) # NoEvent
  BY <1>1, <1>3, EventFacts, FitsIsEvent
<1>. QED  BY <1>6, <1>7, <1>8, EditNext

LEMMA UpdatePanelNext ==
  ASSUME HistoryInv, NEW id \in Ids, NEW c \in Contents, NEW o \in Outcomes, UpdatePanel(id, c, o)
  PROVE  HistoryInv'
<1>1. panels \in Seq(Panels) /\ Types
  BY DEF HistoryInv, Types
<1>2. PICK p, q, next : p = FindLast(panels, id) /\ q = Panel(id, c) /\ next = Replace(panels, q)
  OBVIOUS
<1>3. p # NoPanel /\ Edit("edit", next, Updated(p, q), o)
  BY <1>2 DEF UpdatePanel
<1>4. p \in Panels /\ p.id = id /\ q \in Panels /\ q.id = id
  BY <1>1, <1>2, <1>3, FindFacts, NewPanel
<1>5. next \in Seq(Panels) /\ (Distinct(panels) => Distinct(next))
  BY <1>1, <1>2, <1>4, ReplaceFacts
<1>6. Fits(Updated(p, q)) /\ Updated(p, q) # NoEvent
  BY <1>1, <1>4, EventFacts, FitsIsEvent
<1>. QED  BY <1>3, <1>5, <1>6, EditNext

LEMMA RemovePanelNext ==
  ASSUME HistoryInv, NEW id \in Ids, NEW o \in Outcomes, RemovePanel(id, o)
  PROVE  HistoryInv'
<1>1. panels \in Seq(Panels) /\ Types
  BY DEF HistoryInv, Types
<1>2. PICK p, next : p = FindLast(panels, id) /\ next = Without(panels, id)
  OBVIOUS
<1>3. p # NoPanel /\ Edit("edit", next, Deleted(p), o)
  BY <1>2 DEF RemovePanel
<1>4. p \in Panels
  BY <1>1, <1>2, <1>3, FindFacts
<1>5. next \in Seq(Panels) /\ (Distinct(panels) => Distinct(next))
  BY <1>1, <1>2, WithoutFacts
<1>6. Fits(Deleted(p)) /\ Deleted(p) # NoEvent
  BY <1>1, <1>4, EventFacts, FitsIsEvent
<1>. QED  BY <1>3, <1>5, <1>6, EditNext

LEMMA SnapshotEventFits ==
  ASSUME Types, NEW next \in Seq(Panels), NEW ev \in SnapshotEvents(next)
  PROVE  Fits(ev)
<1>. DEFINE changed == {p \in ToSet(next) : Find(panels, p.id) # p}
            gone    == {p \in ToSet(panels) : Find(next, p.id) = NoPanel}
<1>1. panels \in Seq(Panels) /\ ToSet(next) \subseteq Panels /\ ToSet(panels) \subseteq Panels
  BY DEF Types, ToSet
<1>2. CASE changed # {}
  <2>1. PICK p \in changed : ev = IF Find(panels, p.id) = NoPanel THEN Created(p)
                                  ELSE Event("updated", p.id, Find(panels, p.id), p, {})
    BY <1>2 DEF SnapshotEvents
  <2>2. p \in Panels
    BY <1>1
  <2>3. CASE Find(panels, p.id) = NoPanel
    BY <2>1, <2>2, <2>3, EventFacts
  <2>4. CASE Find(panels, p.id) # NoPanel
    <3>1. PICK q : q = Find(panels, p.id)
      OBVIOUS
    <3>2. q \in Panels /\ q.id = p.id
      BY <1>1, <2>4, <3>1, FindFacts
    <3>. QED  BY <2>1, <2>2, <2>4, <3>1, <3>2, EventFacts
  <2>. QED  BY <2>3, <2>4
<1>3. CASE changed = {}
  <2>1. PICK p \in gone : ev = Deleted(p)
    BY <1>3 DEF SnapshotEvents
  <2>. QED  BY <1>1, <2>1, EventFacts
<1>. QED  BY <1>2, <1>3

LEMMA PutSnapshotNext ==
  ASSUME HistoryInv, NEW keep \in SUBSET Ids, NEW id \in Ids, NEW c \in Contents,
         NEW o \in Outcomes, PutSnapshot(keep, id, c, o)
  PROVE  HistoryInv'
<1>1. panels \in Seq(Panels) /\ Types
  BY DEF HistoryInv, Types
<1>2. PICK places, q : places = {i \in DOMAIN panels : panels[i].id \in keep} /\ q = Panel(id, c)
  OBVIOUS
<1>3. PICK kept, next : kept = Sublist(panels, places) /\ next = Put(kept, q)
  OBVIOUS
<1>4. PICK ev \in SnapshotEvents(next) : Edit("none", next, ev, o)
  BY <1>2, <1>3 DEF PutSnapshot
<1>5. kept \in Seq(Panels) /\ (Distinct(panels) => Distinct(kept))
  BY <1>1, <1>2, <1>3, SomePanels
<1>6. next \in Seq(Panels) /\ (Distinct(panels) => Distinct(next))
  BY <1>2, <1>3, <1>5, NewPanel, PutFacts
<1>7. Fits(ev) /\ ev # NoEvent
  BY <1>1, <1>4, <1>6, SnapshotEventFits, FitsIsEvent
<1>. QED  BY <1>4, <1>6, <1>7, EditNext

LEMMA MoveGroupNext ==
  ASSUME HistoryInv, NEW ids \in SUBSET Ids, NEW dx \in {-1, 1}, NEW o \in Outcomes,
         MoveGroup(ids, dx, o)
  PROVE  HistoryInv'
<1>1. panels \in Seq(Panels)
  BY DEF HistoryInv, Types
<1>2. PICK next : next = [i \in DOMAIN panels |->
                            IF panels[i].id \in ids
                            THEN [panels[i] EXCEPT !.content.x = @ + dx] ELSE panels[i]]
  OBVIOUS
<1>3. Edit("none", next, NoEvent, o)
  BY <1>2 DEF MoveGroup
<1>4. DOMAIN next = DOMAIN panels
  BY <1>2
<1>5. \A i \in DOMAIN panels : next[i] \in Panels /\ next[i].id = panels[i].id
  <2>1. TAKE i \in DOMAIN panels
  <2>2. panels[i] \in Panels
    BY <1>1
  <2>3. CASE panels[i].id \in ids
    <3>1. next[i] = [panels[i] EXCEPT !.content.x = @ + dx]
      BY <1>2, <2>3
    <3>2. panels[i].content.x + dx \in 0 .. MaxX
      BY <2>3 DEF MoveGroup
    <3>. QED  BY <2>2, <3>1, <3>2 DEF Panels
  <2>4. CASE panels[i].id \notin ids
    BY <1>2, <2>2, <2>4
  <2>. QED  BY <2>3, <2>4
<1>6. next \in Seq(Panels)
  <2>1. Len(panels) \in Nat /\ DOMAIN panels = 1 .. Len(panels)
    BY <1>1
  <2>2. next \in [1 .. Len(panels) -> Panels]
    BY <1>2, <1>5, <2>1
  <2>. QED  BY <2>1, <2>2
<1>7. IdsOf(next) = IdsOf(panels)
  BY <1>4, <1>5 DEF IdsOf
<1>8. Distinct(panels) => Distinct(next)
  BY <1>4, <1>5 DEF Distinct
<1>. QED  BY <1>3, <1>6, <1>7, <1>8, EditNext

-----------------------------------------------------------------------------
(* Undo and redo. *)

(* The event an undo takes back, and the panel it puts back for a burst.   *)
LEMMA LatestUndoable ==
  ASSUME Types, Undoable # {}
  PROVE  /\ Max(Undoable) \in Undoable /\ Max(Undoable) \in DOMAIN events
         /\ \A k \in Undoable : k <= Max(Undoable)
<1>1. Undoable \subseteq DOMAIN events /\ DOMAIN events = 1 .. Len(events) /\ Len(events) \in Nat
  BY DEF Undoable, Types
<1>2. PICK U : U = Undoable
  OBVIOUS
<1>3. U \in SUBSET (0 .. Len(events)) /\ U # {} /\ \A x \in U : x \in Int
  BY <1>1, <1>2
<1>4. \E x \in U : \A y \in U : y <= x
  BY <1>1, <1>3, GreatestBelow
<1>5. \E x \in U : \A y \in U : x >= y
  BY <1>3, <1>4
<1>6. Max(U) \in U /\ \A y \in U : Max(U) >= y
  BY <1>5 DEF Max
<1>. QED  BY <1>1, <1>2, <1>3, <1>6

LEMMA BurstBefore ==
  ASSUME Types, EventsFit, NEW i \in DOMAIN events, events[i].before # NoPanel
  PROVE  /\ BurstStart(i) \in DOMAIN events /\ BurstStart(i) <= i
         /\ events[BurstStart(i)].before \in Panels
         /\ events[BurstStart(i)].before.id = events[i].id
<1>. DEFINE SameKind(k) == /\ events[k].type = events[i].type
                           /\ events[k].id = events[i].id
                           /\ events[k].patch = events[i].patch
                           /\ events[k].rev + 1 = events[k + 1].rev
            Starts == {j \in 1 .. i : \A k \in j .. i - 1 : SameKind(k)}
<1>1. i \in Nat \ {0} /\ DOMAIN events = 1 .. Len(events) /\ Len(events) \in Nat
  BY DEF Types
<1>2. \A k \in DOMAIN events : events[k].before # NoPanel =>
        events[k].before \in Panels /\ events[k].before.id = events[k].id
  <2>1. TAKE k \in DOMAIN events
  <2>2. events[k] \in EventSet
    BY EventAt DEF Types
  <2>. QED  BY <2>2 DEF EventSet, EventsFit, AboutOnePanel
<1>3. CASE events[i].type # "updated"
  BY <1>1, <1>2, <1>3 DEF BurstStart
<1>4. CASE events[i].type = "updated"
  <2>1. BurstStart(i) = Min(Starts)
    BY <1>4 DEF BurstStart
  <2>2. i \in Starts
    <3>1. i .. i - 1 = {} /\ i \in 1 .. i
      BY <1>1
    <3>. QED  BY <3>1
  <2>3. Min(Starts) \in Starts
    <3>1. Starts \in SUBSET Nat
      BY <1>1
    <3>. HIDE DEF Starts
    <3>2. \E x \in Starts : \A y \in Starts : x <= y
      BY <2>2, <3>1, LeastNat
    <3>. QED  BY <3>2 DEF Min
  <2>4. PICK j : j = BurstStart(i)
    OBVIOUS
  <2>5. j \in 1 .. i /\ \A k \in j .. i - 1 : SameKind(k)
    BY <2>1, <2>3, <2>4
  <2>6. j \in DOMAIN events /\ j <= i
    BY <1>1, <2>5
  <2>7. events[j].type = "updated" /\ events[j].id = events[i].id
    <3>1. CASE j = i
      BY <1>4, <3>1
    <3>2. CASE j # i
      <4>1. j \in j .. i - 1
        BY <1>1, <2>5, <3>2
      <4>. QED  BY <1>4, <2>5, <4>1
    <3>. QED  BY <3>1, <3>2
  <2>8. events[j].before # NoPanel
    BY <2>6, <2>7 DEF EventsFit, AboutOnePanel
  <2>. QED  BY <1>2, <2>4, <2>6, <2>7, <2>8
<1>. QED  BY <1>3, <1>4

LEMMA UndoCreateNext ==
  ASSUME HistoryInv, NEW o \in Outcomes, UndoCreate(o)
  PROVE  HistoryInv'
<1>1. Types /\ EventsFit /\ panels \in Seq(Panels)
  BY DEF HistoryInv, Types
<1>2. PICK i, e : i = Max(Undoable) /\ e = events[i]
  OBVIOUS
<1>3. i \in DOMAIN events /\ e \in EventSet
  BY <1>1, <1>2, LatestUndoable, EventAt DEF UndoCreate, Types
<1>4. PICK next, entry : next = Without(panels, e.id) /\ entry = RedoEntry("recreate", e.after)
  OBVIOUS
<1>5. CanUndoCreate(e) /\ Undo(i, next, NoEvent, <<entry>>, o)
  BY <1>2, <1>4 DEF UndoCreate
<1>6. e.after \in Panels /\ e.after.id = e.id
  BY <1>1, <1>2, <1>3, <1>5 DEF CanUndoCreate, EventSet, EventsFit, AboutOnePanel
<1>7. e.id \in IdsOf(panels)
  BY <1>1, <1>5, FindFacts DEF CanUndoCreate
<1>8. /\ entry \in RedoSet /\ entry.kind = "recreate" /\ entry.panel.id = e.id
  BY <1>4, <1>6 DEF RedoEntry, RedoSet
<1>9. /\ next \in Seq(Panels) /\ (Distinct(panels) => Distinct(next))
      /\ IdsOf(next) = IdsOf(panels) \ {e.id}
  BY <1>1, <1>4, WithoutFacts
<1>10. IdsOf(next) = UndoneIds(IdsOf(panels), entry)
  BY <1>8, <1>9 DEF UndoneIds
<1>. QED  BY <1>5, <1>7, <1>8, <1>9, <1>10, UndoNext

LEMMA UndoUpdateNext ==
  ASSUME HistoryInv, NEW o \in Outcomes, UndoUpdate(o)
  PROVE  HistoryInv'
<1>1. Types /\ EventsFit /\ panels \in Seq(Panels)
  BY DEF HistoryInv, Types
<1>2. PICK i, e, p : i = Max(Undoable) /\ e = events[i] /\ p = events[BurstStart(i)].before
  OBVIOUS
<1>3. i \in DOMAIN events /\ e \in EventSet
  BY <1>1, <1>2, LatestUndoable, EventAt DEF UndoUpdate, Types
<1>4. PICK next, entries : /\ next = Put(panels, p)
                           /\ entries = IF e.after = NoPanel THEN <<>>
                                        ELSE <<RedoEntry("restore", e.after)>>
  OBVIOUS
<1>5. CanUndoUpdate(e) /\ Undo(i, next, Restored(p), entries, o)
  BY <1>2, <1>4 DEF UndoUpdate
<1>6. p \in Panels /\ p.id = e.id
  BY <1>1, <1>2, <1>3, <1>5, BurstBefore DEF CanUndoUpdate
<1>7. e.id \in IdsOf(panels)
  BY <1>1, <1>5, FindFacts DEF CanUndoUpdate
<1>8. /\ next \in Seq(Panels) /\ (Distinct(panels) => Distinct(next))
      /\ IdsOf(next) = IdsOf(panels)
  <2>1. /\ next \in Seq(Panels) /\ (Distinct(panels) => Distinct(next))
        /\ IdsOf(next) = IdsOf(panels) \cup {p.id}
    BY <1>1, <1>4, <1>6, PutFacts
  <2>. QED  BY <1>6, <1>7, <2>1
<1>9. Fits(Restored(p))
  BY <1>1, <1>6, EventFacts
<1>10. CASE e.after = NoPanel
  <2>1. entries = <<>>
    BY <1>4, <1>10
  <2>. QED  BY <1>5, <1>8, <1>9, <2>1, UndoNext
<1>11. CASE e.after # NoPanel
  <2>1. PICK entry : entry = RedoEntry("restore", e.after)
    OBVIOUS
  <2>2. entries = <<entry>>
    BY <1>4, <1>11, <2>1
  <2>3. e.after \in Panels /\ e.after.id = e.id
    BY <1>1, <1>2, <1>3, <1>11 DEF EventSet, EventsFit, AboutOnePanel
  <2>4. entry \in RedoSet /\ entry.kind = "restore" /\ entry.panel.id = e.id
    BY <2>1, <2>3 DEF RedoEntry, RedoSet
  <2>5. IdsOf(next) = UndoneIds(IdsOf(panels), entry)
    BY <1>8, <2>4 DEF UndoneIds
  <2>. QED  BY <1>5, <1>7, <1>8, <1>9, <2>2, <2>4, <2>5, UndoNext
<1>. QED  BY <1>10, <1>11

LEMMA UndoDeleteNext ==
  ASSUME HistoryInv, NEW o \in Outcomes, UndoDelete(o)
  PROVE  HistoryInv'
<1>1. Types /\ EventsFit /\ panels \in Seq(Panels)
  BY DEF HistoryInv, Types
<1>2. PICK i, e : i = Max(Undoable) /\ e = events[i]
  OBVIOUS
<1>3. i \in DOMAIN events /\ e \in EventSet
  BY <1>1, <1>2, LatestUndoable, EventAt DEF UndoDelete, Types
<1>4. PICK next, p, entry :
        next = Put(panels, p) /\ p = e.before /\ entry = RedoEntry("delete", p)
  OBVIOUS
<1>5. CanUndoDelete(e) /\ Undo(i, next, Restored(p), <<entry>>, o)
  BY <1>2, <1>4 DEF UndoDelete
<1>6. p \in Panels
  BY <1>3, <1>4, <1>5 DEF CanUndoDelete, EventSet
<1>7. /\ next \in Seq(Panels) /\ (Distinct(panels) => Distinct(next))
      /\ IdsOf(next) = IdsOf(panels) \cup {p.id}
  BY <1>1, <1>4, <1>6, PutFacts
<1>8. /\ entry \in RedoSet /\ entry.kind = "delete" /\ entry.panel.id = p.id
  BY <1>4, <1>6 DEF RedoEntry, RedoSet
<1>9. IdsOf(next) = UndoneIds(IdsOf(panels), entry)
  BY <1>7, <1>8 DEF UndoneIds
<1>10. Fits(Restored(p))
  BY <1>1, <1>6, EventFacts
<1>. QED  BY <1>5, <1>7, <1>8, <1>9, <1>10, UndoNext

(* The entry on top of the redo stack.                                     *)
LEMMA TopEntry ==
  ASSUME HistoryInv, redo # <<>>, NEW e, e = Last(redo)
  PROVE  /\ e \in RedoSet /\ e.panel \in Panels
         /\ faults = 0 => Distinct(panels)
         /\ faults = 0 /\ e.kind = "recreate" => e.panel.id \notin IdsOf(panels)
<1>1. redo \in Seq(RedoSet) /\ (faults = 0 => StackFits(IdsOf(panels), redo))
  BY DEF HistoryInv, Types, RedoFits
<1>2. e \in RedoSet
  BY <1>1 DEF Last
<1>3. faults = 0 /\ e.kind = "recreate" => e.panel.id \notin IdsOf(panels)
  BY <1>1, PopFits
<1>. QED  BY <1>2, <1>3 DEF RedoSet, HistoryInv, PanelIdsUnique, Distinct

LEMMA RedoRecreateNext ==
  ASSUME HistoryInv, NEW o \in Outcomes, RedoRecreate(o)
  PROVE  HistoryInv'
<1>1. PICK e : e = Last(redo)
  OBVIOUS
<1>2. redo # <<>> /\ e.kind = "recreate" /\ panels \in Seq(Panels) /\ Types
  BY <1>1 DEF RedoRecreate, HistoryInv, Types
<1>3. /\ e \in RedoSet /\ e.panel \in Panels
      /\ faults = 0 => Distinct(panels) /\ e.panel.id \notin IdsOf(panels)
  BY <1>1, <1>2, TopEntry
<1>4. PICK p, next : p = OnTop(panels, e.panel) /\ next = Append(panels, p)
  OBVIOUS
<1>5. Redo(next, Created(p), o)
  BY <1>1, <1>4 DEF RedoRecreate
<1>6. p \in Panels /\ p.id = e.panel.id
  BY <1>2, <1>3, <1>4, OnTopFacts
<1>7. /\ next \in Seq(Panels) /\ IdsOf(next) = IdsOf(panels) \cup {p.id}
      /\ Distinct(panels) /\ p.id \notin IdsOf(panels) => Distinct(next)
  <2>1. panels \in Seq(Panels) /\ p \in Panels /\ next = Append(panels, p)
    BY <1>2, <1>4, <1>6
  <2>. QED  BY ONLY <2>1, AppendPanel
<1>8. IdsOf(next) = RedoneIds(IdsOf(panels), Last(redo))
  BY <1>1, <1>2, <1>6, <1>7 DEF RedoneIds
<1>9. Fits(Created(p))
  BY <1>2, <1>6, EventFacts
<1>. QED  BY <1>2, <1>3, <1>5, <1>6, <1>7, <1>8, <1>9, RedoNext

LEMMA RedoRestoreNext ==
  ASSUME HistoryInv, NEW o \in Outcomes, RedoRestore(o)
  PROVE  HistoryInv'
<1>1. PICK e, q : e = Last(redo) /\ q = e.panel
  OBVIOUS
<1>2. redo # <<>> /\ e.kind = "restore" /\ panels \in Seq(Panels) /\ Types
  BY <1>1 DEF RedoRestore, HistoryInv, Types
<1>3. /\ e \in RedoSet /\ q \in Panels /\ (faults = 0 => Distinct(panels))
  BY <1>1, <1>2, TopEntry
<1>4. PICK p, r : p = FindLast(panels, q.id) /\ r = OnTop(panels, q)
  OBVIOUS
<1>5. CASE p # NoPanel
  <2>1. PICK next : next = Replace(panels, q)
    OBVIOUS
  <2>2. Redo(next, Updated(p, q), o)
    BY <1>1, <1>4, <1>5, <2>1 DEF RedoRestore
  <2>3. p \in Panels /\ p.id = q.id /\ q.id \in IdsOf(panels)
    <3>1. panels \in Seq(Panels) /\ p = FindLast(panels, q.id) /\ p # NoPanel
      BY <1>2, <1>4, <1>5
    <3>. QED  BY ONLY <3>1, FindFacts
  <2>4. /\ next \in Seq(Panels) /\ IdsOf(next) = IdsOf(panels)
        /\ Distinct(panels) => Distinct(next)
    BY <1>2, <1>3, <2>1, ReplaceFacts
  <2>5. IdsOf(next) = RedoneIds(IdsOf(panels), Last(redo))
    BY <1>1, <1>2, <2>3, <2>4 DEF RedoneIds
  <2>6. Fits(Updated(p, q))
    BY <1>2, <1>3, <2>3, EventFacts
  <2>. QED  BY <1>2, <1>3, <2>2, <2>4, <2>5, <2>6, RedoNext
<1>6. CASE p = NoPanel
  <2>1. PICK next : next = Append(panels, r)
    OBVIOUS
  <2>2. Redo(next, Created(r), o)
    BY <1>1, <1>4, <1>6, <2>1 DEF RedoRestore
  <2>3. r \in Panels /\ r.id = q.id /\ q.id \notin IdsOf(panels)
    BY <1>2, <1>3, <1>4, <1>6, FindFacts, OnTopFacts
  <2>4. /\ next \in Seq(Panels) /\ IdsOf(next) = IdsOf(panels) \cup {r.id}
        /\ Distinct(panels) /\ r.id \notin IdsOf(panels) => Distinct(next)
    BY <1>2, <2>1, <2>3, AppendPanel
  <2>5. IdsOf(next) = RedoneIds(IdsOf(panels), Last(redo))
    BY <1>1, <1>2, <2>3, <2>4 DEF RedoneIds
  <2>6. Fits(Created(r))
    BY <1>2, <2>3, EventFacts
  <2>. QED  BY <1>2, <1>3, <2>2, <2>3, <2>4, <2>5, <2>6, RedoNext
<1>. QED  BY <1>5, <1>6

LEMMA RedoDeleteNext ==
  ASSUME HistoryInv, NEW o \in Outcomes, RedoDelete(o)
  PROVE  HistoryInv'
<1>1. PICK e, q : e = Last(redo) /\ q = e.panel
  OBVIOUS
<1>2. redo # <<>> /\ e.kind = "delete" /\ panels \in Seq(Panels) /\ Types
  BY <1>1 DEF RedoDelete, HistoryInv, Types
<1>3. /\ e \in RedoSet /\ q \in Panels /\ (faults = 0 => Distinct(panels))
  BY <1>1, <1>2, TopEntry
<1>4. PICK p, next, d : /\ p = FindLast(panels, q.id) /\ next = Without(panels, q.id)
                        /\ d = IF p = NoPanel THEN q ELSE p
  OBVIOUS
<1>5. Redo(next, Deleted(d), o)
  BY <1>1, <1>4 DEF RedoDelete
<1>6. d \in Panels
  BY <1>2, <1>3, <1>4, FindFacts
<1>7. /\ next \in Seq(Panels) /\ IdsOf(next) = IdsOf(panels) \ {q.id}
      /\ Distinct(panels) => Distinct(next)
  BY <1>2, <1>4, WithoutFacts
<1>8. IdsOf(next) = RedoneIds(IdsOf(panels), Last(redo))
  BY <1>1, <1>2, <1>7 DEF RedoneIds
<1>9. Fits(Deleted(d))
  BY <1>2, <1>6, EventFacts
<1>. QED  BY <1>2, <1>3, <1>5, <1>7, <1>8, <1>9, RedoNext

LEMMA HistoryInvNext ==
  ASSUME HistoryInv, [HistoryNext]_historyVars
  PROVE  HistoryInv'
<1>1. CASE UNCHANGED historyVars
  <2>1. UNCHANGED <<panels, revision, events, redo, faults>>
    BY <1>1 DEF historyVars
  <2>. QED
    BY <2>1 DEF HistoryInv, Types, EventsFit, RevisionsOrdered, PanelIdsUnique, RedoFits, IdsOf
<1>2. CASE Restart
  <2>1. UNCHANGED <<panels, revision, events, faults>> /\ redo' = <<>>
    BY <1>2 DEF Restart
  <2>2. RedoFits' /\ redo' \in Seq(RedoSet)
    BY <2>1 DEF RedoFits, StackFits
  <2>. QED
    BY <2>1, <2>2 DEF HistoryInv, Types, EventsFit, RevisionsOrdered, PanelIdsUnique
<1>3. ASSUME NEW o \in Outcomes, ClientEdit(o)
      PROVE  HistoryInv'
  BY <1>3, AddPanelNext, UpdatePanelNext, RemovePanelNext, PutSnapshotNext, MoveGroupNext
     DEF ClientEdit
<1>4. ASSUME NEW o \in Outcomes, UndoLatest(o) \/ RedoLatest(o)
      PROVE  HistoryInv'
  BY <1>4, UndoCreateNext, UndoUpdateNext, UndoDeleteNext,
     RedoRecreateNext, RedoRestoreNext, RedoDeleteNext DEF UndoLatest, RedoLatest
<1>. QED  BY <1>1, <1>2, <1>3, <1>4 DEF HistoryNext

LEMMA HistoryInvHolds == HistorySpec => []HistoryInv
  BY HistoryInvInit, HistoryInvNext, PTL DEF HistorySpec

(* The types of panels, history and redo stack: no undo or redo ever puts  *)
(* the nil an event may carry on the board or on the stack.                *)
THEOREM HistoryTypeCorrect == HistorySpec => []HistoryTypeOK
<1>1. HistoryInv => HistoryTypeOK
  <2>1. SUFFICES ASSUME HistoryInv PROVE HistoryTypeOK
    OBVIOUS
  <2>2. /\ events \in Seq(EventSet) /\ redo \in Seq(RedoSet) /\ panels \in Seq(Panels)
        /\ revision \in Nat /\ faults \in 0 .. MaxFaults
    BY <2>1 DEF HistoryInv, Types
  <2>3. ASSUME NEW i \in DOMAIN events
        PROVE  /\ events[i].type \in {"created", "updated", "deleted", "restored"}
               /\ events[i].before \in Panels \cup {NoPanel}
               /\ events[i].after \in Panels \cup {NoPanel}
               /\ events[i].patch \subseteq {"title", "x", "zIndex"}
    <3>1. events[i] \in EventSet
      BY <2>2
    <3>. QED  BY <3>1 DEF EventSet, Kinds, Fields
  <2>4. ASSUME NEW i \in DOMAIN redo
        PROVE  /\ redo[i].kind \in {"recreate", "restore", "delete"}
               /\ redo[i].panel \in Panels
    <3>1. redo[i] \in RedoSet
      BY <2>2
    <3>. QED  BY <3>1 DEF RedoSet
  <2>. QED  BY <2>2, <2>3, <2>4 DEF HistoryTypeOK
<1>. QED  BY <1>1, HistoryInvHolds, PTL

(* Revisions order the history, whatever is undone, redone or refused by   *)
(* the disk.                                                               *)
THEOREM RevisionsOrderedHolds == HistorySpec => []RevisionsOrdered
<1>1. HistoryInv => RevisionsOrdered
  BY DEF HistoryInv
<1>. QED  BY <1>1, HistoryInvHolds, PTL

(* As long as the disk refuses nothing, no panel is on the board twice:    *)
(* what redo recreates without looking is gone when its turn comes.        *)
THEOREM PanelIdsUniqueHolds == HistorySpec => []PanelIdsUnique
<1>1. HistoryInv => PanelIdsUnique
  BY DEF HistoryInv
<1>. QED  BY <1>1, HistoryInvHolds, PTL

-----------------------------------------------------------------------------
(* What undo and redo do to the last change. *)

Others(ps, id) == {p \in ToSet(ps) : p.id # id}

(* After an edit of one panel the board is what the last event says, and   *)
(* the board before it is that with the event's before.                    *)
LastEditInv ==
  past.op = "edit" /\ faults = 0 =>
    LET e == events[Len(events)]
    IN /\ undone = <<>> /\ events # <<>>
       /\ Find(panels, e.id) = e.after /\ e.before # e.after
       /\ past.board = Others(panels, e.id) \cup ({e.before} \ {NoPanel})
       /\ e.type # "restored"
       /\ e.before # NoPanel /\ e.after = NoPanel => e.type = "deleted"

(* After an undo the board before it is what redo will make, a zIndex      *)
(* apart.                                                                  *)
LastUndoInv ==
  past.op = "undo" /\ faults = 0 =>
    LET e == redo[Len(redo)]
    IN /\ redo # <<>>
       /\ \/ e.kind = "delete" /\ past.board = Others(panels, e.panel.id)
          \/ /\ e.kind # "delete"
             /\ \E c \in past.board : /\ c \in Panels /\ c.id = e.panel.id
                                      /\ SameButZ(c, e.panel)
                                      /\ past.board = Others(panels, c.id) \cup {c}

LEMMA SameButZFacts ==
  ASSUME NEW p \in Panels, NEW q \in Panels, NEW r \in Panels
  PROVE  /\ SameButZ(p, p)
         /\ SameButZ(p, q) => SameButZ(q, p)
         /\ SameButZ(p, q) /\ SameButZ(q, r) => SameButZ(p, r)
<1>1. DOMAIN p.content = Fields /\ DOMAIN q.content = Fields /\ DOMAIN r.content = Fields
  BY DEF Panels, Fields
<1>. QED  BY <1>1 DEF SameButZ, Patch

(* A board with one panel per id is the panel of an id and the others.     *)
LEMMA BoardParts ==
  ASSUME NEW ps \in Seq(Panels), Distinct(ps), NEW id
  PROVE  /\ FindLast(ps, id) = Find(ps, id)
         /\ \A p \in ToSet(ps) : p.id = id => p = Find(ps, id)
         /\ ToSet(ps) = Others(ps, id) \cup ({Find(ps, id)} \ {NoPanel})
         /\ Find(ps, id) = NoPanel => ToSet(ps) = Others(ps, id)
<1>1. PICK f, g : f = Find(ps, id) /\ g = FindLast(ps, id)
  OBVIOUS
<1>2. /\ f = NoPanel <=> id \notin IdsOf(ps)
      /\ f # NoPanel => f \in Panels /\ f.id = id /\ f \in ToSet(ps)
  <2>1. ps \in Seq(Panels) /\ (f = Find(ps, id) \/ f = FindLast(ps, id))
    BY <1>1
  <2>. QED  BY ONLY <2>1, FindFacts
<1>3. /\ g = NoPanel <=> id \notin IdsOf(ps)
      /\ g # NoPanel => g \in Panels /\ g.id = id /\ g \in ToSet(ps)
  <2>1. ps \in Seq(Panels) /\ (g = Find(ps, id) \/ g = FindLast(ps, id))
    BY <1>1
  <2>. QED  BY ONLY <2>1, FindFacts
<1>4. \A p, q \in ToSet(ps) : p.id = q.id => p = q
  BY DEF Distinct, ToSet
<1>5. \A p \in ToSet(ps) : p.id \in IdsOf(ps)
  BY DEF ToSet, IdsOf
<1>6. f = g /\ \A p \in ToSet(ps) : p.id = id => p = f
  BY <1>2, <1>3, <1>4, <1>5
<1>7. ToSet(ps) = Others(ps, id) \cup ({f} \ {NoPanel})
  BY <1>2, <1>6, <1>5 DEF Others
<1>. QED  BY <1>1, <1>6, <1>7

(* Each operation on the list leaves the other panels.                     *)
LEMMA OthersStay ==
  ASSUME NEW ps \in Seq(Panels), NEW q \in Panels
  PROVE  /\ Others(Append(ps, q), q.id) = Others(ps, q.id)
         /\ Others(Replace(ps, q), q.id) = Others(ps, q.id)
         /\ Others(Put(ps, q), q.id) = Others(ps, q.id)
         /\ Others(Without(ps, q.id), q.id) = Others(ps, q.id)
<1>1. PICK appended, replaced, done, left :
        /\ appended = Append(ps, q) /\ replaced = Replace(ps, q)
        /\ done = Put(ps, q) /\ left = Without(ps, q.id)
  OBVIOUS
<1>2. ToSet(appended) = ToSet(ps) \cup {q}
  BY <1>1, AppendPanel
<1>3. ToSet(done) = {p \in ToSet(ps) : p.id # q.id} \cup {q}
  BY <1>1, PutFacts
<1>4. ToSet(left) = {p \in ToSet(ps) : p.id # q.id}
  BY <1>1, WithoutFacts
<1>5. Others(replaced, q.id) = Others(ps, q.id)
  BY <1>1 DEF Replace, Others, ToSet
<1>. QED  BY <1>1, <1>2, <1>3, <1>4, <1>5 DEF Others

-----------------------------------------------------------------------------
(* The last edit. *)

LEMMA EditRecords ==
  ASSUME HistoryInv, NEW next \in Seq(Panels), NEW ev, Fits(ev), NEW o \in Outcomes,
         Edit("edit", next, ev, o),
         Others(next, ev.id) = Others(panels, ev.id),
         faults = 0 => ev.before = Find(panels, ev.id) /\ ev.after = Find(next, ev.id),
         faults = 0 /\ next # panels => ev.before # ev.after,
         ev.type # "restored",
         ev.before # NoPanel /\ ev.after = NoPanel => ev.type = "deleted"
  PROVE  LastEditInv'
<1>1. SUFFICES ASSUME past'.op = "edit", faults' = 0
               PROVE  LET e == events'[Len(events')]
                      IN /\ undone' = <<>> /\ events' # <<>>
                         /\ Find(panels', e.id) = e.after /\ e.before # e.after
                         /\ past'.board = Others(panels', e.id) \cup ({e.before} \ {NoPanel})
                         /\ e.type # "restored"
                         /\ e.before # NoPanel /\ e.after = NoPanel => e.type = "deleted"
  BY DEF LastEditInv
<1>2. /\ Commit(next, ev, o) /\ undone' = <<>>
      /\ past' = IF events' = events THEN Nothing ELSE [op |-> "edit", board |-> ToSet(panels)]
  BY DEF Edit
<1>3. events' # events /\ past' = [op |-> "edit", board |-> ToSet(panels)]
  BY <1>1, <1>2 DEF Nothing
<1>4. faults = 0 /\ o = "ok" /\ panels' = next
  BY <1>1, <1>2, CommitNext
<1>5. events' = Append(events, ev) /\ next # panels
  BY <1>2, <1>3 DEF Commit, Recorded
<1>6. events \in Seq(EventSet) /\ ev \in EventSet /\ panels \in Seq(Panels)
  BY DEF HistoryInv, Types, Fits
<1>7. events'[Len(events')] = ev /\ events' # <<>>
  <2>1. PICK n, new : n = Len(events) /\ new = Append(events, ev)
    OBVIOUS
  <2>2. n \in Nat /\ Len(new) = n + 1 /\ new[n + 1] = ev
    BY <1>6, <2>1, AppendFacts
  <2>. QED  BY <1>5, <1>6, <2>1, <2>2
<1>8. Distinct(panels)
  BY <1>4 DEF HistoryInv, PanelIdsUnique, Distinct
<1>9. past'.board = Others(panels, ev.id) \cup ({ev.before} \ {NoPanel})
  <2>1. ToSet(panels) = Others(panels, ev.id) \cup ({Find(panels, ev.id)} \ {NoPanel})
    BY <1>6, <1>8, BoardParts
  <2>. QED  BY <1>3, <1>4, <2>1
<1>. QED  BY <1>2, <1>4, <1>5, <1>7, <1>9

LEMMA AddPanelRecords ==
  ASSUME HistoryInv, NEW id \in Ids, NEW c \in Contents, NEW o \in Outcomes, AddPanel(id, c, o)
  PROVE  LastEditInv'
<1>1. panels \in Seq(Panels) /\ Types
  BY DEF HistoryInv, Types
<1>2. PICK p : p = OnTop(panels, Panel(id, [c EXCEPT !.zIndex = 0]))
  OBVIOUS
<1>3. p \in Panels /\ p.id = id /\ p # NoPanel
  BY <1>1, <1>2, NewPanel, OnTopFacts, HistoryAssumption
<1>4. id \notin IdsOf(panels) /\ Find(panels, id) = NoPanel
  BY <1>1, FindFacts DEF AddPanel
<1>5. PICK next, ev : next = Append(panels, p) /\ ev = Created(p)
  OBVIOUS
<1>6. Edit("edit", next, ev, o)
  BY <1>2, <1>5 DEF AddPanel
<1>7. /\ next \in Seq(Panels) /\ ToSet(next) = ToSet(panels) \cup {p}
      /\ Distinct(panels) => Distinct(next)
  BY <1>1, <1>3, <1>4, <1>5, AppendPanel
<1>8. Fits(ev) /\ ev.before = NoPanel /\ ev.after = p /\ ev.id = id /\ ev.type = "created"
  BY <1>1, <1>3, <1>5, EventFacts DEF Created, Event
<1>9. faults = 0 => Find(next, id) = p
  <2>1. faults = 0 => Distinct(next)
    BY <1>7 DEF HistoryInv, PanelIdsUnique, Distinct
  <2>. QED  BY <1>3, <1>7, <2>1, BoardParts
<1>10. Others(next, ev.id) = Others(panels, ev.id)
  BY <1>1, <1>3, <1>5, <1>8, OthersStay
<1>11. ev.before = Find(panels, ev.id) /\ (faults = 0 => ev.after = Find(next, ev.id))
  BY <1>4, <1>8, <1>9
<1>. QED  BY ONLY HistoryInv, o \in Outcomes, <1>3, <1>6, <1>7, <1>8, <1>10, <1>11, EditRecords

LEMMA UpdatePanelRecords ==
  ASSUME HistoryInv, NEW id \in Ids, NEW c \in Contents, NEW o \in Outcomes, UpdatePanel(id, c, o)
  PROVE  LastEditInv'
<1>1. panels \in Seq(Panels) /\ Types /\ (faults = 0 => Distinct(panels))
  BY DEF HistoryInv, Types, PanelIdsUnique, Distinct
<1>2. PICK p, q, next, ev : /\ p = FindLast(panels, id) /\ q = Panel(id, c)
                            /\ next = Replace(panels, q) /\ ev = Updated(p, q)
  OBVIOUS
<1>3. p # NoPanel /\ Edit("edit", next, ev, o)
  BY <1>2 DEF UpdatePanel
<1>4. p \in Panels /\ p.id = id /\ p \in ToSet(panels) /\ id \in IdsOf(panels)
  <2>1. panels \in Seq(Panels) /\ (p = Find(panels, id) \/ p = FindLast(panels, id)) /\ p # NoPanel
    BY <1>1, <1>2, <1>3
  <2>. QED  BY ONLY <2>1, FindFacts
<1>5. q \in Panels /\ q.id = id /\ q # NoPanel
  BY <1>2, NewPanel, HistoryAssumption
<1>6. /\ next \in Seq(Panels) /\ (Distinct(panels) => Distinct(next))
      /\ ToSet(next) = {x \in ToSet(panels) : x.id # q.id} \cup {q}
  BY <1>1, <1>2, <1>4, <1>5, ReplaceFacts
<1>7. Fits(ev) /\ ev.before = p /\ ev.after = q /\ ev.id = id /\ ev.type = "updated"
  BY <1>1, <1>2, <1>4, <1>5, EventFacts DEF Updated, Event
<1>8. faults = 0 => p = Find(panels, id) /\ q = Find(next, id)
  BY <1>1, <1>2, <1>5, <1>6, BoardParts
<1>9. Others(next, ev.id) = Others(panels, ev.id)
  BY <1>1, <1>2, <1>5, <1>7, OthersStay
<1>10. faults = 0 /\ next # panels => p # q
  <2>1. SUFFICES ASSUME faults = 0, p = q PROVE next = panels
    OBVIOUS
  <2>2. \A i \in DOMAIN panels : next[i] = panels[i]
    <3>1. TAKE i \in DOMAIN panels
    <3>2. panels[i] \in ToSet(panels)
      BY DEF ToSet
    <3>3. panels[i].id = id => panels[i] = q
      BY <1>1, <1>8, <2>1, <3>2, BoardParts
    <3>. QED  BY <1>2, <1>5, <3>3 DEF Replace
  <2>3. next = [i \in DOMAIN next |-> next[i]] /\ panels = [i \in DOMAIN panels |-> panels[i]]
    BY <1>1, <1>6
  <2>4. DOMAIN next = DOMAIN panels
    BY <1>2 DEF Replace
  <2>. QED  BY <2>2, <2>3, <2>4
<1>11. /\ faults = 0 => ev.before = Find(panels, ev.id) /\ ev.after = Find(next, ev.id)
       /\ faults = 0 /\ next # panels => ev.before # ev.after
  BY <1>7, <1>8, <1>10
<1>. QED  BY ONLY HistoryInv, o \in Outcomes, <1>3, <1>5, <1>6, <1>7, <1>9, <1>11, EditRecords

LEMMA RemovePanelRecords ==
  ASSUME HistoryInv, NEW id \in Ids, NEW o \in Outcomes, RemovePanel(id, o)
  PROVE  LastEditInv'
<1>1. panels \in Seq(Panels) /\ Types /\ (faults = 0 => Distinct(panels))
  BY DEF HistoryInv, Types, PanelIdsUnique, Distinct
<1>2. PICK p, next, ev : p = FindLast(panels, id) /\ next = Without(panels, id) /\ ev = Deleted(p)
  OBVIOUS
<1>3. p # NoPanel /\ Edit("edit", next, ev, o)
  BY <1>2 DEF RemovePanel
<1>4. p \in Panels /\ p.id = id
  BY <1>1, <1>2, <1>3, FindFacts
<1>5. next \in Seq(Panels) /\ IdsOf(next) = IdsOf(panels) \ {id}
  BY <1>1, <1>2, WithoutFacts
<1>6. /\ Fits(ev) /\ ev.before = p /\ ev.after = NoPanel /\ ev.id = id /\ ev.type = "deleted"
  BY <1>1, <1>2, <1>4, EventFacts DEF Deleted, Event
<1>7. Find(next, id) = NoPanel /\ (faults = 0 => p = Find(panels, id))
  BY <1>1, <1>2, <1>5, FindFacts, BoardParts
<1>8. Others(next, ev.id) = Others(panels, ev.id)
  BY <1>1, <1>2, <1>4, <1>6, OthersStay
<1>9. /\ faults = 0 => ev.before = Find(panels, ev.id) /\ ev.after = Find(next, ev.id)
      /\ ev.before # ev.after
  BY <1>3, <1>6, <1>7
<1>. QED  BY ONLY HistoryInv, o \in Outcomes, <1>3, <1>5, <1>6, <1>8, <1>9, EditRecords

LEMMA LastEditNext ==
  ASSUME HistoryInv, LastEditInv, [HistoryNext]_historyVars
  PROVE  LastEditInv'
<1>1. CASE UNCHANGED historyVars
  BY <1>1 DEF historyVars, LastEditInv
<1>2. CASE past'.op # "edit"
  BY <1>2 DEF LastEditInv
<1>3. ASSUME NEW o \in Outcomes, ClientEdit(o)
      PROVE  LastEditInv'
  <2>1. ASSUME NEW next, NEW ev, Edit("none", next, ev, o)
        PROVE  past'.op # "edit"
    BY <2>1 DEF Edit, Nothing
  <2>2. ASSUME NEW keep, NEW id, NEW c, PutSnapshot(keep, id, c, o)
        PROVE  past'.op # "edit"
    BY <2>1, <2>2 DEF PutSnapshot
  <2>3. ASSUME NEW ids, NEW dx, MoveGroup(ids, dx, o)
        PROVE  past'.op # "edit"
    BY <2>1, <2>3 DEF MoveGroup
  <2>. QED
    BY <1>2, <1>3, <2>2, <2>3, AddPanelRecords, UpdatePanelRecords, RemovePanelRecords
       DEF ClientEdit
<1>4. ASSUME NEW o \in Outcomes, UndoLatest(o) \/ RedoLatest(o)
      PROVE  past'.op # "edit"
  <2>1. ASSUME NEW i, NEW next, NEW ev, NEW entries, Undo(i, next, ev, entries, o)
        PROVE  past'.op # "edit"
    BY <2>1 DEF Undo, Nothing
  <2>2. ASSUME NEW next, NEW ev, Redo(next, ev, o)
        PROVE  past'.op # "edit"
    BY <2>2 DEF Redo, Nothing
  <2>3. UndoLatest(o) => past'.op # "edit"
    BY <2>1 DEF UndoLatest, UndoCreate, UndoUpdate, UndoDelete
  <2>4. RedoLatest(o) => past'.op # "edit"
    BY <2>2 DEF RedoLatest, RedoRecreate, RedoRestore, RedoDelete
  <2>. QED  BY <1>4, <2>3, <2>4
<1>5. Restart => past'.op # "edit"
  BY DEF Restart, Nothing
<1>. QED  BY <1>1, <1>2, <1>3, <1>4, <1>5 DEF HistoryNext

(* The last event can be undone right after the edit it records.           *)
LEMMA LastEditUndoable ==
  ASSUME HistoryInv, LastEditInv, past.op = "edit", faults = 0
  PROVE  Undoable # {} /\ Max(Undoable) = Len(events)
<1>1. /\ events \in Seq(EventSet) /\ panels \in Seq(Panels) /\ Types /\ EventsFit
      /\ events # <<>>
  BY DEF HistoryInv, Types, LastEditInv
<1>2. PICK n, e : n = Len(events) /\ e = events[n]
  OBVIOUS
<1>3. n \in DOMAIN events /\ n \in Nat /\ DOMAIN events = 1 .. n
  BY <1>1, <1>2
<1>4. e \in EventSet
  BY <1>1, <1>2, <1>3
<1>5. /\ Find(panels, e.id) = e.after /\ e.before # e.after /\ e.type # "restored"
      /\ e.before # NoPanel /\ e.after = NoPanel => e.type = "deleted"
  BY <1>2 DEF LastEditInv
<1>6. CanUndoCreate(e) \/ CanUndoUpdate(e) \/ CanUndoDelete(e)
  <2>1. CASE e.before # NoPanel
    BY <1>5, <2>1 DEF CanUndoUpdate, CanUndoDelete
  <2>2. CASE e.before = NoPanel
    <3>1. e.after # NoPanel /\ e.after \in Panels
      BY <1>4, <1>5, <2>2 DEF EventSet
    <3>2. SameButZ(e.after, e.after)
      BY <3>1, SameButZFacts
    <3>. QED  BY <1>5, <2>2, <3>1, <3>2 DEF CanUndoCreate
  <2>. QED  BY <2>1, <2>2
<1>7. n \in Undoable
  BY <1>2, <1>3, <1>5, <1>6 DEF Undoable
<1>8. Max(Undoable) \in DOMAIN events /\ n <= Max(Undoable)
  BY <1>1, <1>7, LatestUndoable
<1>9. Max(Undoable) <= n /\ Max(Undoable) \in Nat
  BY <1>3, <1>8
<1>. QED  BY <1>2, <1>3, <1>7, <1>8, <1>9

(* Unless the last event may end a burst, its undo is about it alone.      *)
LEMMA NoBurst ==
  ASSUME Types, NEW n, n = Len(events), events # <<>>, ~InBurst(n)
  PROVE  BurstStart(n) = n
<1>. DEFINE SameKind(k) == /\ events[k].type = events[n].type
                           /\ events[k].id = events[n].id
                           /\ events[k].patch = events[n].patch
                           /\ events[k].rev + 1 = events[k + 1].rev
            Starts == {j \in 1 .. n : \A k \in j .. n - 1 : SameKind(k)}
<1>1. n \in Nat \ {0}
  BY DEF Types
<1>2. CASE events[n].type # "updated"
  BY <1>2 DEF BurstStart
<1>3. CASE events[n].type = "updated"
  <2>1. BurstStart(n) = Min(Starts)
    BY <1>3 DEF BurstStart
  <2>2. n \in Starts
    <3>1. n .. n - 1 = {} /\ n \in 1 .. n
      BY <1>1
    <3>. QED  BY <3>1
  <2>3. ASSUME NEW j \in Starts, j # n
        PROVE  FALSE
    <3>1. n - 1 \in j .. n - 1 /\ n > 1
      BY <1>1, <2>3
    <3>2. SameKind(n - 1)
      BY <2>3, <3>1
    <3>. QED  BY <1>3, <3>1, <3>2 DEF InBurst
  <2>4. Starts = {n}
    BY <2>2, <2>3
  <2>5. Min({n}) = n
    BY <1>1 DEF Min
  <2>. HIDE DEF Starts
  <2>. QED  BY <2>1, <2>4, <2>5
<1>. QED  BY <1>2, <1>3

LEMMA LastEditUndone ==
  ASSUME HistoryInv, LastEditInv, [HistoryNext]_historyVars,
         past.op = "edit", Undid, faults = 0
  PROVE  /\ undone' = <<Len(events)>>
         /\ InBurst(Len(events)) \/ ToSet(panels') = past.board
<1>1. /\ events \in Seq(EventSet) /\ panels \in Seq(Panels) /\ Types /\ EventsFit
      /\ events # <<>> /\ undone = <<>> /\ Distinct(panels)
  BY DEF HistoryInv, Types, LastEditInv, PanelIdsUnique, Distinct
<1>2. PICK n, e : n = Len(events) /\ e = events[n]
  OBVIOUS
<1>3. n \in DOMAIN events /\ n \in Nat /\ e \in EventSet /\ AboutOnePanel(e)
  BY <1>1, <1>2 DEF EventsFit
<1>4. /\ past.board = Others(panels, e.id) \cup ({e.before} \ {NoPanel})
  BY <1>2 DEF LastEditInv
<1>5. Max(Undoable) = n
  BY <1>2, LastEditUndoable
<1>6. ASSUME NEW next, NEW ev, NEW entries, NEW o, Undo(n, next, ev, entries, o)
      PROVE  panels' = next /\ undone' = <<n>>
  <2>1. o = "ok"
    BY <1>1, <1>6 DEF Undo, Undid
  <2>. QED  BY <1>1, <1>6, <2>1 DEF Undo, Commit
<1>7. e.before # NoPanel =>
        /\ e.before \in Panels /\ e.before.id = e.id
        /\ ToSet(Put(panels, e.before)) = past.board
  <2>1. SUFFICES ASSUME e.before # NoPanel
                 PROVE  /\ e.before \in Panels /\ e.before.id = e.id
                        /\ ToSet(Put(panels, e.before)) = past.board
    OBVIOUS
  <2>2. e.before \in Panels /\ e.before.id = e.id
    BY <1>3, <2>1 DEF EventSet, AboutOnePanel
  <2>3. PICK new : new = Put(panels, e.before)
    OBVIOUS
  <2>4. ToSet(new) = {p \in ToSet(panels) : p.id # e.before.id} \cup {e.before}
    BY <1>1, <2>2, <2>3, PutFacts
  <2>. QED  BY <1>4, <2>1, <2>2, <2>3, <2>4 DEF Others
<1>8. ASSUME NEW o \in Outcomes, UndoCreate(o)
      PROVE  undone' = <<n>> /\ ToSet(panels') = past.board
  <2>1. PICK next : next = Without(panels, e.id)
    OBVIOUS
  <2>2. /\ CanUndoCreate(e)
        /\ Undo(n, next, NoEvent, <<RedoEntry("recreate", e.after)>>, o)
    BY <1>2, <1>5, <1>8, <2>1 DEF UndoCreate
  <2>3. e.before = NoPanel /\ panels' = next /\ undone' = <<n>>
    BY <1>6, <2>2 DEF CanUndoCreate
  <2>4. ToSet(next) = {p \in ToSet(panels) : p.id # e.id}
    BY <1>1, <2>1, WithoutFacts
  <2>. QED  BY <1>4, <2>3, <2>4 DEF Others
<1>9. ASSUME NEW o \in Outcomes, UndoUpdate(o)
      PROVE  undone' = <<n>> /\ (InBurst(n) \/ ToSet(panels') = past.board)
  <2>1. PICK p, next, entries : /\ p = events[BurstStart(n)].before /\ next = Put(panels, p)
                                /\ entries = IF e.after = NoPanel THEN <<>>
                                             ELSE <<RedoEntry("restore", e.after)>>
    OBVIOUS
  <2>2. CanUndoUpdate(e) /\ Undo(n, next, Restored(p), entries, o)
    BY <1>2, <1>5, <1>9, <2>1 DEF UndoUpdate
  <2>3. e.before # NoPanel /\ panels' = next /\ undone' = <<n>>
    BY <1>6, <2>2 DEF CanUndoUpdate
  <2>4. ~InBurst(n) => p = e.before
    BY <1>1, <1>2, <2>1, NoBurst
  <2>. QED  BY <1>7, <2>1, <2>3, <2>4
<1>10. ASSUME NEW o \in Outcomes, UndoDelete(o)
       PROVE  undone' = <<n>> /\ ToSet(panels') = past.board
  <2>1. PICK next : next = Put(panels, e.before)
    OBVIOUS
  <2>2. /\ CanUndoDelete(e)
        /\ Undo(n, next, Restored(e.before), <<RedoEntry("delete", e.before)>>, o)
    BY <1>2, <1>5, <1>10, <2>1 DEF UndoDelete
  <2>3. e.before # NoPanel /\ panels' = next /\ undone' = <<n>>
    BY <1>6, <2>2 DEF CanUndoDelete
  <2>. QED  BY <1>7, <2>1, <2>3
<1>11. undone' # undone /\ undone' # <<>>
  BY DEF Undid
<1>12. \E o \in Outcomes : UndoLatest(o)
  <2>1. ~UNCHANGED historyVars /\ ~Restart
    BY <1>11 DEF historyVars, Restart
  <2>2. ASSUME NEW op, NEW next, NEW ev, NEW o, Edit(op, next, ev, o)
        PROVE  FALSE
    BY <1>11, <2>2 DEF Edit
  <2>3. ASSUME NEW next, NEW ev, NEW o, Redo(next, ev, o)
        PROVE  FALSE
    BY <1>11, <2>3 DEF Redo
  <2>4. ASSUME NEW o \in Outcomes, ClientEdit(o)
        PROVE  FALSE
    BY <2>2, <2>4 DEF ClientEdit, AddPanel, UpdatePanel, RemovePanel, PutSnapshot, MoveGroup
  <2>5. ASSUME NEW o \in Outcomes, RedoLatest(o)
        PROVE  FALSE
    BY <2>3, <2>5 DEF RedoLatest, RedoRecreate, RedoRestore, RedoDelete
  <2>. QED  BY <2>1, <2>4, <2>5 DEF HistoryNext
<1>. QED  BY <1>2, <1>8, <1>9, <1>10, <1>12 DEF UndoLatest

-----------------------------------------------------------------------------
(* The last undo. *)

(* What an undo that is saved has done.                                    *)
LEMMA UndoDone ==
  ASSUME HistoryInv, NEW next \in Seq(Panels), NEW ev, ev = NoEvent \/ Fits(ev),
         NEW o \in Outcomes, NEW i, NEW entries, Undo(i, next, ev, entries, o),
         past'.op = "undo", faults' = 0
  PROVE  /\ panels' = next /\ past'.board = ToSet(panels) /\ Distinct(panels)
         /\ Find(panels, events[i].id) = events[i].after \/ CanUndoCreate(events[i])
         /\ \A entry \in RedoSet : entries = <<entry>> =>
              redo' # <<>> /\ redo'[Len(redo')] = entry
<1>1. Commit(next, ev, o) /\ redo' = redo \o entries
  BY DEF Undo
<1>2. faults = 0 /\ panels' = next
  BY <1>1, CommitNext
<1>3. /\ past'.board = ToSet(panels)
      /\ Find(panels, events[i].id) = events[i].after \/ CanUndoCreate(events[i])
  BY DEF Undo, Nothing
<1>4. ASSUME NEW entry \in RedoSet, entries = <<entry>>
      PROVE  redo' # <<>> /\ redo'[Len(redo')] = entry
  <2>1. redo \in Seq(RedoSet)
    BY DEF HistoryInv, Types
  <2>2. PICK n, new : n = Len(redo) /\ new = Append(redo, entry)
    OBVIOUS
  <2>3. redo' = new
    BY <1>1, <1>4, <2>1, <2>2
  <2>4. n \in Nat /\ Len(new) = n + 1 /\ new[n + 1] = entry
    BY <2>1, <2>2, AppendFacts
  <2>. QED  BY <2>1, <2>2, <2>3, <2>4
<1>. QED  BY <1>2, <1>3, <1>4 DEF HistoryInv, PanelIdsUnique, Distinct

LEMMA UndoCreateRecords ==
  ASSUME HistoryInv, NEW o \in Outcomes, UndoCreate(o)
  PROVE  LastUndoInv'
<1>1. SUFFICES ASSUME past'.op = "undo", faults' = 0
               PROVE  LastUndoInv'
  BY DEF LastUndoInv
<1>2. Types /\ EventsFit /\ panels \in Seq(Panels)
  BY DEF HistoryInv, Types
<1>3. PICK i, e : i = Max(Undoable) /\ e = events[i]
  OBVIOUS
<1>4. i \in DOMAIN events /\ e \in EventSet
  BY <1>2, <1>3, LatestUndoable, EventAt DEF UndoCreate, Types
<1>5. PICK next, entry, c : /\ next = Without(panels, e.id) /\ c = Find(panels, e.id)
                            /\ entry = RedoEntry("recreate", e.after)
  OBVIOUS
<1>6. CanUndoCreate(e) /\ Undo(i, next, NoEvent, <<entry>>, o)
  BY <1>3, <1>5 DEF UndoCreate
<1>7. e.after \in Panels /\ e.after.id = e.id
  BY <1>2, <1>3, <1>4, <1>6 DEF CanUndoCreate, EventSet, EventsFit, AboutOnePanel
<1>8. entry \in RedoSet /\ entry.kind = "recreate" /\ entry.panel = e.after
  BY <1>5, <1>7 DEF RedoEntry, RedoSet
<1>9. c # NoPanel /\ SameButZ(c, e.after)
  BY <1>5, <1>6 DEF CanUndoCreate
<1>10. c \in Panels /\ c.id = e.id /\ c \in ToSet(panels)
  <2>1. panels \in Seq(Panels) /\ (c = Find(panels, e.id) \/ c = FindLast(panels, e.id)) /\ c # NoPanel
    BY <1>2, <1>5, <1>9
  <2>. QED  BY ONLY <2>1, FindFacts
<1>11. next \in Seq(Panels) /\ ToSet(next) = {p \in ToSet(panels) : p.id # e.id}
  BY <1>2, <1>5, WithoutFacts
<1>12. /\ panels' = next /\ past'.board = ToSet(panels) /\ Distinct(panels)
       /\ redo' # <<>> /\ redo'[Len(redo')] = entry
  BY <1>1, <1>6, <1>8, <1>11, UndoDone
<1>13. ToSet(panels) = Others(panels, e.id) \cup {c}
  <2>1. panels \in Seq(Panels) /\ Distinct(panels) /\ c = Find(panels, e.id) /\ c # NoPanel
    BY <1>2, <1>5, <1>9, <1>12
  <2>. QED  BY ONLY <2>1, BoardParts
<1>14. Others(next, e.id) = Others(panels, e.id)
  BY <1>11 DEF Others
<1>15. entry.kind # "delete" /\ c.id = entry.panel.id /\ SameButZ(c, entry.panel)
  BY <1>7, <1>8, <1>9, <1>10
<1>16. c \in past'.board /\ past'.board = Others(panels', c.id) \cup {c}
  BY <1>10, <1>12, <1>13, <1>14
<1>. QED  BY <1>10, <1>12, <1>15, <1>16 DEF LastUndoInv

LEMMA UndoUpdateRecords ==
  ASSUME HistoryInv, NEW o \in Outcomes, UndoUpdate(o)
  PROVE  LastUndoInv'
<1>1. SUFFICES ASSUME past'.op = "undo", faults' = 0
               PROVE  LastUndoInv'
  BY DEF LastUndoInv
<1>2. Types /\ EventsFit /\ panels \in Seq(Panels)
  BY DEF HistoryInv, Types
<1>3. PICK i, e, p : i = Max(Undoable) /\ e = events[i] /\ p = events[BurstStart(i)].before
  OBVIOUS
<1>4. i \in DOMAIN events /\ e \in EventSet
  BY <1>2, <1>3, LatestUndoable, EventAt DEF UndoUpdate, Types
<1>5. PICK next, entries, c : /\ next = Put(panels, p) /\ c = Find(panels, e.id)
                              /\ entries = IF e.after = NoPanel THEN <<>>
                                           ELSE <<RedoEntry("restore", e.after)>>
  OBVIOUS
<1>6. CanUndoUpdate(e) /\ Undo(i, next, Restored(p), entries, o)
  BY <1>3, <1>5 DEF UndoUpdate
<1>7. p \in Panels /\ p.id = e.id
  BY <1>2, <1>3, <1>4, <1>6, BurstBefore DEF CanUndoUpdate
<1>8. next \in Seq(Panels) /\ Fits(Restored(p))
  BY <1>2, <1>5, <1>7, PutFacts, EventFacts
<1>9. /\ panels' = next /\ past'.board = ToSet(panels) /\ Distinct(panels)
      /\ c = e.after \/ CanUndoCreate(e)
      /\ \A entry \in RedoSet : entries = <<entry>> =>
           redo' # <<>> /\ redo'[Len(redo')] = entry
  BY <1>1, <1>3, <1>5, <1>6, <1>8, UndoDone
<1>10. c # NoPanel /\ c = e.after
  BY <1>5, <1>6, <1>9 DEF CanUndoUpdate, CanUndoCreate
<1>11. c \in Panels /\ c.id = e.id /\ c \in ToSet(panels)
  <2>1. panels \in Seq(Panels) /\ (c = Find(panels, e.id) \/ c = FindLast(panels, e.id)) /\ c # NoPanel
    BY <1>2, <1>5, <1>10
  <2>. QED  BY ONLY <2>1, FindFacts
<1>12. PICK entry : entry = RedoEntry("restore", c)
  OBVIOUS
<1>13. entry \in RedoSet /\ entry.kind = "restore" /\ entry.panel = c /\ entries = <<entry>>
  BY <1>5, <1>10, <1>11, <1>12 DEF RedoEntry, RedoSet
<1>14. ToSet(panels) = Others(panels, e.id) \cup {c}
  <2>1. panels \in Seq(Panels) /\ Distinct(panels) /\ c = Find(panels, e.id) /\ c # NoPanel
    BY <1>2, <1>5, <1>9, <1>10
  <2>. QED  BY ONLY <2>1, BoardParts
<1>15. Others(next, e.id) = Others(panels, e.id)
  BY <1>2, <1>5, <1>7, OthersStay
<1>16. redo' # <<>> /\ redo'[Len(redo')] = entry
  BY <1>9, <1>13
<1>17. c \in past'.board /\ past'.board = Others(panels', c.id) \cup {c}
  BY <1>9, <1>11, <1>14, <1>15
<1>18. SameButZ(c, c) /\ entry.kind # "delete"
  BY <1>11, <1>13, SameButZFacts
<1>. QED  BY <1>11, <1>13, <1>16, <1>17, <1>18 DEF LastUndoInv

LEMMA UndoDeleteRecords ==
  ASSUME HistoryInv, NEW o \in Outcomes, UndoDelete(o)
  PROVE  LastUndoInv'
<1>1. SUFFICES ASSUME past'.op = "undo", faults' = 0
               PROVE  LastUndoInv'
  BY DEF LastUndoInv
<1>2. Types /\ EventsFit /\ panels \in Seq(Panels)
  BY DEF HistoryInv, Types
<1>3. PICK i, e : i = Max(Undoable) /\ e = events[i]
  OBVIOUS
<1>4. i \in DOMAIN events /\ e \in EventSet
  BY <1>2, <1>3, LatestUndoable, EventAt DEF UndoDelete, Types
<1>5. PICK next, p, entry :
        next = Put(panels, p) /\ p = e.before /\ entry = RedoEntry("delete", p)
  OBVIOUS
<1>6. CanUndoDelete(e) /\ Undo(i, next, Restored(p), <<entry>>, o)
  BY <1>3, <1>5 DEF UndoDelete
<1>7. p \in Panels /\ p.id = e.id /\ Find(panels, e.id) = NoPanel
  BY <1>2, <1>3, <1>4, <1>5, <1>6 DEF CanUndoDelete, EventSet, EventsFit, AboutOnePanel
<1>8. next \in Seq(Panels) /\ Fits(Restored(p))
  BY <1>2, <1>5, <1>7, PutFacts, EventFacts
<1>9. entry \in RedoSet /\ entry.kind = "delete" /\ entry.panel = p
  BY <1>5, <1>7 DEF RedoEntry, RedoSet
<1>10. /\ panels' = next /\ past'.board = ToSet(panels) /\ Distinct(panels)
       /\ redo' # <<>> /\ redo'[Len(redo')] = entry
  BY <1>1, <1>6, <1>8, <1>9, UndoDone
<1>11. ToSet(panels) = Others(panels, e.id)
  BY <1>2, <1>7, <1>10, BoardParts
<1>12. Others(next, e.id) = Others(panels, e.id)
  BY <1>2, <1>5, <1>7, OthersStay
<1>. QED  BY <1>7, <1>9, <1>10, <1>11, <1>12 DEF LastUndoInv

LEMMA LastUndoNext ==
  ASSUME HistoryInv, LastUndoInv, [HistoryNext]_historyVars
  PROVE  LastUndoInv'
<1>1. CASE UNCHANGED historyVars
  BY <1>1 DEF historyVars, LastUndoInv
<1>2. CASE past'.op # "undo"
  BY <1>2 DEF LastUndoInv
<1>3. ASSUME NEW o \in Outcomes, ClientEdit(o)
      PROVE  past'.op # "undo"
  <2>1. ASSUME NEW op, op \in {"none", "edit"}, NEW next, NEW ev, Edit(op, next, ev, o)
        PROVE  past'.op # "undo"
    BY <2>1 DEF Edit, Nothing
  <2>. QED
    BY <1>3, <2>1 DEF ClientEdit, AddPanel, UpdatePanel, RemovePanel, PutSnapshot, MoveGroup
<1>4. ASSUME NEW o \in Outcomes, RedoLatest(o)
      PROVE  past'.op # "undo"
  <2>1. ASSUME NEW next, NEW ev, Redo(next, ev, o)
        PROVE  past'.op # "undo"
    BY <2>1 DEF Redo, Nothing
  <2>. QED  BY <1>4, <2>1 DEF RedoLatest, RedoRecreate, RedoRestore, RedoDelete
<1>5. Restart => past'.op # "undo"
  BY DEF Restart, Nothing
<1>. QED
  BY <1>1, <1>2, <1>3, <1>4, <1>5, UndoCreateRecords, UndoUpdateRecords, UndoDeleteRecords
     DEF HistoryNext, UndoLatest

(* Two boards with the same panels, a zIndex apart.                        *)
SameBoards(a, b) == \A p \in a : \E q \in b : p.id = q.id /\ SameButZ(p, q)

LEMMA OneApart ==
  ASSUME NEW others \in SUBSET Panels, NEW p \in Panels, NEW q \in Panels,
         p.id = q.id, SameButZ(p, q)
  PROVE  /\ SameBoards(others \cup {p}, others \cup {q})
         /\ SameBoards(others \cup {q}, others \cup {p})
<1>1. SameButZ(q, p)
  BY SameButZFacts
<1>2. \A r \in others : r.id = r.id /\ SameButZ(r, r)
  BY SameButZFacts
<1>. QED  BY <1>1, <1>2 DEF SameBoards

LEMMA LastUndoRedone ==
  ASSUME HistoryInv, LastUndoInv, [HistoryNext]_historyVars,
         past.op = "undo", Redid, faults = 0
  PROVE  /\ SameBoards(past.board, ToSet(panels'))
         /\ SameBoards(ToSet(panels'), past.board)
<1>1. panels \in Seq(Panels) /\ redo \in Seq(RedoSet) /\ Distinct(panels) /\ redo # <<>>
  BY DEF HistoryInv, Types, LastUndoInv, PanelIdsUnique, Distinct
<1>2. PICK e, q : e = Last(redo) /\ q = e.panel
  OBVIOUS
<1>3. e = redo[Len(redo)]
  BY <1>2 DEF Last
<1>4. /\ e \in RedoSet /\ q \in Panels
      /\ e.kind = "recreate" => q.id \notin IdsOf(panels)
  BY <1>1, <1>2, TopEntry
<1>5. ASSUME NEW next, NEW ev, NEW o, Redo(next, ev, o)
      PROVE  panels' = next
  <2>1. o = "ok"
    BY <1>5 DEF Redo, Redid, Nothing
  <2>. QED  BY <1>5, <2>1 DEF Redo, Commit
<1>6. PICK others : others = Others(panels, q.id)
  OBVIOUS
<1>7. others \in SUBSET Panels
  BY <1>1, <1>6 DEF Others, ToSet
<1>8. e.kind = "delete" => past.board = others
  BY <1>2, <1>3, <1>6 DEF LastUndoInv
<1>9. ASSUME e.kind # "delete", NEW r \in Panels, r.id = q.id, SameButZ(q, r),
             ToSet(panels') = others \cup {r}
      PROVE  /\ SameBoards(past.board, ToSet(panels'))
             /\ SameBoards(ToSet(panels'), past.board)
  <2>1. PICK c \in Panels : c.id = q.id /\ SameButZ(c, q) /\ past.board = others \cup {c}
    BY <1>2, <1>3, <1>6, <1>9 DEF LastUndoInv
  <2>2. SameButZ(c, r) /\ c.id = r.id
    BY <1>4, <1>9, <2>1, SameButZFacts
  <2>. QED  BY <1>7, <1>9, <2>1, <2>2, OneApart
<1>10. PICK r : r = OnTop(panels, q)
  OBVIOUS
<1>11. r \in Panels /\ r.id = q.id /\ SameButZ(q, r) /\ SameButZ(q, q)
  BY <1>1, <1>4, <1>10, OnTopFacts, SameButZFacts
<1>12. q.id \notin IdsOf(panels) => ToSet(Append(panels, r)) = others \cup {r}
  <2>1. PICK new : new = Append(panels, r)
    OBVIOUS
  <2>2. ToSet(new) = ToSet(panels) \cup {r}
    BY <1>1, <1>11, <2>1, AppendPanel
  <2>3. q.id \notin IdsOf(panels) => ToSet(panels) = others
    BY <1>6 DEF Others, ToSet, IdsOf
  <2>. QED  BY <2>1, <2>2, <2>3
<1>13. ASSUME NEW o \in Outcomes, RedoRecreate(o)
       PROVE  /\ SameBoards(past.board, ToSet(panels'))
              /\ SameBoards(ToSet(panels'), past.board)
  <2>1. e.kind = "recreate" /\ Redo(Append(panels, r), Created(r), o)
    BY <1>2, <1>10, <1>13 DEF RedoRecreate
  <2>2. panels' = Append(panels, r)
    BY <1>5, <2>1
  <2>. QED  BY <1>4, <1>9, <1>11, <1>12, <2>1, <2>2
<1>14. ASSUME NEW o \in Outcomes, RedoRestore(o)
       PROVE  /\ SameBoards(past.board, ToSet(panels'))
              /\ SameBoards(ToSet(panels'), past.board)
  <2>1. PICK p : p = FindLast(panels, q.id)
    OBVIOUS
  <2>2. p = NoPanel <=> q.id \notin IdsOf(panels)
    <3>1. panels \in Seq(Panels) /\ (p = Find(panels, q.id) \/ p = FindLast(panels, q.id))
      BY <1>1, <2>1
    <3>. QED  BY ONLY <3>1, FindFacts
  <2>3. e.kind # "delete"
    BY <1>2, <1>14 DEF RedoRestore
  <2>4. CASE p # NoPanel
    <3>1. PICK next : next = Replace(panels, q)
      OBVIOUS
    <3>2. Redo(next, Updated(p, q), o)
      BY <1>2, <1>14, <2>1, <2>4, <3>1 DEF RedoRestore
    <3>3. ToSet(next) = {x \in ToSet(panels) : x.id # q.id} \cup {q}
      BY <1>1, <1>4, <2>2, <2>4, <3>1, ReplaceFacts
    <3>4. ToSet(panels') = others \cup {q}
      BY <1>5, <1>6, <3>2, <3>3 DEF Others
    <3>. QED  BY <1>4, <1>9, <1>11, <2>3, <3>4
  <2>5. CASE p = NoPanel
    <3>1. Redo(Append(panels, r), Created(r), o)
      BY <1>2, <1>10, <1>14, <2>1, <2>5 DEF RedoRestore
    <3>2. panels' = Append(panels, r)
      BY <1>5, <3>1
    <3>. QED  BY <1>9, <1>11, <1>12, <2>2, <2>3, <2>5, <3>2
  <2>. QED  BY <2>4, <2>5
<1>15. ASSUME NEW o \in Outcomes, RedoDelete(o)
       PROVE  /\ SameBoards(past.board, ToSet(panels'))
              /\ SameBoards(ToSet(panels'), past.board)
  <2>1. PICK next : next = Without(panels, q.id)
    OBVIOUS
  <2>2. e.kind = "delete" /\ panels' = next
    BY <1>2, <1>5, <1>15, <2>1 DEF RedoDelete
  <2>3. ToSet(next) = {x \in ToSet(panels) : x.id # q.id}
    BY <1>1, <2>1, WithoutFacts
  <2>4. ToSet(panels') = past.board
    BY <1>6, <1>8, <2>2, <2>3 DEF Others
  <2>5. \A x \in others : x.id = x.id /\ SameButZ(x, x)
    BY <1>7, SameButZFacts
  <2>. QED  BY <1>8, <2>2, <2>4, <2>5 DEF SameBoards
<1>16. \E o \in Outcomes : RedoLatest(o)
  <2>1. past' # past /\ past'.op = "redo"
    BY DEF Redid
  <2>2. ~UNCHANGED historyVars /\ ~Restart
    BY <2>1 DEF historyVars, Restart, Nothing
  <2>3. ASSUME NEW op, op \in {"none", "edit"}, NEW next, NEW ev, NEW o, Edit(op, next, ev, o)
        PROVE  FALSE
    BY <2>1, <2>3 DEF Edit, Nothing
  <2>4. ASSUME NEW i, NEW next, NEW ev, NEW entries, NEW o, Undo(i, next, ev, entries, o)
        PROVE  FALSE
    BY <2>1, <2>4 DEF Undo, Nothing
  <2>5. ASSUME NEW o \in Outcomes, ClientEdit(o)
        PROVE  FALSE
    BY <2>3, <2>5 DEF ClientEdit, AddPanel, UpdatePanel, RemovePanel, PutSnapshot, MoveGroup
  <2>6. ASSUME NEW o \in Outcomes, UndoLatest(o)
        PROVE  FALSE
    BY <2>4, <2>6 DEF UndoLatest, UndoCreate, UndoUpdate, UndoDelete
  <2>. QED  BY <2>2, <2>5, <2>6 DEF HistoryNext
<1>. QED  BY <1>13, <1>14, <1>15, <1>16 DEF RedoLatest

-----------------------------------------------------------------------------
LEMMA LastChangeHolds == HistorySpec => [](HistoryInv /\ LastEditInv /\ LastUndoInv)
<1>1. HistoryInit => LastEditInv /\ LastUndoInv
  BY DEF HistoryInit, LastEditInv, LastUndoInv, Nothing
<1>. QED
  BY <1>1, HistoryInvInit, HistoryInvNext, LastEditNext, LastUndoNext, PTL DEF HistorySpec

(* Whatever was undone and redone before it, an undo right after an edit   *)
(* takes back that edit and no other, and the board has the panels it had  *)
(* before, unless the edit may end a burst.                                *)
THEOREM UndoTakesBackLastEditHolds == HistorySpec => UndoTakesBackLastEdit
<1>1. HistoryInv /\ LastEditInv /\ [HistoryNext]_historyVars
        => [past.op = "edit" /\ Undid /\ faults = 0
              => /\ undone' = <<Len(events)>>
                 /\ InBurst(Len(events)) \/ ToSet(panels') = past.board]_historyVars
  BY LastEditUndone
<1>. QED  BY <1>1, LastChangeHolds, PTL DEF HistorySpec, UndoTakesBackLastEdit

(* Redo right after an undo brings back the board that the undo changed, a *)
(* whole burst at once, with at most another zIndex.                       *)
THEOREM RedoInvertsUndoHolds == HistorySpec => RedoInvertsUndo
<1>1. HistoryInv /\ LastUndoInv /\ [HistoryNext]_historyVars
        => [past.op = "undo" /\ Redid /\ faults = 0
              => LET SameBoard(a, b) == \A p \in a : \E q \in b :
                                           p.id = q.id /\ SameButZ(p, q)
                 IN  SameBoard(past.board, ToSet(panels'))
                     /\ SameBoard(ToSet(panels'), past.board)]_historyVars
  BY LastUndoRedone DEF SameBoards
<1>. QED  BY <1>1, LastChangeHolds, PTL DEF HistorySpec, RedoInvertsUndo

=============================================================================

---------------------------- MODULE Lists_proofs ----------------------------
(***************************************************************************)
(* Facts about lists: FlattenSeq of the community modules, and Sublist.    *)
(* Both compute by recursion; the proofs take a least counterexample.      *)
(***************************************************************************)
EXTENDS Lists, TLAPS, WellFoundedInduction

(* A set of natural numbers that is not empty has a least element.         *)
LEMMA LeastNat ==
  ASSUME NEW T \in SUBSET Nat, T # {}
  PROVE  \E x \in T : \A y \in T : x <= y
<1>1. IsWellFoundedOn(OpToRel(<, Nat), Nat)
  BY NatLessThanWellFounded
<1>2. PICK x \in T : \A y \in T : ~(<<y, x>> \in OpToRel(<, Nat))
  BY <1>1, WFMin
<1>3. \A y \in T : ~(y < x)
  BY <1>2 DEF OpToRel
<1>. QED  BY <1>3

-----------------------------------------------------------------------------
(* Concatenation.                                                          *)

LEMMA ConcatFacts ==
  ASSUME NEW S, NEW a \in Seq(S), NEW b \in Seq(S)
  PROVE  /\ a \o b \in Seq(S)
         /\ Len(a \o b) = Len(a) + Len(b)
         /\ \A i \in 1 .. Len(a) : (a \o b)[i] = a[i]
         /\ \A i \in 1 .. Len(b) : (a \o b)[Len(a) + i] = b[i]
  OBVIOUS

LEMMA AppendFacts ==
  ASSUME NEW S, NEW a \in Seq(S), NEW x \in S
  PROVE  /\ Append(a, x) \in Seq(S)
         /\ Len(Append(a, x)) = Len(a) + 1 /\ Len(a) \in Nat
         /\ \A i \in 1 .. Len(a) : Append(a, x)[i] = a[i]
         /\ Append(a, x)[Len(a) + 1] = x
  OBVIOUS

LEMMA TailFacts ==
  ASSUME NEW S, NEW a \in Seq(S), a # <<>>
  PROVE  /\ Tail(a) \in Seq(S) /\ Head(a) \in S /\ Head(a) = a[1]
         /\ Len(a) = Len(Tail(a)) + 1 /\ Len(Tail(a)) \in Nat
         /\ \A i \in 1 .. Len(Tail(a)) : Tail(a)[i] = a[i + 1] /\ a[i + 1] \in S
  OBVIOUS

LEMMA SeqGrow ==
  ASSUME NEW S, NEW T, S \subseteq T, NEW a \in Seq(S)
  PROVE  a \in Seq(T)
  OBVIOUS

LEMMA SameSeq ==
  ASSUME NEW S, NEW a \in Seq(S), NEW b \in Seq(S), Len(a) = Len(b),
         \A i \in 1 .. Len(a) : a[i] = b[i]
  PROVE  a = b
  OBVIOUS

LEMMA ConcatAssoc ==
  ASSUME NEW S, NEW a \in Seq(S), NEW b \in Seq(S), NEW c \in Seq(S)
  PROVE  (a \o b) \o c = a \o (b \o c)
  OBVIOUS

-----------------------------------------------------------------------------
(* FlattenSeq.                                                             *)

(* The function FlattenSeq defines by recursion.                           *)
Flattens(q, f) ==
  f = [i \in 1 .. Len(q) |-> IF i = 1 THEN q[i] ELSE f[i - 1] \o q[i]]

LEMMA FlattensAt ==
  ASSUME NEW q, NEW f, Flattens(q, f), NEW i \in 1 .. Len(q)
  PROVE  f[i] = IF i = 1 THEN q[i] ELSE f[i - 1] \o q[i]
<1>. DEFINE F(k) == IF k = 1 THEN q[k] ELSE f[k - 1] \o q[k]
<1>1. f = [k \in 1 .. Len(q) |-> F(k)]
  BY DEF Flattens
<1>. HIDE DEF F
<1>2. f[i] = F(i)
  BY <1>1
<1>. QED  BY <1>2 DEF F

LEMMA FlattensExists ==
  ASSUME NEW S, NEW q \in Seq(Seq(S))
  PROVE  \E f : Flattens(q, f)
<1>. DEFINE Bad == {n \in Nat : \E p \in Seq(Seq(S)) : Len(p) = n /\ ~ \E f : Flattens(p, f)}
<1>. SUFFICES ASSUME Bad # {} PROVE FALSE
  OBVIOUS
<1>1. PICK n \in Bad : \A m \in Bad : n <= m
  BY LeastNat
<1>2. PICK p \in Seq(Seq(S)) : Len(p) = n /\ ~ \E f : Flattens(p, f)
  OBVIOUS
<1>3. CASE n = 0
  <2>. DEFINE g == [i \in 1 .. Len(p) |-> <<>>]
  <2>1. Flattens(p, g)
    BY <1>2, <1>3 DEF Flattens
  <2>. QED  BY <1>2, <2>1
<1>4. CASE n > 0
  <2>. DEFINE b == SubSeq(p, 1, n - 1)
  <2>1. b \in Seq(Seq(S)) /\ Len(b) = n - 1 /\ n - 1 \in Nat
    BY <1>2, <1>4
  <2>2. n - 1 \notin Bad
    BY <1>1, <1>4
  <2>3. PICK f : Flattens(b, f)
    BY <2>1, <2>2
  <2>. DEFINE g == [i \in 1 .. n |-> IF i < n THEN f[i]
                                     ELSE IF n = 1 THEN p[n] ELSE f[n - 1] \o p[n]]
  <2>4. ASSUME NEW i \in 1 .. n
        PROVE  g[i] = IF i = 1 THEN p[i] ELSE g[i - 1] \o p[i]
    <3>1. CASE i < n
      <4>1. f[i] = IF i = 1 THEN b[i] ELSE f[i - 1] \o b[i]
        <5>1. i \in 1 .. Len(b)
          BY <2>1, <3>1, <1>2
        <5>. QED  BY <2>3, <5>1, FlattensAt
      <4>2. b[i] = p[i]
        BY <1>2, <3>1
      <4>. QED  BY <3>1, <4>1, <4>2
    <3>2. CASE i = n
      BY <3>2
    <3>. QED  BY <3>1, <3>2
  <2>5. Flattens(p, g)
    BY <1>2, <2>4 DEF Flattens
  <2>. QED  BY <1>2, <2>5
<1>. QED  BY <1>3, <1>4

LEMMA FlattensUnique ==
  ASSUME NEW q, NEW p, NEW f, NEW g, Flattens(q, f), Flattens(p, g),
         Len(q) \in Nat, Len(p) \in Nat, Len(q) <= Len(p),
         \A i \in 1 .. Len(q) : p[i] = q[i]
  PROVE  \A i \in 1 .. Len(q) : f[i] = g[i]
<1>. DEFINE Bad == {i \in 1 .. Len(q) : f[i] # g[i]}
<1>. SUFFICES ASSUME Bad # {} PROVE FALSE
  OBVIOUS
<1>1. PICK i \in Bad : \A j \in Bad : i <= j
  <2>1. Bad \in SUBSET Nat
    OBVIOUS
  <2>. HIDE DEF Bad
  <2>. QED  BY <2>1, LeastNat
<1>2. /\ f[i] = IF i = 1 THEN q[i] ELSE f[i - 1] \o q[i]
      /\ g[i] = IF i = 1 THEN p[i] ELSE g[i - 1] \o p[i]
  BY FlattensAt
<1>3. i # 1 => f[i - 1] = g[i - 1]
  BY <1>1
<1>. QED  BY <1>2, <1>3

LEMMA FlattenIs ==
  ASSUME NEW S, NEW q \in Seq(Seq(S)), NEW f, Flattens(q, f), q # <<>>
  PROVE  FlattenSeq(q) = f[Len(q)]
<1>. DEFINE c == CHOOSE g : Flattens(q, g)
<1>1. Flattens(q, c)
  OBVIOUS
<1>2. FlattenSeq(q) = c[Len(q)]
  BY DEF FlattenSeq, Flattens
<1>. QED  BY <1>1, <1>2, FlattensUnique

LEMMA FlattensType ==
  ASSUME NEW S, NEW q \in Seq(Seq(S)), NEW f, Flattens(q, f)
  PROVE  \A i \in 1 .. Len(q) : f[i] \in Seq(S)
<1>. DEFINE Bad == {i \in 1 .. Len(q) : f[i] \notin Seq(S)}
<1>. SUFFICES ASSUME Bad # {} PROVE FALSE
  OBVIOUS
<1>1. PICK i \in Bad : \A j \in Bad : i <= j
  <2>1. Bad \in SUBSET Nat
    OBVIOUS
  <2>. HIDE DEF Bad
  <2>. QED  BY <2>1, LeastNat
<1>2. f[i] = IF i = 1 THEN q[i] ELSE f[i - 1] \o q[i]
  BY FlattensAt
<1>3. q[i] \in Seq(S)
  OBVIOUS
<1>4. CASE i = 1
  BY <1>2, <1>3, <1>4
<1>5. CASE i # 1
  <2>1. f[i - 1] \in Seq(S)
    BY <1>1, <1>5
  <2>2. f[i - 1] \o q[i] \in Seq(S)
    BY <1>3, <2>1, ConcatFacts
  <2>. QED  BY <1>2, <1>5, <2>2
<1>. QED  BY <1>4, <1>5

(* The facts about FlattenSeq that the proofs use.                         *)
LEMMA FlattenEmpty == FlattenSeq(<<>>) = <<>>
  BY DEF FlattenSeq

LEMMA FlattenType ==
  ASSUME NEW S, NEW q \in Seq(Seq(S))
  PROVE  FlattenSeq(q) \in Seq(S)
<1>1. CASE q = <<>>
  <2>1. <<>> \in Seq(S)
    OBVIOUS
  <2>. QED  BY <1>1, <2>1, FlattenEmpty
<1>2. CASE q # <<>>
  <2>1. PICK f : Flattens(q, f)
    BY FlattensExists
  <2>2. f[Len(q)] \in Seq(S)
    <3>1. Len(q) \in 1 .. Len(q)
      BY <1>2
    <3>. QED  BY <2>1, <3>1, FlattensType
  <2>3. FlattenSeq(q) = f[Len(q)]
    BY <1>2, <2>1, FlattenIs
  <2>. QED  BY <2>2, <2>3
<1>. QED  BY <1>1, <1>2

LEMMA FlattenAppend ==
  ASSUME NEW S, NEW q \in Seq(Seq(S)), NEW x \in Seq(S)
  PROVE  FlattenSeq(Append(q, x)) = FlattenSeq(q) \o x
<1>1. PICK p : p = Append(q, x)
  OBVIOUS
<1>2. /\ p \in Seq(Seq(S)) /\ Len(p) = Len(q) + 1 /\ Len(q) \in Nat
      /\ p[Len(p)] = x /\ \A i \in 1 .. Len(q) : p[i] = q[i]
  BY <1>1, AppendFacts
<1>3. PICK g : Flattens(p, g)
  BY <1>2, FlattensExists
<1>4. FlattenSeq(p) = g[Len(p)]
  BY <1>2, <1>3, FlattenIs
<1>5. g[Len(p)] = IF Len(p) = 1 THEN x ELSE g[Len(p) - 1] \o x
  <2>1. Len(p) \in 1 .. Len(p)
    BY <1>2
  <2>. QED  BY <1>2, <1>3, <2>1, FlattensAt
<1>6. CASE q = <<>>
  BY <1>1, <1>2, <1>4, <1>5, <1>6, FlattenEmpty
<1>7. CASE q # <<>>
  <2>1. PICK f : Flattens(q, f)
    BY FlattensExists
  <2>2. FlattenSeq(q) = f[Len(q)]
    BY <1>7, <2>1, FlattenIs
  <2>3. \A i \in 1 .. Len(q) : f[i] = g[i]
    <3>1. Len(q) \in Nat
      BY <1>2
    <3>2. Len(p) \in Nat
      BY <1>2
    <3>3. Len(q) <= Len(p)
      BY <1>2
    <3>4. \A i \in 1 .. Len(q) : p[i] = q[i]
      BY <1>2
    <3>. QED  BY <1>3, <2>1, <3>1, <3>2, <3>3, <3>4, FlattensUnique
  <2>4. Len(q) \in 1 .. Len(q) /\ Len(p) # 1 /\ Len(p) - 1 = Len(q)
    BY <1>2, <1>7
  <2>. QED  BY <1>1, <1>4, <1>5, <2>2, <2>3, <2>4
<1>. QED  BY <1>6, <1>7

LEMMA FlattenOne ==
  ASSUME NEW S, NEW x \in Seq(S)
  PROVE  FlattenSeq(<<x>>) = x
<1>1. Append(<<>>, x) = <<x>> /\ <<>> \in Seq(Seq(S)) /\ <<>> \o x = x
  OBVIOUS
<1>. QED  BY <1>1, FlattenAppend, FlattenEmpty

LEMMA FlattenCons ==
  ASSUME NEW S, NEW q \in Seq(Seq(S)), q # <<>>
  PROVE  FlattenSeq(q) = Head(q) \o FlattenSeq(Tail(q))
<1>1. PICK t : t = Tail(q)
  OBVIOUS
<1>2. /\ t \in Seq(Seq(S)) /\ Head(q) = q[1] /\ q[1] \in Seq(S)
      /\ Len(q) = Len(t) + 1 /\ Len(t) \in Nat
  BY <1>1, TailFacts
<1>3. \A i \in 1 .. Len(t) : t[i] = q[i + 1] /\ t[i] \in Seq(S)
  BY <1>1, TailFacts
<1>4. PICK f : Flattens(q, f)
  BY FlattensExists
<1>5. PICK h : Flattens(t, h)
  BY <1>2, FlattensExists
<1>6. f[1] = q[1]
  BY <1>2, <1>4, FlattensAt
<1>7. FlattenSeq(q) = f[Len(q)]
  BY <1>4, FlattenIs
<1>8. CASE t = <<>>
  <2>1. Len(q) = 1 /\ q[1] \o <<>> = q[1]
    BY <1>2, <1>8
  <2>. QED  BY <1>1, <1>2, <1>6, <1>7, <1>8, <2>1, FlattenEmpty
<1>9. CASE t # <<>>
  <2>. DEFINE Bad == {i \in 1 .. Len(t) : f[i + 1] # q[1] \o h[i]}
  <2>1. ASSUME Bad # {} PROVE FALSE
    <3>1. PICK i \in Bad : \A j \in Bad : i <= j
      <4>1. Bad \subseteq 1 .. Len(t)
        BY Zenon
      <4>2. 1 .. Len(t) \subseteq Nat
        OBVIOUS
      <4>. HIDE DEF Bad
      <4>. QED  BY <2>1, <4>1, <4>2, LeastNat
    <3>2. i \in 1 .. Len(t) /\ i + 1 \in 1 .. Len(q) /\ i + 1 # 1 /\ i + 1 - 1 = i
      BY <1>2
    <3>3. f[i + 1] = f[i] \o t[i]
      <4>1. PICK k : k = i + 1
        OBVIOUS
      <4>2. k \in 1 .. Len(q) /\ k # 1 /\ k - 1 = i
        BY <3>2, <4>1
      <4>3. f[k] = IF k = 1 THEN q[k] ELSE f[k - 1] \o q[k]
        BY <1>4, <4>2, FlattensAt
      <4>4. q[k] = t[i]
        BY <1>3, <3>2, <4>1
      <4>. QED  BY <4>1, <4>2, <4>3, <4>4
    <3>4. h[i] = IF i = 1 THEN t[i] ELSE h[i - 1] \o t[i]
      BY <1>5, <3>2, FlattensAt
    <3>5. CASE i = 1
      BY <1>6, <3>1, <3>3, <3>4, <3>5
    <3>6. CASE i # 1
      <4>1. i - 1 \in 1 .. Len(t) /\ i - 1 + 1 = i
        BY <1>2, <3>2, <3>6
      <4>2. i - 1 \notin Bad
        <5>1. i \in Int
          BY <3>2
        <5>. HIDE DEF Bad
        <5>. QED  BY <3>1, <5>1
      <4>5. f[i] = q[1] \o h[i - 1]
        BY <4>1, <4>2
      <4>3. h[i - 1] \in Seq(S) /\ t[i] \in Seq(S)
        BY <1>2, <1>3, <1>5, <3>2, <4>1, FlattensType
      <4>4. (q[1] \o h[i - 1]) \o t[i] = q[1] \o (h[i - 1] \o t[i])
        <5>1. q[1] \in Seq(S)
          BY <1>2
        <5>2. h[i - 1] \in Seq(S)
          BY <4>3
        <5>3. t[i] \in Seq(S)
          BY <4>3
        <5>4. PICK x, y, z : x = q[1] /\ y = h[i - 1] /\ z = t[i]
          OBVIOUS
        <5>5. x \in Seq(S) /\ y \in Seq(S) /\ z \in Seq(S)
          BY <5>1, <5>2, <5>3, <5>4
        <5>. HIDE DEF Bad
        <5>6. (x \o y) \o z = x \o (y \o z)
          BY <5>5, ConcatAssoc
        <5>. QED  BY <5>4, <5>6
      <4>. QED  BY <3>1, <3>3, <3>4, <3>6, <4>4, <4>5
    <3>. QED  BY <3>5, <3>6
  <2>2. Len(t) \in 1 .. Len(t)
    BY <1>2, <1>9
  <2>3. f[Len(t) + 1] = q[1] \o h[Len(t)]
    BY <2>1, <2>2
  <2>4. FlattenSeq(t) = h[Len(t)]
    BY <1>2, <1>5, <1>9, FlattenIs
  <2>. QED  BY <1>1, <1>2, <1>7, <2>3, <2>4
<1>. QED  BY <1>8, <1>9

-----------------------------------------------------------------------------
(* Sublist.                                                                *)

LEMMA SublistType ==
  ASSUME NEW S, NEW list \in Seq(S), NEW places
  PROVE  Sublist(list, places) \in Seq(S)
<1>. DEFINE q == [n \in 1 .. Len(list) |-> IF n \in places THEN <<list[n]>> ELSE <<>>]
<1>1. q \in Seq(Seq(S))
  OBVIOUS
<1>. QED  BY <1>1, FlattenType DEF Sublist

LEMMA SublistAppend ==
  ASSUME NEW S, NEW list \in Seq(S), NEW x \in S, NEW places
  PROVE  Sublist(Append(list, x), places)
           = Sublist(list, places) \o
               (IF Len(list) + 1 \in places THEN <<x>> ELSE <<>>)
<1>1. PICK l : l = Append(list, x)
  OBVIOUS
<1>2. /\ l \in Seq(S) /\ Len(l) = Len(list) + 1 /\ Len(list) \in Nat
      /\ l[Len(list) + 1] = x
  BY <1>1, AppendFacts
<1>3. \A n \in 1 .. Len(list) : l[n] = list[n]
  BY <1>1, AppendFacts
<1>4. PICK q : q = [n \in 1 .. Len(list) |-> IF n \in places THEN <<list[n]>> ELSE <<>>]
  OBVIOUS
<1>5. PICK p : p = [n \in 1 .. Len(l) |-> IF n \in places THEN <<l[n]>> ELSE <<>>]
  OBVIOUS
<1>6. PICK y : y = IF Len(list) + 1 \in places THEN <<x>> ELSE <<>>
  OBVIOUS
<1>7. q \in Seq(Seq(S)) /\ Len(q) = Len(list) /\ y \in Seq(S)
  BY <1>4, <1>6
<1>8. p \in Seq(Seq(S)) /\ Len(p) = Len(list) + 1
  BY <1>2, <1>5
<1>9. p = Append(q, y)
  <2>1. /\ Append(q, y) \in Seq(Seq(S)) /\ Len(Append(q, y)) = Len(list) + 1
        /\ Append(q, y)[Len(list) + 1] = y
        /\ \A i \in 1 .. Len(list) : Append(q, y)[i] = q[i]
    BY <1>7, AppendFacts
  <2>2. p[Len(list) + 1] = y
    BY <1>2, <1>5, <1>6
  <2>3. \A i \in 1 .. Len(list) : p[i] = q[i]
    BY <1>2, <1>3, <1>4, <1>5
  <2>4. \A i \in 1 .. Len(list) + 1 : p[i] = Append(q, y)[i]
    BY <1>2, <2>1, <2>2, <2>3
  <2>5. PICK r : r = Append(q, y)
    OBVIOUS
  <2>. QED  BY <1>8, <2>1, <2>4, <2>5, SameSeq
<1>. QED  BY <1>1, <1>4, <1>5, <1>6, <1>7, <1>9, FlattenAppend DEF Sublist

(* e names the places of list that part shows, in their order.             *)
Shows(list, places, part, e) ==
  /\ e \in [1 .. Len(part) -> (DOMAIN list) \cap places]
  /\ \A i, j \in 1 .. Len(part) : i < j => e[i] < e[j]
  /\ \A n \in (DOMAIN list) \cap places : \E i \in 1 .. Len(part) : e[i] = n
  /\ \A i \in 1 .. Len(part) : part[i] = list[e[i]]

(* An element more, at a place that is shown or not.                       *)
LEMMA ShowsMore ==
  ASSUME NEW S, NEW list \in Seq(S), NEW x \in S, NEW places,
         NEW part \in Seq(S), NEW e, Shows(list, places, part, e),
         Len(list) + 1 \in places
  PROVE  \E g : Shows(Append(list, x), places, Append(part, x), g)
<1>1. PICK n : n = Len(list)
  OBVIOUS
<1>2. PICK m : m = Len(part)
  OBVIOUS
<1>3. n \in Nat /\ m \in Nat /\ DOMAIN list = 1 .. n /\ n + 1 \in places
  BY <1>1, <1>2
<1>4. /\ e \in [1 .. m -> (1 .. n) \cap places]
      /\ \A i, j \in 1 .. m : i < j => e[i] < e[j]
      /\ \A k \in (1 .. n) \cap places : \E i \in 1 .. m : e[i] = k
      /\ \A i \in 1 .. m : part[i] = list[e[i]]
  BY <1>2, <1>3 DEF Shows
<1>5. PICK l : l = Append(list, x)
  OBVIOUS
<1>6. PICK p : p = Append(part, x)
  OBVIOUS
<1>7. Len(l) = n + 1 /\ l[n + 1] = x /\ DOMAIN l = 1 .. n + 1
  BY <1>1, <1>3, <1>5
<1>8. \A i \in 1 .. n : l[i] = list[i]
  BY <1>1, <1>5
<1>9. Len(p) = m + 1 /\ p[m + 1] = x
  BY <1>2, <1>3, <1>6
<1>10. \A i \in 1 .. m : p[i] = part[i]
  BY <1>2, <1>6
<1>11. PICK g : g = [i \in 1 .. m + 1 |-> IF i <= m THEN e[i] ELSE n + 1]
  OBVIOUS
<1>12. g[m + 1] = n + 1
  BY <1>3, <1>11
<1>13. ASSUME NEW i \in 1 .. m
       PROVE  g[i] = e[i] /\ e[i] \in 1 .. n /\ e[i] \in places
  BY <1>3, <1>4, <1>11
<1>14. \A i \in 1 .. m + 1 : i = m + 1 \/ i \in 1 .. m
  BY <1>3
<1>15. g \in [1 .. m + 1 -> (1 .. n + 1) \cap places]
  <2>1. \A i \in 1 .. m + 1 : g[i] \in (1 .. n + 1) \cap places
    BY <1>3, <1>12, <1>13, <1>14
  <2>. QED  BY <1>11, <2>1
<1>16. ASSUME NEW i \in 1 .. m + 1, NEW j \in 1 .. m + 1, i < j
       PROVE  g[i] < g[j]
  <2>1. i \in 1 .. m
    BY <1>3, <1>16
  <2>2. CASE j = m + 1
    BY <1>3, <1>12, <1>13, <2>1, <2>2
  <2>3. CASE j \in 1 .. m
    BY <1>4, <1>13, <1>16, <2>1, <2>3
  <2>. QED  BY <1>14, <2>2, <2>3
<1>17. ASSUME NEW k \in (1 .. n + 1) \cap places
       PROVE  \E i \in 1 .. m + 1 : g[i] = k
  <2>1. CASE k = n + 1
    <3>1. m + 1 \in 1 .. m + 1
      BY <1>3
    <3>. QED  BY <1>12, <2>1, <3>1
  <2>2. CASE k # n + 1
    <3>1. k \in (1 .. n) \cap places
      BY <1>3, <2>2
    <3>2. PICK i \in 1 .. m : e[i] = k
      BY <1>4, <3>1
    <3>3. i \in 1 .. m + 1
      BY <1>3
    <3>. QED  BY <1>13, <3>2, <3>3
  <2>. QED  BY <2>1, <2>2
<1>18. ASSUME NEW i \in 1 .. m + 1
       PROVE  p[i] = l[g[i]]
  <2>1. CASE i = m + 1
    BY <1>7, <1>9, <1>12, <2>1
  <2>2. CASE i \in 1 .. m
    BY <1>4, <1>8, <1>10, <1>13, <2>2
  <2>. QED  BY <1>14, <2>1, <2>2
<1>19. Shows(l, places, p, g)
  BY <1>7, <1>9, <1>15, <1>16, <1>17, <1>18 DEF Shows
<1>. QED  BY <1>5, <1>6, <1>19

(* A place more that is not shown.                                         *)
LEMMA ShowsSame ==
  ASSUME NEW S, NEW list \in Seq(S), NEW x \in S, NEW places,
         NEW part \in Seq(S), NEW e, Shows(list, places, part, e),
         Len(list) + 1 \notin places
  PROVE  Shows(Append(list, x), places, part, e)
<1>1. PICK l : l = Append(list, x)
  OBVIOUS
<1>2. (DOMAIN l) \cap places = (DOMAIN list) \cap places
  BY <1>1
<1>3. \A i \in DOMAIN list : l[i] = list[i]
  BY <1>1
<1>4. \A i \in 1 .. Len(part) : e[i] \in DOMAIN list
  BY DEF Shows
<1>. QED  BY <1>1, <1>2, <1>3, <1>4 DEF Shows

LEMMA SublistShows ==
  ASSUME NEW S, NEW list \in Seq(S), NEW places
  PROVE  \E e : Shows(list, places, Sublist(list, places), e)
<1>. DEFINE Bad == {n \in Nat : \E l \in Seq(S) :
                     Len(l) = n /\ ~ \E e : Shows(l, places, Sublist(l, places), e)}
<1>. SUFFICES ASSUME Bad # {} PROVE FALSE
  OBVIOUS
<1>1. PICK n \in Bad : \A m \in Bad : n <= m
  BY LeastNat
<1>2. PICK l \in Seq(S) :
        Len(l) = n /\ ~ \E e : Shows(l, places, Sublist(l, places), e)
  OBVIOUS
<1>3. CASE l = <<>>
  <2>1. Sublist(l, places) = <<>>
    BY <1>3, FlattenEmpty DEF Sublist
  <2>2. Shows(l, places, <<>>, <<>>)
    BY <1>3 DEF Shows
  <2>. QED  BY <1>2, <2>1, <2>2
<1>4. CASE l # <<>>
  <2>1. PICK b \in Seq(S), x \in S : l = Append(b, x) /\ Len(b) = n - 1 /\ n - 1 \in Nat
    <3>. WITNESS SubSeq(l, 1, n - 1) \in Seq(S), l[n] \in S
    <3>. QED  BY <1>2, <1>4
  <2>2. n - 1 \notin Bad
    BY <1>1, <2>1
  <2>3. PICK k : k = Sublist(b, places)
    OBVIOUS
  <2>4. PICK e : Shows(b, places, k, e)
    BY <2>1, <2>2, <2>3
  <2>5. k \in Seq(S)
    BY <2>3, SublistType
  <2>6. n = Len(b) + 1
    BY <2>1
  <2>. HIDE DEF Bad
  <2>7. CASE n \notin places
    <3>1. k \o <<>> = k
      BY <2>5
    <3>3. Sublist(l, places) = k \o <<>>
      BY <2>1, <2>3, <2>6, <2>7, SublistAppend
    <3>2. Shows(l, places, k, e)
      BY <2>1, <2>4, <2>5, <2>6, <2>7, ShowsSame
    <3>. QED  BY <1>2, <3>1, <3>2, <3>3
  <2>8. CASE n \in places
    <3>1. k \o <<x>> = Append(k, x)
      BY <2>5
    <3>2. Sublist(l, places) = Append(k, x)
      BY <2>1, <2>3, <2>6, <2>8, <3>1, SublistAppend
    <3>3. \E g : Shows(l, places, Append(k, x), g)
      BY <2>1, <2>4, <2>5, <2>6, <2>8, ShowsMore
    <3>. QED  BY <1>2, <3>2, <3>3
  <2>. QED  BY <2>7, <2>8
<1>. QED  BY <1>3, <1>4

LEMMA SublistElements ==
  ASSUME NEW S, NEW list \in Seq(S), NEW places
  PROVE  ToSet(Sublist(list, places)) = {list[n] : n \in (DOMAIN list) \cap places}
<1>1. PICK part : part = Sublist(list, places)
  OBVIOUS
<1>2. PICK e : Shows(list, places, part, e)
  BY <1>1, SublistShows
<1>3. part \in Seq(S)
  BY <1>1, SublistType
<1>4. ASSUME NEW u \in ToSet(part)
      PROVE  u \in {list[n] : n \in (DOMAIN list) \cap places}
  BY <1>2, <1>3 DEF Shows, ToSet
<1>5. ASSUME NEW n \in (DOMAIN list) \cap places
      PROVE  list[n] \in ToSet(part)
  <2>1. PICK i \in 1 .. Len(part) : e[i] = n
    BY <1>2 DEF Shows
  <2>2. part[i] = list[n] /\ i \in DOMAIN part
    BY <1>2, <1>3, <2>1 DEF Shows
  <2>. QED  BY <2>2 DEF ToSet
<1>. QED  BY <1>1, <1>4, <1>5

LEMMA SublistLen ==
  ASSUME NEW S, NEW list \in Seq(S), NEW places
  PROVE  Len(Sublist(list, places)) <= Len(list)
<1>1. PICK part : part = Sublist(list, places)
  OBVIOUS
<1>2. PICK e : Shows(list, places, part, e)
  BY <1>1, SublistShows
<1>3. part \in Seq(S)
  BY <1>1, SublistType
<1>. DEFINE Bad == {i \in 1 .. Len(part) : e[i] < i}
<1>4. ASSUME Bad # {} PROVE FALSE
  <2>1. PICK i \in Bad : \A j \in Bad : i <= j
    <3>1. Bad \in SUBSET Nat
      OBVIOUS
    <3>. HIDE DEF Bad
    <3>. QED  BY <1>4, <3>1, LeastNat
  <2>2. e[i] \in Nat \ {0}
    BY <1>2 DEF Shows
  <2>3. i - 1 \in 1 .. Len(part) /\ i - 1 < i
    BY <2>2
  <2>4. e[i - 1] < e[i] /\ e[i - 1] \in Nat
    BY <1>2, <2>3 DEF Shows
  <2>5. i - 1 \notin Bad
    BY <2>1, <2>3
  <2>. QED  BY <2>2, <2>3, <2>4, <2>5
<1>5. CASE part # <<>>
  <2>1. Len(part) \in 1 .. Len(part)
    BY <1>3, <1>5
  <2>2. e[Len(part)] >= Len(part) /\ e[Len(part)] \in 1 .. Len(list)
    BY <1>2, <1>4, <2>1 DEF Shows
  <2>. QED  BY <1>1, <1>3, <2>2
<1>6. CASE part = <<>>
  BY <1>1, <1>6
<1>. QED  BY <1>5, <1>6

-----------------------------------------------------------------------------
(* Elements.                                                               *)

LEMMA ToSetFacts ==
  ASSUME NEW S, NEW a \in Seq(S)
  PROVE  /\ ToSet(a) \subseteq S
         /\ \A i \in 1 .. Len(a) : a[i] \in ToSet(a)
         /\ \A u \in ToSet(a) : \E i \in 1 .. Len(a) : a[i] = u
  BY DEF ToSet

LEMMA ToSetConcat ==
  ASSUME NEW S, NEW a \in Seq(S), NEW b \in Seq(S)
  PROVE  ToSet(a \o b) = ToSet(a) \cup ToSet(b)
<1>1. PICK c : c = a \o b
  OBVIOUS
<1>2. PICK m, n : m = Len(a) /\ n = Len(b)
  OBVIOUS
<1>3. /\ c \in Seq(S) /\ Len(c) = m + n /\ m \in Nat /\ n \in Nat
      /\ \A i \in 1 .. m : c[i] = a[i]
      /\ \A i \in 1 .. n : c[m + i] = b[i]
  BY <1>1, <1>2, ConcatFacts
<1>4. ASSUME NEW i \in 1 .. m + n
      PROVE  c[i] \in ToSet(a) \cup ToSet(b)
  <2>1. CASE i <= m
    <3>1. i \in 1 .. m
      BY <1>3, <2>1
    <3>. QED  BY <1>2, <1>3, <3>1, ToSetFacts
  <2>2. CASE i > m
    <3>1. i - m \in 1 .. n /\ m + (i - m) = i
      BY <1>3, <2>2
    <3>2. c[i] = b[i - m]
      BY <1>3, <3>1
    <3>. QED  BY <1>2, <3>1, <3>2, ToSetFacts
  <2>. QED  BY <1>3, <2>1, <2>2
<1>5. ASSUME NEW i \in 1 .. m PROVE a[i] \in ToSet(c)
  <2>1. i \in 1 .. Len(c)
    BY <1>3
  <2>. QED  BY <1>3, <2>1, ToSetFacts
<1>6. ASSUME NEW i \in 1 .. n PROVE b[i] \in ToSet(c)
  <2>1. m + i \in 1 .. Len(c)
    BY <1>3
  <2>. QED  BY <1>3, <2>1, ToSetFacts
<1>7. \A u \in ToSet(c) : u \in ToSet(a) \cup ToSet(b)
  <2>1. TAKE u \in ToSet(c)
  <2>2. PICK i \in 1 .. Len(c) : c[i] = u
    BY <1>3, ToSetFacts
  <2>. QED  BY <1>3, <1>4, <2>2
<1>8. \A u \in ToSet(a) : u \in ToSet(c)
  BY <1>2, <1>5, ToSetFacts
<1>9. \A u \in ToSet(b) : u \in ToSet(c)
  BY <1>2, <1>6, ToSetFacts
<1>. QED  BY <1>1, <1>7, <1>8, <1>9

LEMMA SplitSeq ==
  ASSUME NEW S, NEW p \in Seq(S), NEW n \in 0 .. Len(p)
  PROVE  /\ SubSeq(p, 1, n) \in Seq(S) /\ Len(SubSeq(p, 1, n)) = n
         /\ SubSeq(p, n + 1, Len(p)) \in Seq(S)
         /\ Len(SubSeq(p, n + 1, Len(p))) = Len(p) - n
         /\ SubSeq(p, 1, n) \o SubSeq(p, n + 1, Len(p)) = p
<1>1. PICK a, b : a = SubSeq(p, 1, n) /\ b = SubSeq(p, n + 1, Len(p))
  OBVIOUS
<1>2. /\ a \in Seq(S) /\ Len(a) = n
      /\ \A i \in 1 .. n : a[i] = p[i]
  BY <1>1
<1>3. /\ b \in Seq(S) /\ Len(b) = Len(p) - n
      /\ \A i \in 1 .. Len(p) - n : b[i] = p[n + i]
  BY <1>1
<1>4. PICK c : c = a \o b
  OBVIOUS
<1>5. /\ c \in Seq(S) /\ Len(c) = Len(p)
      /\ \A i \in 1 .. n : c[i] = a[i]
      /\ \A i \in 1 .. Len(p) - n : c[n + i] = b[i]
  BY <1>2, <1>3, <1>4, ConcatFacts
<1>6. ASSUME NEW i \in 1 .. Len(p) PROVE c[i] = p[i]
  <2>1. CASE i <= n
    BY <1>2, <1>5, <2>1
  <2>2. CASE i > n
    <3>1. i - n \in 1 .. Len(p) - n /\ n + (i - n) = i
      BY <2>2
    <3>. QED  BY <1>3, <1>5, <3>1
  <2>. QED  BY <2>1, <2>2
<1>7. c = p
  BY <1>5, <1>6, SameSeq
<1>. QED  BY <1>1, <1>2, <1>3, <1>4, <1>7

(* A set of numbers up to n that is not empty has a greatest element.      *)
LEMMA GreatestBelow ==
  ASSUME NEW n \in Nat, NEW T \in SUBSET (0 .. n), T # {}
  PROVE  \E x \in T : \A y \in T : y <= x
<1>. DEFINE U == {u \in 0 .. n : n - u \in T}
<1>1. U \in SUBSET Nat
  OBVIOUS
<1>2. U # {}
  <2>1. PICK x \in T : TRUE
    OBVIOUS
  <2>2. n - x \in 0 .. n /\ n - (n - x) = x
    OBVIOUS
  <2>. QED  BY <2>2
<1>3. PICK u \in U : \A v \in U : u <= v
  <2>. HIDE DEF U
  <2>. QED  BY <1>1, <1>2, LeastNat
<1>4. ASSUME NEW y \in T PROVE y <= n - u
  <2>1. n - y \in 0 .. n /\ n - (n - y) = y /\ y \in 0 .. n
    OBVIOUS
  <2>2. u <= n - y
    BY <1>3, <2>1
  <2>. QED  BY <2>1, <2>2
<1>. QED  BY <1>4

(* Finitely many numbers have a bound.                                     *)
LEMMA BoundOf ==
  ASSUME NEW n \in Nat, NEW f \in [1 .. n -> Nat]
  PROVE  \E m \in Nat : \A i \in 1 .. n : f[i] <= m
<1>. DEFINE Bad == {k \in 0 .. n : ~ \E m \in Nat : \A i \in 1 .. k : f[i] <= m}
<1>1. Bad \in SUBSET Nat
  OBVIOUS
<1>2. 0 \notin Bad
  <2>1. 1 .. 0 = {} /\ 0 \in Nat
    OBVIOUS
  <2>. QED  BY <2>1
<1>3. ASSUME NEW k \in Bad, \A j \in Bad : k <= j PROVE FALSE
  <2>1. k \in 1 .. n /\ k - 1 \in 0 .. n /\ k - 1 < k
    BY <1>2
  <2>2. k - 1 \notin Bad
    <3>. HIDE DEF Bad
    <3>. QED  BY <1>3, <2>1
  <2>3. PICK m \in Nat : \A i \in 1 .. k - 1 : f[i] <= m
    BY <2>1, <2>2
  <2>4. PICK z : z = f[k]
    OBVIOUS
  <2>5. z \in Nat
    BY <2>1, <2>4
  <2>6. PICK b : b = m + z
    OBVIOUS
  <2>7. b \in Nat /\ m <= b /\ z <= b
    BY <2>5, <2>6
  <2>8. \A i \in 1 .. k : i = k \/ i \in 1 .. k - 1
    BY <2>1
  <2>9. \A i \in 1 .. k : f[i] \in Nat
    BY <2>1
  <2>10. \A i \in 1 .. k : f[i] <= b
    BY <2>3, <2>4, <2>5, <2>7, <2>8, <2>9
  <2>. QED  BY <2>7, <2>10
<1>4. Bad = {}
  <2>. HIDE DEF Bad
  <2>. QED  BY <1>1, <1>3, LeastNat
<1>5. n \in 0 .. n
  OBVIOUS
<1>. QED  BY <1>4, <1>5

-----------------------------------------------------------------------------
(* Increasing sequences of numbers.                                        *)

Increasing(q) == \A i, j \in 1 .. Len(q) : i < j => q[i] < q[j]

Precede(a, b) == \A u \in ToSet(a), v \in ToSet(b) : u < v

LEMMA IncreasingConcat ==
  ASSUME NEW a \in Seq(Int), NEW b \in Seq(Int)
  PROVE  Increasing(a \o b) <=> Increasing(a) /\ Increasing(b) /\ Precede(a, b)
<1>1. PICK c : c = a \o b
  OBVIOUS
<1>2. PICK m, n : m = Len(a) /\ n = Len(b)
  OBVIOUS
<1>3. /\ Len(c) = m + n /\ m \in Nat /\ n \in Nat
      /\ \A i \in 1 .. m : c[i] = a[i]
      /\ \A i \in 1 .. n : c[m + i] = b[i]
  BY <1>1, <1>2, ConcatFacts
<1>4. ASSUME Increasing(c)
      PROVE  Increasing(a) /\ Increasing(b) /\ Precede(a, b)
  <2>1. Increasing(a)
    <3>1. ASSUME NEW i \in 1 .. m, NEW j \in 1 .. m, i < j
          PROVE  a[i] < a[j]
      <4>1. i \in 1 .. m + n /\ j \in 1 .. m + n
        BY <1>3
      <4>. QED  BY <1>3, <1>4, <3>1, <4>1 DEF Increasing
    <3>. QED  BY <1>2, <3>1 DEF Increasing
  <2>2. Increasing(b)
    <3>1. ASSUME NEW i \in 1 .. n, NEW j \in 1 .. n, i < j
          PROVE  b[i] < b[j]
      <4>1. m + i \in 1 .. m + n /\ m + j \in 1 .. m + n /\ m + i < m + j
        BY <1>3, <3>1
      <4>2. c[m + i] < c[m + j]
        BY <1>3, <1>4, <4>1 DEF Increasing
      <4>. QED  BY <1>3, <4>2
    <3>. QED  BY <1>2, <3>1 DEF Increasing
  <2>3. Precede(a, b)
    <3>1. ASSUME NEW i \in 1 .. m, NEW j \in 1 .. n
          PROVE  a[i] < b[j]
      <4>1. i \in 1 .. m + n /\ m + j \in 1 .. m + n /\ i < m + j
        BY <1>3
      <4>2. c[i] < c[m + j]
        BY <1>3, <1>4, <4>1 DEF Increasing
      <4>. QED  BY <1>3, <4>2
    <3>2. \A u \in ToSet(a), v \in ToSet(b) :
            \E i \in 1 .. m, j \in 1 .. n : u = a[i] /\ v = b[j]
      <4>1. TAKE u \in ToSet(a), v \in ToSet(b)
      <4>2. PICK i \in 1 .. m : u = a[i]
        BY <1>2, ToSetFacts
      <4>3. PICK j \in 1 .. n : v = b[j]
        BY <1>2, ToSetFacts
      <4>. QED  BY <4>2, <4>3
    <3>. QED  BY <3>1, <3>2 DEF Precede
  <2>. QED  BY <2>1, <2>2, <2>3
<1>5. ASSUME Increasing(a), Increasing(b), Precede(a, b),
             NEW i \in 1 .. m + n, NEW j \in 1 .. m + n, i < j
      PROVE  c[i] < c[j]
  <2>1. CASE j <= m
    <3>1. i \in 1 .. m /\ j \in 1 .. m
      BY <1>3, <1>5, <2>1
    <3>. QED  BY <1>2, <1>3, <1>5, <3>1 DEF Increasing
  <2>2. CASE j > m
    <3>1. PICK k \in 1 .. n : j = m + k
      <4>1. j - m \in 1 .. n /\ j = m + (j - m)
        BY <1>3, <2>2
      <4>. QED  BY <4>1
    <3>2. c[j] = b[k] /\ b[k] \in ToSet(b)
      BY <1>2, <1>3, <3>1, ToSetFacts
    <3>3. CASE i <= m
      <4>1. i \in 1 .. m
        BY <1>3, <3>3
      <4>2. c[i] = a[i] /\ a[i] \in ToSet(a)
        BY <1>2, <1>3, <4>1, ToSetFacts
      <4>. QED  BY <1>5, <3>2, <4>2 DEF Precede
    <3>4. CASE i > m
      <4>1. PICK l \in 1 .. n : i = m + l
        <5>1. i - m \in 1 .. n /\ i = m + (i - m)
          BY <1>3, <3>4
        <5>. QED  BY <5>1
      <4>2. l < k
        BY <1>3, <1>5, <3>1, <4>1
      <4>. QED  BY <1>2, <1>3, <1>5, <3>2, <4>1, <4>2 DEF Increasing
    <3>. QED  BY <1>3, <3>3, <3>4
  <2>. QED  BY <1>3, <2>1, <2>2
<1>6. Increasing(a) /\ Increasing(b) /\ Precede(a, b) => Increasing(c)
  BY <1>3, <1>5 DEF Increasing
<1>. QED  BY <1>1, <1>4, <1>6

LEMMA IncreasingSublist ==
  ASSUME NEW list \in Seq(Int), NEW places, Increasing(list)
  PROVE  Increasing(Sublist(list, places))
<1>1. PICK part : part = Sublist(list, places)
  OBVIOUS
<1>2. PICK e : Shows(list, places, part, e)
  BY <1>1, SublistShows
<1>3. ASSUME NEW i \in 1 .. Len(part), NEW j \in 1 .. Len(part), i < j
      PROVE  part[i] < part[j]
  <2>1. e[i] \in DOMAIN list /\ e[j] \in DOMAIN list /\ e[i] < e[j]
    BY <1>2, <1>3 DEF Shows
  <2>2. part[i] = list[e[i]] /\ part[j] = list[e[j]]
    BY <1>2 DEF Shows
  <2>3. list[e[i]] < list[e[j]]
    <3>1. \A k, l \in DOMAIN list : k < l => list[k] < list[l]
      BY DEF Increasing
    <3>. QED  BY <2>1, <3>1
  <2>. QED  BY <2>2, <2>3
<1>. QED  BY <1>1, <1>3 DEF Increasing

(* An increasing enumeration of 1 .. n is the identity.                    *)
LEMMA IncreasingIdentity ==
  ASSUME NEW n \in Nat, NEW q \in Seq(Int), Increasing(q), ToSet(q) = 1 .. n
  PROVE  Len(q) = n /\ \A i \in 1 .. n : q[i] = i
<1>1. \A i \in 1 .. Len(q) : q[i] \in 1 .. n
  BY ToSetFacts
<1>2. ASSUME NEW k \in 1 .. n PROVE \E i \in 1 .. Len(q) : q[i] = k
  BY ToSetFacts
<1>. DEFINE Bad == {i \in 1 .. Len(q) : q[i] # i}
<1>3. ASSUME Bad # {} PROVE FALSE
  <2>1. PICK i \in Bad : \A j \in Bad : i <= j
    <3>1. Bad \in SUBSET Nat
      OBVIOUS
    <3>. HIDE DEF Bad
    <3>. QED  BY <1>3, <3>1, LeastNat
  <2>2. \A j \in 1 .. Len(q) : j < i => q[j] = j
    BY <2>1
  <2>3. CASE q[i] < i
    <3>1. q[i] \in 1 .. Len(q) /\ q[q[i]] = q[i]
      BY <1>1, <2>2, <2>3
    <3>2. q[q[i]] < q[i]
      BY <2>3, <3>1 DEF Increasing
    <3>. QED  BY <1>1, <3>1, <3>2
  <2>4. CASE q[i] > i
    <3>1. i \in 1 .. n
      BY <1>1, <2>4
    <3>2. PICK j \in 1 .. Len(q) : q[j] = i
      BY <1>2, <3>1
    <3>3. ~(j < i) /\ j # i
      BY <2>2, <2>4, <3>2
    <3>4. q[i] < q[j]
      BY <3>3 DEF Increasing
    <3>. QED  BY <2>4, <3>2, <3>4
  <2>. QED  BY <1>1, <2>3, <2>4
<1>4. \A i \in 1 .. Len(q) : q[i] = i
  BY <1>3
<1>5. 1 .. Len(q) = 1 .. n
  BY <1>1, <1>2, <1>4
<1>. QED  BY <1>4, <1>5

-----------------------------------------------------------------------------
(* The elements of a flattened sequence, and their order.                  *)

(* A sequence that is not empty is a shorter one with an element appended. *)
LEMMA SplitLast ==
  ASSUME NEW S, NEW q \in Seq(S), q # <<>>
  PROVE  \E b \in Seq(S), x \in S :
           /\ q = Append(b, x) /\ Len(b) = Len(q) - 1 /\ Len(b) \in Nat
           /\ q[Len(q)] = x /\ \A i \in 1 .. Len(b) : q[i] = b[i]
<1>1. PICK n, b : n = Len(q) - 1 /\ b = SubSeq(q, 1, n)
  OBVIOUS
<1>2. /\ b \in Seq(S) /\ Len(b) = Len(q) - 1 /\ Len(b) \in Nat /\ q[Len(q)] \in S
      /\ \A i \in 1 .. Len(b) : q[i] = b[i]
  <2>1. n \in 0 .. Len(q) /\ Len(q) = n + 1 /\ n \in Nat
    BY <1>1
  <2>2. b \in Seq(S) /\ Len(b) = n
    BY <1>1, <2>1, SplitSeq
  <2>3. \A i \in 1 .. n : b[i] = q[i]
    BY <1>1, <2>1
  <2>. QED  BY <2>1, <2>2, <2>3
<1>3. PICK p : p = Append(b, q[Len(q)])
  OBVIOUS
<1>4. /\ p \in Seq(S) /\ Len(p) = Len(q) /\ p[Len(q)] = q[Len(q)]
      /\ \A i \in 1 .. Len(b) : p[i] = b[i]
  BY <1>2, <1>3, AppendFacts
<1>5. \A i \in 1 .. Len(q) : p[i] = q[i]
  BY <1>2, <1>4
<1>6. p = q
  BY <1>4, <1>5, SameSeq
<1>. QED  BY <1>2, <1>3, <1>6

FlattenedElements(q) == ToSet(FlattenSeq(q)) = UNION {ToSet(q[n]) : n \in DOMAIN q}

LEMMA FlattenElements ==
  ASSUME NEW S, NEW q \in Seq(Seq(S))
  PROVE  FlattenedElements(q)
<1>. DEFINE Bad == {n \in Nat : \E l \in Seq(Seq(S)) : Len(l) = n /\ ~FlattenedElements(l)}
<1>1. ASSUME Bad # {} PROVE FALSE
  <2>1. PICK n \in Bad : \A m \in Bad : n <= m
    <3>1. Bad \in SUBSET Nat
      OBVIOUS
    <3>. HIDE DEF Bad
    <3>. QED  BY <1>1, <3>1, LeastNat
  <2>2. PICK l \in Seq(Seq(S)) : Len(l) = n /\ ~FlattenedElements(l)
    OBVIOUS
  <2>3. CASE l = <<>>
    <3>1. FlattenSeq(l) = <<>> /\ DOMAIN l = {} /\ ToSet(<<>>) = {}
      BY <2>3, FlattenEmpty DEF ToSet
    <3>. QED  BY <2>2, <3>1 DEF FlattenedElements
  <2>4. CASE l # <<>>
    <3>1. PICK b \in Seq(Seq(S)), x \in Seq(S) :
            /\ l = Append(b, x) /\ Len(b) = Len(l) - 1 /\ Len(b) \in Nat
            /\ l[Len(l)] = x /\ \A i \in 1 .. Len(b) : l[i] = b[i]
      BY <2>4, SplitLast
    <3>2. FlattenedElements(b)
      <4>1. Len(b) \notin Bad /\ Len(b) \in Nat
        BY <2>1, <2>2, <3>1
      <4>. QED  BY <4>1
    <3>3. ToSet(FlattenSeq(l)) = ToSet(FlattenSeq(b)) \cup ToSet(x)
      <4>1. PICK f : f = FlattenSeq(b)
        OBVIOUS
      <4>2. f \in Seq(S) /\ FlattenSeq(l) = f \o x
        BY <3>1, <4>1, FlattenAppend, FlattenType
      <4>. HIDE DEF Bad
      <4>3. ToSet(f \o x) = ToSet(f) \cup ToSet(x)
        BY <4>2, ToSetConcat
      <4>. QED  BY <4>1, <4>2, <4>3
    <3>4. DOMAIN l = 1 .. Len(l) /\ DOMAIN b = 1 .. Len(b) /\ Len(l) = Len(b) + 1
      BY <3>1
    <3>5. \A i \in DOMAIN l : i \in DOMAIN b \/ i = Len(l)
      BY <3>1, <3>4
    <3>6. Len(l) \in DOMAIN l /\ \A i \in DOMAIN b : i \in DOMAIN l /\ l[i] = b[i]
      BY <3>1, <3>4
    <3>7. UNION {ToSet(l[i]) : i \in DOMAIN l}
            = (UNION {ToSet(b[i]) : i \in DOMAIN b}) \cup ToSet(x)
      <4>1. ASSUME NEW u, NEW i \in DOMAIN l, u \in ToSet(l[i])
            PROVE  u \in (UNION {ToSet(b[k]) : k \in DOMAIN b}) \cup ToSet(x)
        BY <3>1, <3>5, <3>6, <4>1
      <4>2. ASSUME NEW u, NEW i \in DOMAIN b, u \in ToSet(b[i])
            PROVE  u \in UNION {ToSet(l[k]) : k \in DOMAIN l}
        BY <3>6, <4>2
      <4>3. ToSet(x) \subseteq UNION {ToSet(l[k]) : k \in DOMAIN l}
        BY <3>1, <3>6
      <4>. HIDE DEF Bad
      <4>. QED  BY <4>1, <4>2, <4>3
    <3>. QED  BY <2>2, <3>2, <3>3, <3>7 DEF FlattenedElements
  <2>. QED  BY <2>3, <2>4
<1>. QED  BY <1>1

(* A flattened sequence increases if its pieces do and follow each other.  *)
Ascending(q) ==
  /\ \A i \in 1 .. Len(q) : Increasing(q[i])
  /\ \A i, j \in 1 .. Len(q) : i < j => Precede(q[i], q[j])

LEMMA AscendingAppend ==
  ASSUME NEW b \in Seq(Seq(Int)), NEW x \in Seq(Int)
  PROVE  Ascending(Append(b, x)) <=>
           Ascending(b) /\ Increasing(x) /\ Precede(FlattenSeq(b), x)
<1>1. PICK l : l = Append(b, x)
  OBVIOUS
<1>2. PICK n : n = Len(b)
  OBVIOUS
<1>3. /\ Len(l) = n + 1 /\ n \in Nat /\ l[n + 1] = x /\ DOMAIN b = 1 .. n
      /\ \A i \in 1 .. n : l[i] = b[i]
  BY <1>1, <1>2, AppendFacts
<1>4. Precede(FlattenSeq(b), x) <=> \A i \in 1 .. n : Precede(b[i], x)
  <2>1. ToSet(FlattenSeq(b)) = UNION {ToSet(b[i]) : i \in 1 .. n}
    BY <1>3, FlattenElements DEF FlattenedElements
  <2>2. \A u \in ToSet(FlattenSeq(b)) : \E i \in 1 .. n : u \in ToSet(b[i])
    BY <2>1
  <2>3. \A i \in 1 .. n : \A u \in ToSet(b[i]) : u \in ToSet(FlattenSeq(b))
    BY <2>1
  <2>. QED  BY <2>2, <2>3 DEF Precede
<1>5. \A i \in 1 .. n + 1 : i = n + 1 \/ i \in 1 .. n
  BY <1>3
<1>6. n + 1 \in 1 .. n + 1 /\ \A i \in 1 .. n : i \in 1 .. n + 1 /\ i < n + 1
  BY <1>3
<1>7. ASSUME Ascending(l)
      PROVE  Ascending(b) /\ Increasing(x) /\ \A i \in 1 .. n : Precede(b[i], x)
  BY <1>2, <1>3, <1>6, <1>7 DEF Ascending
<1>8. ASSUME Ascending(b), Increasing(x), \A i \in 1 .. n : Precede(b[i], x)
      PROVE  Ascending(l)
  <2>1. ASSUME NEW i \in 1 .. n + 1 PROVE Increasing(l[i])
    BY <1>2, <1>3, <1>5, <1>8 DEF Ascending
  <2>2. ASSUME NEW i \in 1 .. n + 1, NEW j \in 1 .. n + 1, i < j
        PROVE  Precede(l[i], l[j])
    <3>1. i \in 1 .. n
      BY <1>3, <2>2
    <3>2. CASE j = n + 1
      BY <1>3, <1>8, <3>1, <3>2
    <3>3. CASE j \in 1 .. n
      BY <1>2, <1>3, <1>8, <2>2, <3>1, <3>3 DEF Ascending
    <3>. QED  BY <1>5, <3>2, <3>3
  <2>. QED  BY <1>3, <2>1, <2>2 DEF Ascending
<1>. QED  BY <1>1, <1>4, <1>7, <1>8

LEMMA FlattenIncreasing ==
  ASSUME NEW q \in Seq(Seq(Int))
  PROVE  Increasing(FlattenSeq(q)) <=> Ascending(q)
<1>. DEFINE Right(l) == Increasing(FlattenSeq(l)) <=> Ascending(l)
            Bad == {n \in Nat : \E l \in Seq(Seq(Int)) : Len(l) = n /\ ~Right(l)}
<1>1. ASSUME Bad # {} PROVE FALSE
  <2>1. PICK n \in Bad : \A m \in Bad : n <= m
    <3>1. Bad \in SUBSET Nat
      OBVIOUS
    <3>. HIDE DEF Bad
    <3>. QED  BY <1>1, <3>1, LeastNat
  <2>2. PICK l \in Seq(Seq(Int)) : Len(l) = n /\ ~Right(l)
    OBVIOUS
  <2>3. CASE l = <<>>
    <3>1. FlattenSeq(l) = <<>> /\ Len(l) = 0 /\ Len(<<>>) = 0
      BY <2>3, FlattenEmpty
    <3>. QED  BY <2>2, <3>1 DEF Increasing, Ascending
  <2>4. CASE l # <<>>
    <3>1. PICK b \in Seq(Seq(Int)), x \in Seq(Int) :
            l = Append(b, x) /\ Len(b) = Len(l) - 1 /\ Len(b) \in Nat
      BY <2>4, SplitLast
    <3>2. Right(b)
      <4>1. Len(b) \notin Bad /\ Len(b) \in Nat
        BY <2>1, <2>2, <3>1
      <4>. QED  BY <4>1
    <3>3. FlattenSeq(l) = FlattenSeq(b) \o x /\ FlattenSeq(b) \in Seq(Int)
      BY <3>1, FlattenAppend, FlattenType
    <3>4. Increasing(FlattenSeq(l)) <=>
            Increasing(FlattenSeq(b)) /\ Increasing(x) /\ Precede(FlattenSeq(b), x)
      BY <3>3, IncreasingConcat
    <3>5. Ascending(l) <=> Ascending(b) /\ Increasing(x) /\ Precede(FlattenSeq(b), x)
      BY <3>1, AscendingAppend
    <3>. QED  BY <2>2, <3>2, <3>4, <3>5
  <2>. QED  BY <2>3, <2>4
<1>2. Right(q)
  BY <1>1
<1>. QED  BY <1>2

=============================================================================

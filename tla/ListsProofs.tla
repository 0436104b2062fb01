---------------------------- MODULE ListsProofs ----------------------------
(***************************************************************************)
(* Lists of any length, number and nesting, and scripts of any length:     *)
(* what a statement leaves alone, when two variables share an array, and   *)
(* that a variable gets the list the statement means.                      *)
(***************************************************************************)
EXTENDS Lists, FiniteSetTheorems, SequenceTheorems, TLAPS

-----------------------------------------------------------------------------
(* Sequences *)

LEMMA SeqIs ==
  ASSUME NEW T, NEW n \in Nat, NEW f \in [1..n -> T]
  PROVE  /\ f \in Seq(T) /\ Len(f) = n /\ DOMAIN f = 1..n
OBVIOUS

LEMMA OneItem ==
  ASSUME NEW T, NEW e \in T
  PROVE  /\ <<e>> \in Seq(T) /\ Len(<<e>>) = 1 /\ <<e>>[1] = e /\ DOMAIN <<e>> = 1..1
OBVIOUS

LEMMA TwoItems ==
  ASSUME NEW a, NEW b
  PROVE  <<a>> \o <<b>> = <<a, b>>
<1> DEFINE T == {a, b}  p == <<a>>  q == <<b>>  pq == p \o q  t == <<a, b>>
<1>1. a \in T /\ b \in T
  OBVIOUS
<1>2. t \in Seq(T) /\ Len(t) = 2 /\ t[1] = a /\ t[2] = b
  BY <1>1
<1>3. p \in Seq(T) /\ Len(p) = 1 /\ p[1] = a /\ q \in Seq(T) /\ Len(q) = 1 /\ q[1] = b
  BY <1>1, OneItem
<1> HIDE DEF T, p, q, t
<1>4. /\ pq \in Seq(T) /\ Len(pq) = Len(p) + Len(q)
      /\ \A i \in 1..Len(p) + Len(q) : pq[i] = IF i <= Len(p) THEN p[i] ELSE q[i - Len(p)]
  BY ONLY <1>3, ConcatProperties
<1> HIDE DEF pq
<1>5. Len(pq) = 2 /\ pq[1] = a /\ pq[2] = b
  BY ONLY <1>3, <1>4
<1>6. \A i \in 1..Len(pq) : pq[i] = t[i]
  BY ONLY <1>2, <1>5
<1>7. pq = t
  BY ONLY <1>2, <1>4, <1>5, <1>6, SeqEqual
<1> QED BY <1>7 DEF pq, p, q, t

LEMMA PartOf ==
  ASSUME NEW T, NEW s \in Seq(T), NEW m \in Nat, NEW n \in Nat, m >= 1, n <= Len(s)
  PROVE  /\ SubSeq(s, m, n) \in Seq(T)
         /\ Len(SubSeq(s, m, n)) = IF m <= n THEN n - m + 1 ELSE 0
         /\ \A k \in 1..Len(SubSeq(s, m, n)) : SubSeq(s, m, n)[k] = s[m + k - 1] /\ m + k - 1 \in 1..Len(s)
<1>1. \A k \in m..n : s[k] \in T
  BY ElementOfSeq
<1>2. /\ SubSeq(s, m, n) \in Seq(T)
      /\ Len(SubSeq(s, m, n)) = IF m <= n THEN n - m + 1 ELSE 0
      /\ \A k \in 1..n - m + 1 : SubSeq(s, m, n)[k] = s[m + k - 1]
  BY <1>1, SubSeqProperties
<1>3. \A k \in 1..n - m + 1 : m + k - 1 \in 1..Len(s)
  BY LenProperties
<1> QED BY <1>2, <1>3

-----------------------------------------------------------------------------
(* Heaps.  These are of any heap, so that they can be said of the one      *)
(* before a statement and of the one after it.                             *)

Slices == [array : Nat, from : Nat, to : Nat]
Cell   == ({"number", "text"} \X Nat) \cup ({"list"} \X Slices) \cup {Nil}
Array  == [typed : BOOLEAN, cells : Seq(Cell)]

SliceIn(h, s) ==
  s \in Slices /\ s.array \in 1..Len(h) /\ s.from <= s.to /\ s.to <= Len(h[s.array].cells)

IsNumber(c) == c[1] = "number"
CellIn(h, c, typed) ==
  c \in Cell /\ (IsList(c) => SliceIn(h, c[2])) /\ (typed => IsNumber(c))
CellsOK(h, cells, typed) ==
  cells \in Seq(Cell) /\ \A k \in 1..Len(cells) : CellIn(h, cells[k], typed)
HeapOK(h) ==
  h \in Seq(Array) /\ \A a \in 1..Len(h) : CellsOK(h, h[a].cells, h[a].typed)

(* A heap after another: arrays stay where, and as long as, they are. *)
Later(h, h2) ==
  /\ h2 \in Seq(Array) /\ Len(h) <= Len(h2)
  /\ \A a \in 1..Len(h) : h2[a].typed = h[a].typed /\ Len(h2[a].cells) = Len(h[a].cells)

CellsIn(h, s) == SubSeq(h[s.array].cells, s.from + 1, s.to)

LEMMA CellParts ==
  /\ \A n \in Nat : /\ Number(n) \in Cell /\ ~IsList(Number(n)) /\ IsNumber(Number(n))
                    /\ Text(n) \in Cell /\ ~IsList(Text(n))
  /\ \A s \in Slices : Item(s) \in Cell /\ IsList(Item(s)) /\ Item(s)[2] = s /\ ~IsNumber(Item(s))
  /\ Nil \in Cell /\ ~IsList(Nil)
  /\ \A c \in Cell : /\ IsList(c) => c[2] \in Slices /\ c = Item(c[2])
                     /\ IsNumber(c) => ~IsList(c) /\ c[2] \in Nat /\ c = Number(c[2])
                     /\ ~IsList(c) => c[2] \in Nat
BY DEF Cell, Number, Text, Item, Nil, IsList, IsNumber

LEMMA CellsOfSlice ==
  ASSUME NEW h, HeapOK(h), NEW s, SliceIn(h, s)
  PROVE  /\ CellsOK(h, CellsIn(h, s), h[s.array].typed)
         /\ Len(CellsIn(h, s)) = s.to - s.from /\ s.to - s.from \in Nat
         /\ \A k \in 1..(s.to - s.from) :
              CellsIn(h, s)[k] = h[s.array].cells[s.from + k] /\ s.from + k \in 1..Len(h[s.array].cells)
<1> DEFINE c == h[s.array].cells  t == CellsIn(h, s)
<1>1. c \in Seq(Cell) /\ \A k \in 1..Len(c) : CellIn(h, c[k], h[s.array].typed)
  BY DEF HeapOK, CellsOK, SliceIn
<1>2. Len(c) \in Nat /\ s.from \in Nat /\ s.to \in Nat /\ s.to <= Len(c) /\ s.from <= s.to
  BY <1>1, LenProperties DEF SliceIn, Slices
<1> HIDE DEF c
<1>3. /\ t \in Seq(Cell) /\ Len(t) = IF s.from + 1 <= s.to THEN s.to - (s.from + 1) + 1 ELSE 0
      /\ \A k \in 1..Len(t) : t[k] = c[s.from + 1 + k - 1] /\ s.from + 1 + k - 1 \in 1..Len(c)
  <2> DEFINE m == s.from + 1
  <2>1. m \in Nat /\ m >= 1 /\ t = SubSeq(c, m, s.to)
    BY <1>2 DEF CellsIn, c
  <2> HIDE DEF m, t
  <2>2. /\ t \in Seq(Cell) /\ Len(t) = IF m <= s.to THEN s.to - m + 1 ELSE 0
        /\ \A k \in 1..Len(t) : t[k] = c[m + k - 1] /\ m + k - 1 \in 1..Len(c)
    BY ONLY <1>1, <1>2, <2>1, PartOf
  <2> QED BY <2>2 DEF m
<1> HIDE DEF t
<1>4. Len(t) = s.to - s.from
  BY <1>2, <1>3
<1>5. \A k \in 1..Len(t) : t[k] = c[s.from + k] /\ s.from + k \in 1..Len(c)
  BY <1>2, <1>3, <1>4
<1>6. CellsOK(h, t, h[s.array].typed)
  BY <1>1, <1>3, <1>5 DEF CellsOK
<1> QED BY <1>2, <1>4, <1>5, <1>6 DEF t, c

LEMMA SliceParts ==
  ASSUME NEW h, HeapOK(h), NEW s, SliceIn(h, s)
  PROVE  /\ h \in Seq(Array) /\ Len(h) \in Nat
         /\ s \in Slices /\ s.array \in 1..Len(h) /\ s.array \in Nat \ {0}
         /\ s.from \in Nat /\ s.to \in Nat /\ s.from <= s.to /\ s.to <= Len(h[s.array].cells)
         /\ h[s.array] \in Array /\ h[s.array].typed \in BOOLEAN
         /\ h[s.array].cells \in Seq(Cell) /\ Len(h[s.array].cells) \in Nat
<1>1. h \in Seq(Array) /\ s \in Slices /\ s.array \in 1..Len(h) /\ s.from <= s.to /\ s.to <= Len(h[s.array].cells)
  BY DEF HeapOK, SliceIn
<1>2. h[s.array] \in Array /\ Len(h) \in Nat
  BY <1>1, ElementOfSeq, LenProperties
<1>3. h[s.array].cells \in Seq(Cell) /\ h[s.array].typed \in BOOLEAN
  BY <1>2 DEF Array
<1>4. Len(h[s.array].cells) \in Nat
  BY <1>3, LenProperties
<1> QED BY <1>1, <1>2, <1>3, <1>4 DEF Slices

LEMMA LaterSlice ==
  ASSUME NEW h \in Seq(Array), NEW h2, Later(h, h2), NEW s, SliceIn(h, s)
  PROVE  SliceIn(h2, s)
<1>1. Len(h) \in Nat /\ Len(h2) \in Nat
  BY LenProperties DEF Later
<1> QED BY <1>1 DEF Later, SliceIn, Slices

LEMMA LaterCells ==
  ASSUME NEW h \in Seq(Array), NEW h2, Later(h, h2), NEW cells, NEW typed, CellsOK(h, cells, typed)
  PROVE  CellsOK(h2, cells, typed)
BY LaterSlice DEF CellsOK, CellIn

LEMMA LaterSelf ==
  ASSUME NEW h \in Seq(Array)
  PROVE  Later(h, h)
BY LenProperties DEF Later

-----------------------------------------------------------------------------
(* A new array, and a part of an array written over *)

NoLists(cells) == \A k \in 1..Len(cells) : ~IsList(cells[k])

(* The other arrays are as they were. *)
SameBut(h, h2, a) == \A b \in 1..Len(h) : b # a => h2[b] = h[b]
Same(h, h2) == \A b \in 1..Len(h) : h2[b] = h[b]

LEMMA FilledIs ==
  ASSUME NEW h, NEW typed \in BOOLEAN, NEW cells, CellsOK(h, cells, typed), NEW cap \in Nat,
         NEW f, f = Filled(cells, cap, typed)
  PROVE  /\ f \in Array /\ f.typed = typed /\ CellsOK(h, f.cells, typed)
         /\ Len(cells) \in Nat /\ Len(f.cells) \in Nat /\ Len(cells) <= Len(f.cells)
         /\ \A k \in 1..Len(cells) : f.cells[k] = cells[k]
         /\ \A k \in 1..Len(f.cells) : k > Len(cells) => f.cells[k] = Zero(typed)
<1> DEFINE rest == [k \in 1..(cap - Len(cells)) |-> Zero(typed)]
           n == IF cap >= Len(cells) THEN cap - Len(cells) ELSE 0
           all == cells \o rest
<1>1. cells \in Seq(Cell) /\ Len(cells) \in Nat
  BY LenProperties DEF CellsOK
<1>2. n \in Nat /\ 1..(cap - Len(cells)) = 1..n
  BY <1>1
<1>3. Zero(typed) \in Cell /\ ~IsList(Zero(typed)) /\ (typed => IsNumber(Zero(typed)))
  BY CellParts DEF Zero
<1>4. rest \in [1..n -> Cell] /\ \A k \in 1..n : rest[k] = Zero(typed)
  BY <1>2, <1>3
<1>5. f = [typed |-> typed, cells |-> all]
  BY DEF Filled
<1> HIDE DEF rest, n
<1>6. rest \in Seq(Cell) /\ Len(rest) = n
  BY <1>2, <1>4, SeqIs
<1>7. /\ all \in Seq(Cell) /\ Len(all) = Len(cells) + n
      /\ \A k \in 1..Len(cells) + n : all[k] = IF k <= Len(cells) THEN cells[k] ELSE rest[k - Len(cells)]
  BY <1>1, <1>6, ConcatProperties
<1> HIDE DEF all
<1>8. \A k \in 1..Len(all) : k > Len(cells) => all[k] = Zero(typed)
  BY <1>1, <1>2, <1>4, <1>7
<1>9. \A k \in 1..Len(cells) : all[k] = cells[k]
  BY <1>1, <1>2, <1>7
<1>10. CellsOK(h, all, typed)
  <2> SUFFICES ASSUME NEW k \in 1..Len(all) PROVE CellIn(h, all[k], typed)
    BY <1>7 DEF CellsOK
  <2>1. CASE k <= Len(cells)
    BY <2>1, <1>1, <1>9 DEF CellsOK
  <2>2. CASE k > Len(cells)
    BY <2>2, <1>3, <1>8 DEF CellIn
  <2> QED BY <2>1, <2>2, <1>1, <1>2, <1>7
<1> QED BY <1>1, <1>2, <1>5, <1>7, <1>8, <1>9, <1>10 DEF Array

(* An array after the others. *)
LEMMA AppendArray ==
  ASSUME NEW h, HeapOK(h), NEW f \in Array, CellsOK(h, f.cells, f.typed), NEW h2, h2 = Append(h, f)
  PROVE  /\ HeapOK(h2) /\ Later(h, h2) /\ Same(h, h2)
         /\ Len(h) \in Nat /\ Len(h2) = Len(h) + 1 /\ h2[Len(h) + 1] = f
<1>1. h \in Seq(Array) /\ Len(h) \in Nat
  BY LenProperties DEF HeapOK
<1>2. /\ h2 \in Seq(Array) /\ Len(h2) = Len(h) + 1 /\ h2[Len(h) + 1] = f
      /\ \A a \in 1..Len(h) : h2[a] = h[a]
  BY <1>1, AppendProperties
<1>3. Later(h, h2) /\ Same(h, h2)
  BY <1>1, <1>2 DEF Later, Same
<1>4. \A a \in 1..Len(h2) : CellsOK(h2, h2[a].cells, h2[a].typed)
  <2> SUFFICES ASSUME NEW a \in 1..Len(h2) PROVE CellsOK(h2, h2[a].cells, h2[a].typed)
    OBVIOUS
  <2>1. CASE a = Len(h) + 1
    BY <2>1, <1>1, <1>2, <1>3, LaterCells
  <2>2. CASE a \in 1..Len(h)
    <3>1. CellsOK(h, h[a].cells, h[a].typed)
      BY <2>2 DEF HeapOK
    <3> QED BY <2>2, <3>1, <1>1, <1>2, <1>3, LaterCells
  <2> QED BY <2>1, <2>2, <1>1, <1>2
<1> QED BY <1>1, <1>2, <1>3, <1>4 DEF HeapOK

(* A list with an array of its own. *)
LEMMA MadeIs ==
  ASSUME NEW h, HeapOK(h), NEW typed \in BOOLEAN, NEW cells, CellsOK(h, cells, typed), NEW cap \in Nat,
         NEW r, r = MadeIn(h, cells, cap, typed)
  PROVE  /\ HeapOK(r.heap) /\ Later(h, r.heap) /\ Same(h, r.heap)
         /\ Len(h) \in Nat /\ Len(r.heap) = Len(h) + 1
         /\ SliceIn(r.heap, r.list) /\ r.list.array = Len(h) + 1
         /\ CellsIn(r.heap, r.list) = cells /\ r.heap[Len(h) + 1].typed = typed
         /\ NoLists(cells) => NoLists(r.heap[Len(h) + 1].cells)
<1> DEFINE f == Filled(cells, cap, typed)  h2 == Append(h, f)
<1>1. /\ f \in Array /\ f.typed = typed /\ CellsOK(h, f.cells, typed)
      /\ Len(cells) \in Nat /\ Len(f.cells) \in Nat /\ Len(cells) <= Len(f.cells)
      /\ \A k \in 1..Len(cells) : f.cells[k] = cells[k]
      /\ \A k \in 1..Len(f.cells) : k > Len(cells) => f.cells[k] = Zero(typed)
  BY FilledIs
<1>2. r = [heap |-> h2, list |-> Slice(Len(h) + 1, 0, Len(cells))]
  BY DEF MadeIn
<1> HIDE DEF f
<1>3. /\ HeapOK(h2) /\ Later(h, h2) /\ Same(h, h2)
      /\ Len(h) \in Nat /\ Len(h2) = Len(h) + 1 /\ h2[Len(h) + 1] = f
  BY <1>1, AppendArray
<1> HIDE DEF h2
<1>4. /\ r.heap = h2 /\ r.list \in Slices
      /\ r.list.array = Len(h) + 1 /\ r.list.from = 0 /\ r.list.to = Len(cells)
  BY <1>1, <1>2, <1>3 DEF Slice, Slices
<1>5. SliceIn(r.heap, r.list)
  BY <1>1, <1>3, <1>4 DEF SliceIn
<1> DEFINE t == CellsIn(h2, r.list)
<1>6. /\ t \in Seq(Cell) /\ Len(t) = Len(cells)
      /\ \A k \in 1..Len(cells) : t[k] = f.cells[k]
  <2>1. /\ CellsOK(h2, t, f.typed) /\ Len(t) = r.list.to - r.list.from
        /\ \A k \in 1..(r.list.to - r.list.from) : t[k] = f.cells[r.list.from + k]
    BY <1>3, <1>4, <1>5, CellsOfSlice
  <2> QED BY <2>1, <1>1, <1>4 DEF CellsOK
<1>7. t = cells
  <2>1. cells \in Seq(Cell) /\ \A k \in 1..Len(t) : t[k] = cells[k]
    BY <1>1, <1>6 DEF CellsOK
  <2> HIDE DEF t
  <2> QED BY ONLY <2>1, <1>6, SeqEqual
<1>8. ASSUME NoLists(cells) PROVE NoLists(f.cells)
  <2> SUFFICES ASSUME NEW k \in 1..Len(f.cells) PROVE ~IsList(f.cells[k])
    BY DEF NoLists
  <2>1. CASE k <= Len(cells)
    BY <2>1, <1>1, <1>8 DEF NoLists
  <2>2. CASE k > Len(cells)
    BY <2>2, <1>1, CellParts DEF Zero
  <2> QED BY <2>1, <2>2, <1>1
<1> QED BY <1>1, <1>3, <1>4, <1>5, <1>7, <1>8

(* What cell k of an array is, when these are written over it from at on. *)
Over(cells, at, old, k) == IF k \in at + 1..at + Len(cells) THEN cells[k - at] ELSE old[k]

(* Written, of any heap. *)
WrittenIn(h, s, at, cells) ==
  [h EXCEPT ![s.array].cells =
     [k \in DOMAIN @ |-> IF k \in at + 1..at + Len(cells) THEN cells[k - at] ELSE @[k]]]

LEMMA WrittenIs ==
  ASSUME NEW h, HeapOK(h), NEW s, s.array \in 1..Len(h),
         NEW cells, CellsOK(h, cells, h[s.array].typed), NEW at \in Nat, at + Len(cells) <= Len(h[s.array].cells),
         NEW h2, h2 = WrittenIn(h, s, at, cells)
  PROVE  /\ HeapOK(h2) /\ Later(h, h2) /\ SameBut(h, h2, s.array) /\ Len(h2) = Len(h)
         /\ \A k \in 1..Len(h[s.array].cells) :
              h2[s.array].cells[k] = Over(cells, at, h[s.array].cells, k)
<1> DEFINE c == h[s.array].cells
           d == [k \in DOMAIN c |-> IF k \in at + 1..at + Len(cells) THEN cells[k - at] ELSE c[k]]
           f == [h[s.array] EXCEPT !.cells = d]
<1>1. h \in Seq(Array) /\ Len(h) \in Nat /\ h[s.array] \in Array
  BY LenProperties, ElementOfSeq DEF HeapOK
<1>2. /\ c \in Seq(Cell) /\ Len(c) \in Nat /\ DOMAIN c = 1..Len(c) /\ CellsOK(h, c, h[s.array].typed)
      /\ \A k \in 1..Len(c) : CellIn(h, c[k], h[s.array].typed)
  BY LenProperties DEF HeapOK, CellsOK
<1>3. /\ cells \in Seq(Cell) /\ Len(cells) \in Nat
      /\ \A k \in 1..Len(cells) : CellIn(h, cells[k], h[s.array].typed)
  BY LenProperties DEF CellsOK, CellIn
<1> HIDE DEF c
<1>4. \A k \in 1..Len(c) : CellIn(h, d[k], h[s.array].typed)
  BY <1>2, <1>3
<1>5. d \in [1..Len(c) -> Cell]
  BY <1>2, <1>4 DEF CellIn
<1>6. \A k \in 1..Len(c) : d[k] = Over(cells, at, c, k)
  BY <1>2 DEF Over
<1>7. h2 = [h EXCEPT ![s.array] = f]
  BY <1>1 DEF WrittenIn, c
<1> HIDE DEF d
<1>8. d \in Seq(Cell) /\ Len(d) = Len(c)
  BY <1>2, <1>5, SeqIs
<1>9. f \in Array /\ f.typed = h[s.array].typed /\ f.cells = d
  BY <1>1, <1>8 DEF Array
<1> HIDE DEF f
<1>10. /\ h2 \in Seq(Array) /\ Len(h2) = Len(h)
       /\ \A a \in 1..Len(h) : h2[a] = IF a = s.array THEN f ELSE h[a]
  BY <1>1, <1>7, <1>9, ExceptSeq
<1>11. Later(h, h2) /\ SameBut(h, h2, s.array)
  BY <1>1, <1>8, <1>9, <1>10 DEF Later, SameBut, c
<1>12. \A a \in 1..Len(h) : CellsOK(h, h2[a].cells, h2[a].typed)
  BY <1>4, <1>8, <1>9, <1>10 DEF CellsOK, HeapOK
<1>13. HeapOK(h2)
  BY <1>1, <1>10, <1>11, <1>12, LaterCells DEF HeapOK
<1> QED BY <1>6, <1>9, <1>10, <1>11, <1>13 DEF c

LEMMA WrittenHere ==
  ASSUME NEW s, NEW at, NEW cells
  PROVE  Written(s, at, cells) = WrittenIn(heap, s, at, cells)
BY DEF Written, WrittenIn

-----------------------------------------------------------------------------
(* Sorting *)

(* Items that are no lists are in order by text. *)
LEMMA BelowIs ==
  ASSUME NEW c \in Cell, NEW d \in Cell, NEW e \in Cell, ~IsList(c), ~IsList(d), ~IsList(e)
  PROVE  /\ ~Below(c, c) /\ ~(Below(c, d) /\ Below(d, c))
         /\ Below(c, d) /\ ~Below(e, d) => Below(c, e)
         /\ ~Below(d, c) /\ ~Below(e, d) => ~Below(e, c)
         /\ ~Below(d, c) /\ Below(d, e) => Below(c, e)
<1>1. c[2] \in Nat /\ d[2] \in Nat /\ e[2] \in Nat
  BY CellParts
<1> QED BY <1>1 DEF Below

Before(cells, k) ==
  {l \in DOMAIN cells : Below(cells[l], cells[k]) \/ (~Below(cells[k], cells[l]) /\ l < k)}

(* No two items have one place, and so every place has an item. *)
LEMMA PlaceIs ==
  ASSUME NEW cells \in Seq(Cell), NoLists(cells)
  PROVE  /\ \A k \in 1..Len(cells) : Place(cells, k) \in 1..Len(cells)
         /\ \A p \in 1..Len(cells) : \E k \in 1..Len(cells) : Place(cells, k) = p
<1> DEFINE n == Len(cells)  D == 1..n
<1>1. n \in Nat /\ DOMAIN cells = D
  BY LenProperties
<1>2. \A k \in D : cells[k] \in Cell /\ ~IsList(cells[k])
  BY ElementOfSeq DEF NoLists
<1>3. IsFiniteSet(D) /\ Cardinality(D) = n
  BY <1>1, FS_Interval
<1>4. \A k \in D : Place(cells, k) = 1 + Cardinality(Before(cells, k))
  BY DEF Place, Before
<1>5. ASSUME NEW k \in D
      PROVE  /\ Before(cells, k) \in SUBSET (D \ {k}) /\ IsFiniteSet(Before(cells, k))
             /\ Cardinality(Before(cells, k)) \in 0..(n - 1)
  <2>1. Before(cells, k) \in SUBSET (D \ {k})
    <3>1. ~Below(cells[k], cells[k])
      <4>1. cells[k] \in Cell /\ ~IsList(cells[k])
        BY <1>2, <1>5
      <4> QED BY ONLY <4>1, BelowIs
    <3>2. ~(k < k)
      BY <1>1, <1>5
    <3>3. k \notin Before(cells, k)
      BY <3>1, <3>2 DEF Before
    <3> QED BY <1>1, <3>3 DEF Before
  <2>2. IsFiniteSet(D \ {k}) /\ Cardinality(D \ {k}) = n - 1
    BY <1>3, FS_RemoveElement
  <2>3. IsFiniteSet(Before(cells, k)) /\ Cardinality(Before(cells, k)) <= n - 1
    BY <2>1, <2>2, FS_Subset
  <2> QED BY <2>1, <2>3, FS_CardinalityType, <1>1
<1>6. ASSUME NEW k \in D, NEW l \in D, k \in Before(cells, l)
      PROVE  Place(cells, k) # Place(cells, l)
  <2>1. ASSUME NEW j \in Before(cells, k) PROVE j \in Before(cells, l)
    <3>1. /\ j \in D
          /\ Below(cells[j], cells[k]) \/ (~Below(cells[k], cells[j]) /\ j < k)
          /\ Below(cells[k], cells[l]) \/ (~Below(cells[l], cells[k]) /\ k < l)
      BY <1>1, <1>6, <2>1 DEF Before
    <3> DEFINE a == cells[j]  b == cells[k]  c == cells[l]
    <3>2. a \in Cell /\ b \in Cell /\ c \in Cell /\ ~IsList(a) /\ ~IsList(b) /\ ~IsList(c)
      BY <1>2, <3>1
    <3>3. Below(a, b) \/ (~Below(b, a) /\ j < k)
      BY <3>1
    <3>4. Below(b, c) \/ (~Below(c, b) /\ k < l)
      BY <3>1
    <3> HIDE DEF a, b, c
    <3>5. /\ Below(a, b) /\ ~Below(c, b) => Below(a, c)
          /\ ~Below(b, a) /\ ~Below(c, b) => ~Below(c, a)
          /\ ~Below(b, a) /\ Below(b, c) => Below(a, c)
          /\ ~(Below(b, c) /\ Below(c, b))
          /\ ~(Below(a, b) /\ Below(b, a))
      BY ONLY <3>2, BelowIs
    <3>6. j < k /\ k < l => j < l
      BY <1>1, <3>1
    <3>7. Below(a, c) \/ (~Below(c, a) /\ j < l)
      BY ONLY <3>3, <3>4, <3>5, <3>6
    <3> QED BY <1>1, <3>1, <3>7 DEF Before, a, c
  <2>2. k \notin Before(cells, k)
    BY <1>5
  <2>3. Cardinality(Before(cells, k)) # Cardinality(Before(cells, l))
    <3>1. Before(cells, k) \in SUBSET Before(cells, l)
      BY <2>1
    <3> QED BY <1>5, <1>6, <2>2, <3>1, FS_Subset
  <2>4. Cardinality(Before(cells, k)) \in Nat /\ Cardinality(Before(cells, l)) \in Nat
    BY <1>1, <1>5
  <2> QED BY <1>4, <2>3, <2>4
<1>7. ASSUME NEW k \in D, NEW l \in D, k # l
      PROVE  k \in Before(cells, l) \/ l \in Before(cells, k)
  BY <1>1, <1>2, <1>7, BelowIs DEF Before
<1>8. \A k \in D : Place(cells, k) \in D
  BY <1>1, <1>4, <1>5
<1> DEFINE f == [k \in D |-> Place(cells, k)]
<1>9. f \in Injection(D, D)
  <2>1. f \in [D -> D]
    BY <1>8
  <2>2. ASSUME NEW k \in D, NEW l \in D, f[k] = f[l] PROVE k = l
    <3>1. Place(cells, k) = Place(cells, l)
      BY <2>2
    <3> QED BY <3>1, <1>6, <1>7
  <2> QED BY <2>1, <2>2 DEF Injection, IsInjective
<1>10. f \in Surjection(D, D)
  BY <1>3, <1>9, FS_Injection
<1>11. \A p \in D : \E k \in D : f[k] = p
  BY <1>10 DEF Surjection
<1> QED BY <1>8, <1>11

ItemsOf(s, cells) == \A p \in 1..Len(s) : \E k \in 1..Len(cells) : s[p] = cells[k]

LEMMA SortedIs ==
  ASSUME NEW cells \in Seq(Cell), NoLists(cells), NEW s, s = SortedCells(cells)
  PROVE  s \in Seq(Cell) /\ Len(s) = Len(cells) /\ NoLists(s) /\ ItemsOf(s, cells)
<1> DEFINE n == Len(cells)
           Of(p) == CHOOSE k \in DOMAIN cells : Place(cells, k) = p
<1>1. n \in Nat /\ DOMAIN cells = 1..n
  BY LenProperties
<1>2. \A p \in 1..n : Of(p) \in 1..n
  BY <1>1, PlaceIs
<1>3. s = [p \in 1..n |-> cells[Of(p)]]
  BY <1>1 DEF SortedCells
<1> HIDE DEF Of
<1>4. \A p \in 1..n : s[p] = cells[Of(p)]
  BY <1>3
<1>5. s \in [1..n -> Cell]
  BY <1>2, <1>3, ElementOfSeq
<1>6. s \in Seq(Cell) /\ Len(s) = n
  BY <1>1, <1>5, SeqIs
<1>7. NoLists(s)
  BY <1>2, <1>4, <1>6 DEF NoLists
<1> QED BY <1>2, <1>4, <1>6, <1>7 DEF ItemsOf

(* What uniq makes: numbers of the list it is given, as many or fewer. *)
LEMMA OnceIs ==
  ASSUME NEW cells \in Seq(Cell), NoLists(cells), NEW u, u = Once(cells)
  PROVE  /\ u \in Seq(Cell) /\ NoLists(u) /\ Len(u) = Cardinality(ToSet(cells))
         /\ ItemsOf(u, cells)
<1> DEFINE D == 1..Len(cells)  T == ToSet(cells)  n == Cardinality(T)  t == SetToSeq(T)
<1>1. Len(cells) \in Nat /\ DOMAIN cells = D /\ cells \in [D -> Cell]
  BY LenProperties
<1>2. T = {cells[k] : k \in D}
  BY <1>1 DEF ToSet
<1>3. IsFiniteSet(T)
  <2>1. IsFiniteSet(D)
    BY <1>1, FS_Interval
  <2>2. cells \in Surjection(D, T)
    BY <1>1, <1>2 DEF Surjection
  <2> QED BY <2>1, <2>2, FS_Surjection
<1>4. n \in Nat /\ ExistsBijection(1..n, T)
  BY <1>3, FS_CardinalityType
<1>5. \E f \in [1..n -> T] : IsInjective(f)
  BY <1>4 DEF ExistsBijection, Bijection, Injection, Surjection
<1>6. t \in [1..n -> T]
  BY <1>5 DEF SetToSeq
<1> HIDE DEF n, t
<1>7. T \subseteq Cell
  BY <1>1, <1>2
<1>8. t \in [1..n -> Cell]
  BY <1>6, <1>7
<1>9. t \in Seq(Cell) /\ Len(t) = n
  BY <1>4, <1>8, SeqIs
<1>10. \A p \in 1..Len(t) : \E k \in D : t[p] = cells[k]
  BY <1>2, <1>6, <1>9
<1>11. NoLists(t)
  BY <1>10 DEF NoLists
<1>12. u = SortedCells(t)
  BY DEF Once, t
<1>13. u \in Seq(Cell) /\ Len(u) = Len(t) /\ NoLists(u) /\ ItemsOf(u, t)
  <2>1. t \in Seq(Cell) /\ NoLists(t) /\ u = SortedCells(t)
    BY <1>9, <1>11, <1>12
  <2> QED BY ONLY <2>1, SortedIs
<1>14. Len(u) = n
  BY ONLY <1>9, <1>13
<1>15. \A p \in 1..Len(u) : \E k \in D : u[p] = cells[k]
  BY ONLY <1>10, <1>13 DEF ItemsOf
<1> QED BY ONLY <1>13, <1>14, <1>15 DEF n, ItemsOf, D

LEMMA OnceShort ==
  ASSUME NEW c \in Seq(Cell), NoLists(c), Len(c) <= 1
  PROVE  Once(c) = c
<1> DEFINE u == Once(c)
<1>1. /\ u \in Seq(Cell) /\ Len(u) = Cardinality(ToSet(c))
      /\ ItemsOf(u, c)
  BY OnceIs
<1>2. Len(c) \in Nat /\ DOMAIN c = 1..Len(c)
  BY LenProperties
<1> HIDE DEF u
<1>3. Len(u) = Len(c)
  <2>1. CASE Len(c) = 0
    <3>1. ToSet(c) = {}
      BY <1>2, <2>1 DEF ToSet
    <3> QED BY ONLY <1>1, <2>1, <3>1, FS_EmptySet
  <2>2. CASE Len(c) = 1
    <3>1. ToSet(c) = {c[1]}
      BY <1>2, <2>2 DEF ToSet
    <3> QED BY ONLY <1>1, <2>2, <3>1, FS_Singleton
  <2> QED BY <1>2, <2>1, <2>2
<1>4. \A p \in 1..Len(u) : u[p] = c[p]
  <2> SUFFICES ASSUME NEW p \in 1..Len(u) PROVE u[p] = c[p]
    OBVIOUS
  <2>1. PICK k \in 1..Len(c) : u[p] = c[k]
    BY <1>1 DEF ItemsOf
  <2>2. k = p
    BY <1>2, <1>3
  <2> QED BY <2>1, <2>2
<1> QED BY ONLY c \in Seq(Cell), <1>1, <1>3, <1>4, SeqEqual DEF u


-----------------------------------------------------------------------------
(* Cells put together *)

LEMMA OneCell ==
  ASSUME NEW h, NEW typed, NEW c, CellIn(h, c, typed)
  PROVE  CellsOK(h, <<c>>, typed)
<1>1. c \in Cell
  BY DEF CellIn
<1>2. <<c>> \in Seq(Cell) /\ Len(<<c>>) = 1 /\ <<c>>[1] = c
  BY <1>1, OneItem
<1> DEFINE s == <<c>>
<1>3. s \in Seq(Cell) /\ Len(s) = 1 /\ s[1] = c
  BY <1>2
<1> HIDE DEF s
<1>4. CellsOK(h, s, typed)
  BY <1>3 DEF CellsOK
<1> QED BY <1>4 DEF s

LEMMA JoinedCells ==
  ASSUME NEW h, NEW typed, NEW s, CellsOK(h, s, typed), NEW t, CellsOK(h, t, typed)
  PROVE  /\ CellsOK(h, s \o t, typed)
         /\ NoLists(s) /\ NoLists(t) => NoLists(s \o t)
<1> DEFINE st == s \o t
<1>1. s \in Seq(Cell) /\ t \in Seq(Cell) /\ Len(s) \in Nat /\ Len(t) \in Nat
  BY LenProperties DEF CellsOK
<1>2. /\ st \in Seq(Cell) /\ Len(st) = Len(s) + Len(t)
      /\ \A i \in 1..Len(s) + Len(t) : st[i] = IF i <= Len(s) THEN s[i] ELSE t[i - Len(s)]
  BY <1>1, ConcatProperties
<1> HIDE DEF st
<1>3. ASSUME NEW k \in 1..Len(st)
      PROVE  \/ k \in 1..Len(s) /\ st[k] = s[k]
             \/ k - Len(s) \in 1..Len(t) /\ st[k] = t[k - Len(s)]
  BY <1>1, <1>2
<1>4. CellsOK(h, st, typed)
  BY <1>2, <1>3 DEF CellsOK
<1>5. NoLists(s) /\ NoLists(t) => NoLists(st)
  BY <1>3 DEF NoLists
<1> QED BY <1>4, <1>5 DEF st

LEMMA JoinedFlat ==
  ASSUME NEW s \in Seq(Cell), NEW t \in Seq(Cell)
  PROVE  NoLists(s \o t) => NoLists(s) /\ NoLists(t)
<1> DEFINE st == s \o t
<1>1. /\ Len(s) \in Nat /\ Len(t) \in Nat
      /\ st \in Seq(Cell) /\ Len(st) = Len(s) + Len(t)
      /\ \A i \in 1..Len(s) + Len(t) : st[i] = IF i <= Len(s) THEN s[i] ELSE t[i - Len(s)]
  BY ConcatProperties, LenProperties
<1> HIDE DEF st
<1>2. \A k \in 1..Len(s) : k \in 1..Len(st) /\ st[k] = s[k]
  BY <1>1
<1>3. ASSUME NEW k \in 1..Len(t) PROVE k + Len(s) \in 1..Len(st) /\ st[k + Len(s)] = t[k]
  <2>1. /\ k + Len(s) \in 1..Len(st) /\ k + Len(s) \in 1..Len(s) + Len(t)
        /\ ~(k + Len(s) <= Len(s)) /\ (k + Len(s)) - Len(s) = k
    BY <1>1
  <2> QED BY ONLY <1>1, <2>1
<1>4. NoLists(st) => NoLists(s) /\ NoLists(t)
  BY <1>2, <1>3 DEF NoLists
<1> QED BY <1>4 DEF st

LEMMA PartOfCells ==
  ASSUME NEW h, NEW typed, NEW s, CellsOK(h, s, typed), NEW m \in Nat, NEW n \in Int, m >= 1, n <= Len(s)
  PROVE  /\ CellsOK(h, SubSeq(s, m, n), typed)
         /\ NoLists(s) => NoLists(SubSeq(s, m, n))
<1> DEFINE t == SubSeq(s, m, n)
<1>1. s \in Seq(Cell) /\ Len(s) \in Nat
  BY LenProperties DEF CellsOK
<1>2. \A k \in m..n : k \in 1..Len(s) /\ s[k] \in Cell
  BY <1>1, ElementOfSeq
<1>3. /\ t \in Seq(Cell) /\ Len(t) = IF m <= n THEN n - m + 1 ELSE 0
      /\ \A k \in 1..n - m + 1 : t[k] = s[m + k - 1]
  BY <1>2, SubSeqProperties
<1> HIDE DEF t
<1>4. \A k \in 1..Len(t) : m + k - 1 \in 1..Len(s) /\ t[k] = s[m + k - 1]
  BY <1>1, <1>3
<1>5. CellsOK(h, t, typed)
  BY <1>3, <1>4 DEF CellsOK
<1>6. NoLists(s) => NoLists(t)
  BY <1>4 DEF NoLists
<1> QED BY <1>5, <1>6 DEF t

LEMMA AddedCell ==
  ASSUME NEW h, NEW typed, NEW s, CellsOK(h, s, typed), NEW c, CellIn(h, c, typed)
  PROVE  Append(s, c) = s \o <<c>> /\ CellsOK(h, Append(s, c), typed)
<1>1. s \in Seq(Cell) /\ c \in Cell
  BY DEF CellsOK, CellIn
<1>2. Append(s, c) = s \o <<c>>
  BY <1>1, AppendIsConcat
<1>3. CellsOK(h, <<c>>, typed)
  BY OneCell
<1> QED BY <1>2, <1>3, JoinedCells

-----------------------------------------------------------------------------
(* Values *)

Shown(h, c) == IF IsList(c) THEN <<"list", CellsIn(h, c[2])>> ELSE c
ValueOf(h, cells) == [k \in 1..Len(cells) |-> Shown(h, cells[k])]

Things(h) == {Shown(h, c) : c \in Cell}

LEMMA ValueSeq ==
  ASSUME NEW h, NEW cells \in Seq(Cell)
  PROVE  /\ ValueOf(h, cells) \in Seq(Things(h)) /\ Len(ValueOf(h, cells)) = Len(cells)
         /\ Len(cells) \in Nat /\ DOMAIN ValueOf(h, cells) = 1..Len(cells)
         /\ \A k \in 1..Len(cells) : ValueOf(h, cells)[k] = Shown(h, cells[k])
<1> DEFINE n == Len(cells)  f == ValueOf(h, cells)
<1>1. n \in Nat
  BY LenProperties
<1>2. \A k \in 1..n : Shown(h, cells[k]) \in Things(h)
  BY ElementOfSeq DEF Things
<1>3. f \in [1..n -> Things(h)] /\ \A k \in 1..n : f[k] = Shown(h, cells[k])
  BY <1>2 DEF ValueOf
<1> HIDE DEF f, n
<1>4. f \in Seq(Things(h)) /\ Len(f) = n /\ DOMAIN f = 1..n
  BY <1>1, <1>3, SeqIs
<1> QED BY <1>1, <1>3, <1>4 DEF f, n

LEMMA ValueOfOne ==
  ASSUME NEW h, NEW c \in Cell
  PROVE  ValueOf(h, <<c>>) = <<Shown(h, c)>>
<1> DEFINE s == <<c>>  t == <<Shown(h, c)>>
<1>1. s \in Seq(Cell) /\ Len(s) = 1 /\ s[1] = c
  BY OneItem
<1>2. Shown(h, c) \in Things(h)
  BY DEF Things
<1>3. t \in Seq(Things(h)) /\ Len(t) = 1 /\ t[1] = Shown(h, c)
  BY <1>2, OneItem
<1> HIDE DEF s, t
<1> DEFINE f == ValueOf(h, s)
<1>4. f \in Seq(Things(h)) /\ Len(f) = 1 /\ f[1] = Shown(h, c)
  BY <1>1, ValueSeq
<1> HIDE DEF f
<1>5. f = t
  <2>1. \A k \in 1..Len(f) : f[k] = t[k]
    BY <1>3, <1>4
  <2>2. Len(f) = Len(t)
    BY <1>3, <1>4
  <2> QED BY ONLY <1>3, <1>4, <2>1, <2>2, SeqEqual
<1> QED BY <1>5 DEF s, t, f

LEMMA ValueOfJoined ==
  ASSUME NEW h, NEW s \in Seq(Cell), NEW t \in Seq(Cell)
  PROVE  ValueOf(h, s \o t) = ValueOf(h, s) \o ValueOf(h, t)
<1> DEFINE st == s \o t  f == ValueOf(h, st)  a == ValueOf(h, s)  b == ValueOf(h, t)  ab == a \o b
<1>1. Len(s) \in Nat /\ Len(t) \in Nat
  BY LenProperties
<1>2. /\ st \in Seq(Cell) /\ Len(st) = Len(s) + Len(t)
      /\ \A i \in 1..Len(s) + Len(t) : st[i] = IF i <= Len(s) THEN s[i] ELSE t[i - Len(s)]
  BY ConcatProperties
<1> HIDE DEF st
<1>3. /\ f \in Seq(Things(h)) /\ Len(f) = Len(st)
      /\ \A k \in 1..Len(st) : f[k] = Shown(h, st[k])
  BY <1>2, ValueSeq
<1>4. /\ a \in Seq(Things(h)) /\ Len(a) = Len(s)
      /\ \A k \in 1..Len(s) : a[k] = Shown(h, s[k])
  BY ValueSeq
<1>5. /\ b \in Seq(Things(h)) /\ Len(b) = Len(t)
      /\ \A k \in 1..Len(t) : b[k] = Shown(h, t[k])
  BY ValueSeq
<1> HIDE DEF f, a, b
<1>6. /\ ab \in Seq(Things(h)) /\ Len(ab) = Len(a) + Len(b)
      /\ \A i \in 1..Len(a) + Len(b) : ab[i] = IF i <= Len(a) THEN a[i] ELSE b[i - Len(a)]
  <2>1. a \in Seq(Things(h)) /\ b \in Seq(Things(h))
    BY <1>4, <1>5
  <2> QED BY ONLY <2>1, ConcatProperties
<1> HIDE DEF ab
<1>7. Len(f) = Len(ab)
  BY <1>2, <1>3, <1>4, <1>5, <1>6
<1>8. ASSUME NEW k \in 1..Len(f) PROVE f[k] = ab[k]
  <2>1. CASE k <= Len(s)
    <3>1. k \in 1..Len(s) /\ k \in 1..Len(st) /\ k \in 1..Len(a) + Len(b)
      BY <2>1, <1>1, <1>2, <1>3, <1>4, <1>5
    <3>2. st[k] = s[k] /\ ab[k] = a[k]
      BY <2>1, <3>1, <1>2, <1>4, <1>5, <1>6
    <3> QED BY <3>1, <3>2, <1>3, <1>4
  <2>2. CASE k > Len(s)
    <3>1. k - Len(s) \in 1..Len(t) /\ k \in 1..Len(st) /\ k \in 1..Len(a) + Len(b)
      BY <2>2, <1>1, <1>2, <1>3, <1>4, <1>5
    <3>2. st[k] = t[k - Len(s)] /\ ab[k] = b[k - Len(s)]
      BY <2>2, <3>1, <1>1, <1>2, <1>4, <1>5, <1>6
    <3> QED BY <3>1, <3>2, <1>3, <1>5
  <2> QED BY <2>1, <2>2, <1>1, <1>2, <1>3
<1>9. f = ab
  BY ONLY <1>3, <1>6, <1>7, <1>8, SeqEqual
<1> QED BY <1>9 DEF f, ab, st, a, b

LEMMA ValueOfPart ==
  ASSUME NEW h, NEW s \in Seq(Cell), NEW m \in Nat, NEW n \in Int, m >= 1, n <= Len(s)
  PROVE  ValueOf(h, SubSeq(s, m, n)) = SubSeq(ValueOf(h, s), m, n)
<1> DEFINE t == SubSeq(s, m, n)  a == ValueOf(h, s)  f == ValueOf(h, t)  b == SubSeq(a, m, n)
<1>1. Len(s) \in Nat /\ \A k \in m..n : k \in 1..Len(s)
  BY LenProperties
<1>2. /\ t \in Seq(Cell) /\ Len(t) = IF m <= n THEN n - m + 1 ELSE 0
      /\ \A k \in 1..n - m + 1 : t[k] = s[m + k - 1]
  BY <1>1, ElementOfSeq, SubSeqProperties
<1> HIDE DEF t
<1>3. /\ a \in Seq(Things(h)) /\ Len(a) = Len(s)
      /\ \A k \in 1..Len(s) : a[k] = Shown(h, s[k])
  BY ValueSeq
<1>4. /\ f \in Seq(Things(h)) /\ Len(f) = Len(t)
      /\ \A k \in 1..Len(t) : f[k] = Shown(h, t[k])
  BY <1>2, ValueSeq
<1> HIDE DEF a, f
<1>5. /\ b \in Seq(Things(h)) /\ Len(b) = IF m <= n THEN n - m + 1 ELSE 0
      /\ \A k \in 1..n - m + 1 : b[k] = a[m + k - 1]
  BY <1>1, <1>3, ElementOfSeq, SubSeqProperties
<1> HIDE DEF b
<1>6. Len(f) = Len(b)
  BY <1>2, <1>4, <1>5
<1>7. ASSUME NEW k \in 1..Len(f) PROVE f[k] = b[k]
  <2>1. k \in 1..Len(t) /\ k \in 1..n - m + 1 /\ m + k - 1 \in 1..Len(s)
    BY <1>1, <1>2, <1>4
  <2> QED BY <2>1, <1>2, <1>3, <1>4, <1>5
<1>8. f = b
  BY ONLY <1>4, <1>5, <1>6, <1>7, SeqEqual
<1> QED BY <1>8 DEF f, b, t, a

(* A list without lists in it is its value. *)
LEMMA FlatValue ==
  ASSUME NEW h, NEW cells \in Seq(Cell), NoLists(cells)
  PROVE  ValueOf(h, cells) = cells
<1> DEFINE f == ValueOf(h, cells)
<1>1. /\ f \in Seq(Things(h)) /\ Len(f) = Len(cells) /\ Len(cells) \in Nat
      /\ \A k \in 1..Len(cells) : f[k] = Shown(h, cells[k])
  BY ValueSeq
<1>2. \A k \in 1..Len(f) : f[k] = cells[k]
  BY <1>1 DEF Shown, NoLists
<1> HIDE DEF f
<1>3. f \in Seq(Things(h) \cup Cell) /\ cells \in Seq(Things(h) \cup Cell)
  BY <1>1, SeqMonotonic
<1>4. f = cells
  <2>1. Len(f) = Len(cells)
    BY <1>1
  <2> QED BY ONLY <1>2, <1>3, <2>1, SeqEqual
<1> QED BY <1>4 DEF f

-----------------------------------------------------------------------------
(* Results *)

AllFlat(h) == \A k \in 1..Len(h) : NoLists(h[k].cells)

(* r has a list of these cells, in array b or a new one, and what is       *)
(* written of the arrays there were is in array a.                         *)
Gets(r, a, b, cells) ==
  /\ HeapOK(r.heap) /\ Later(heap, r.heap) /\ SameBut(heap, r.heap, a)
  /\ SliceIn(r.heap, r.list) /\ CellsIn(r.heap, r.list) = cells
  /\ r.list.array = b \/ r.list.array > Len(heap)
  /\ AllFlat(heap) /\ NoLists(cells) => AllFlat(r.heap)

LEMMA MadeGets ==
  ASSUME HeapOK(heap), NEW typed \in BOOLEAN, NEW cells, CellsOK(heap, cells, typed), NEW cap \in Nat,
         NEW r, r = Made(cells, cap, typed), NEW a, NEW b
  PROVE  Gets(r, a, b, cells)
<1>1. r = MadeIn(heap, cells, cap, typed)
  BY DEF Made
<1>2. /\ HeapOK(r.heap) /\ Later(heap, r.heap) /\ Same(heap, r.heap)
      /\ Len(heap) \in Nat /\ Len(r.heap) = Len(heap) + 1
      /\ SliceIn(r.heap, r.list) /\ r.list.array = Len(heap) + 1
      /\ CellsIn(r.heap, r.list) = cells
      /\ NoLists(cells) => NoLists(r.heap[Len(heap) + 1].cells)
  BY <1>1, MadeIs
<1>3. ASSUME AllFlat(heap), NoLists(cells) PROVE AllFlat(r.heap)
  BY <1>2, <1>3 DEF AllFlat, Same
<1> QED BY <1>2, <1>3 DEF Gets, Same, SameBut

(* What is written over a part of an array that a list is in. *)
LEMMA WrittenCells ==
  ASSUME NEW h, HeapOK(h), NEW s, SliceIn(h, s),
         NEW cells, CellsOK(h, cells, h[s.array].typed), NEW at \in Nat, s.from <= at,
         NEW h2, h2 = WrittenIn(h, s, at, cells),
         NEW t \in Slices, t.array = s.array, t.from = s.from, s.from <= t.to,
         t.to <= Len(h[s.array].cells), at + Len(cells) <= t.to
  PROVE  /\ HeapOK(h2) /\ Later(h, h2) /\ SameBut(h, h2, s.array) /\ Len(h2) = Len(h)
         /\ SliceIn(h2, t) /\ Len(CellsIn(h2, t)) = t.to - s.from /\ CellsIn(h2, t) \in Seq(Cell)
         /\ \A k \in 1..(t.to - s.from) :
              CellsIn(h2, t)[k] = Over(cells, at, h[s.array].cells, s.from + k)
         /\ AllFlat(h) /\ NoLists(cells) => AllFlat(h2)
<1>1. /\ h \in Seq(Array) /\ Len(h) \in Nat
      /\ s \in Slices /\ s.array \in 1..Len(h) /\ s.from \in Nat
      /\ Len(h[s.array].cells) \in Nat
  BY SliceParts
<1>2. cells \in Seq(Cell) /\ Len(cells) \in Nat /\ t.to \in Nat
  BY LenProperties DEF CellsOK, Slices
<1>3. at + Len(cells) <= Len(h[s.array].cells)
  BY <1>1, <1>2
<1>4. /\ HeapOK(h2) /\ Later(h, h2) /\ SameBut(h, h2, s.array) /\ Len(h2) = Len(h)
      /\ \A k \in 1..Len(h[s.array].cells) :
           h2[s.array].cells[k] = Over(cells, at, h[s.array].cells, k)
  BY <1>1, <1>2, <1>3, WrittenIs
<1>6. SliceIn(h2, t)
  BY <1>1, <1>4 DEF SliceIn, Later
<1>7. /\ CellsOK(h2, CellsIn(h2, t), h2[t.array].typed)
      /\ Len(CellsIn(h2, t)) = t.to - t.from
      /\ \A k \in 1..(t.to - t.from) : CellsIn(h2, t)[k] = h2[t.array].cells[t.from + k]
  BY ONLY <1>4, <1>6, CellsOfSlice
<1>5. t.to <= Len(h[s.array].cells) /\ t.array = s.array /\ t.from = s.from
  OBVIOUS
<1> DEFINE top == Len(h[s.array].cells)  d == CellsIn(h2, t)
<1> HIDE DEF top, d
<1>8. ASSUME NEW k \in 1..(t.to - s.from) PROVE k \in Nat /\ s.from + k \in 1..top
  <2>1. s.from \in Nat /\ t.to \in Nat /\ t.to <= top /\ top \in Nat
    BY <1>1, <1>2, <1>5 DEF top
  <2> QED BY ONLY <2>1, <1>8
<1>9. ASSUME NEW k \in 1..(t.to - s.from)
      PROVE  d[k] = Over(cells, at, h[s.array].cells, s.from + k)
  <2>1. d[k] = h2[s.array].cells[s.from + k]
    BY <1>5, <1>7 DEF d
  <2>2. s.from + k \in 1..Len(h[s.array].cells)
    BY <1>8 DEF top
  <2> QED BY ONLY <1>4, <2>1, <2>2
<1>10. ASSUME AllFlat(h), NoLists(cells) PROVE AllFlat(h2)
  <2>1. Len(h2[s.array].cells) = Len(h[s.array].cells)
    BY <1>1, <1>4 DEF Later
  <2>2. \A k \in 1..Len(h[s.array].cells) : ~IsList(h2[s.array].cells[k])
    <3> SUFFICES ASSUME NEW k \in 1..Len(h[s.array].cells) PROVE ~IsList(h2[s.array].cells[k])
      OBVIOUS
    <3>1. ~IsList(h[s.array].cells[k])
      <4>1. NoLists(h[s.array].cells)
        BY <1>1, <1>10 DEF AllFlat
      <4> QED BY <4>1 DEF NoLists
    <3>2. k \in at + 1..at + Len(cells) => k - at \in 1..Len(cells)
      BY <1>1, <1>2
    <3>3. k \in at + 1..at + Len(cells) => ~IsList(cells[k - at])
      BY <1>10, <3>2 DEF NoLists
    <3> QED BY ONLY <1>4, <3>1, <3>3 DEF Over
  <2>3. NoLists(h2[s.array].cells)
    BY <2>1, <2>2 DEF NoLists
  <2> QED BY <1>4, <1>10, <2>3 DEF AllFlat, SameBut
<1>11. Len(d) = t.to - s.from /\ d \in Seq(Cell)
  BY ONLY <1>5, <1>7 DEF CellsOK, d
<1> QED BY <1>4, <1>6, <1>9, <1>10, <1>11 DEF d

LEMMA Extended ==
  ASSUME NEW h, HeapOK(h), NEW s, SliceIn(h, s), NEW cells, CellsOK(h, cells, h[s.array].typed),
         NEW t \in Slices, t.array = s.array, t.from = s.from, t.to = s.to + Len(cells),
         t.to <= Len(h[s.array].cells),
         NEW h2, h2 = WrittenIn(h, s, s.to, cells)
  PROVE  /\ HeapOK(h2) /\ Later(h, h2) /\ SameBut(h, h2, s.array) /\ Len(h2) = Len(h)
         /\ SliceIn(h2, t) /\ CellsIn(h2, t) = CellsIn(h, s) \o cells
         /\ AllFlat(h) /\ NoLists(cells) => AllFlat(h2)
<1> DEFINE old == CellsIn(h, s)  c == CellsIn(h2, t)  base == h[s.array].cells
<1>1. s.from \in Nat /\ s.to \in Nat /\ s.from <= s.to /\ Len(base) \in Nat
  BY SliceParts
<1>2. cells \in Seq(Cell) /\ Len(cells) \in Nat
  BY LenProperties DEF CellsOK
<1>3. /\ old \in Seq(Cell) /\ Len(old) = s.to - s.from
      /\ \A k \in 1..(s.to - s.from) : old[k] = base[s.from + k]
  BY CellsOfSlice DEF CellsOK
<1>4. s.from <= s.to /\ s.from <= t.to /\ s.to + Len(cells) <= t.to
  BY <1>1, <1>2
<1>5. /\ HeapOK(h) /\ SliceIn(h, s) /\ CellsOK(h, cells, h[s.array].typed) /\ t \in Slices
      /\ t.array = s.array /\ t.from = s.from /\ t.to <= Len(h[s.array].cells)
      /\ h2 = WrittenIn(h, s, s.to, cells)
  OBVIOUS
<1>6. /\ HeapOK(h2) /\ Later(h, h2) /\ SameBut(h, h2, s.array) /\ Len(h2) = Len(h)
      /\ SliceIn(h2, t) /\ Len(CellsIn(h2, t)) = t.to - s.from /\ CellsIn(h2, t) \in Seq(Cell)
      /\ \A k \in 1..(t.to - s.from) :
           CellsIn(h2, t)[k] = Over(cells, s.to, h[s.array].cells, s.from + k)
      /\ AllFlat(h) /\ NoLists(cells) => AllFlat(h2)
  BY ONLY <1>1, <1>4, <1>5, WrittenCells
<1> HIDE DEF old, c, base
<1>7. c \in Seq(Cell) /\ Len(c) = s.to + Len(cells) - s.from
  <2>1. t.to = s.to + Len(cells)
    OBVIOUS
  <2>2. c \in Seq(Cell) /\ Len(c) = t.to - s.from
    BY ONLY <1>6 DEF c
  <2> QED BY ONLY <1>1, <1>2, <2>1, <2>2
<1>8. \A k \in 1..Len(c) : c[k] = Over(cells, s.to, base, s.from + k)
  BY ONLY <1>6 DEF c, base
<1>9. c = old \o cells
  <2> DEFINE lo == s.from  hi == s.to  new == old \o cells  n == Len(cells)
  <2>1. /\ lo \in Nat /\ hi \in Nat /\ lo <= hi /\ n \in Nat
        /\ Len(old) = hi - lo /\ Len(c) = hi + n - lo
        /\ \A k \in 1..(hi - lo) : old[k] = base[lo + k]
    BY ONLY <1>1, <1>2, <1>3, <1>7
  <2>2. /\ new \in Seq(Cell) /\ Len(new) = Len(old) + n
        /\ \A i \in 1..Len(old) + n : new[i] = IF i <= Len(old) THEN old[i] ELSE cells[i - Len(old)]
    <3>1. old \in Seq(Cell) /\ cells \in Seq(Cell)
      BY <1>2, <1>3
    <3> QED BY ONLY <3>1, ConcatProperties
  <2>3. \A k \in 1..Len(c) : c[k] = Over(cells, hi, base, lo + k)
    BY ONLY <1>8
  <2> HIDE DEF lo, hi, new, n
  <2>4. ASSUME NEW k \in 1..Len(c) PROVE c[k] = new[k]
    <3>1. k \in 1..Len(old) + n
      BY <2>1
    <3>2. CASE k <= hi - lo
      <4>1. k \in 1..(hi - lo) /\ lo + k \notin hi + 1..hi + n
        BY <2>1, <3>2
      <4>2. new[k] = old[k] /\ c[k] = base[lo + k]
        BY <2>1, <2>2, <2>3, <3>1, <3>2, <4>1 DEF Over, n
      <4> QED BY <2>1, <4>1, <4>2
    <3>3. CASE k > hi - lo
      <4>1. lo + k \in hi + 1..hi + n /\ lo + k - hi = k - Len(old)
        BY <2>1, <3>3
      <4>2. new[k] = cells[k - Len(old)] /\ c[k] = cells[k - Len(old)]
        BY <2>1, <2>2, <2>3, <3>1, <3>3, <4>1 DEF Over, n
      <4> QED BY <4>2
    <3> QED BY <2>1, <3>2, <3>3
  <2>5. Len(c) = Len(new)
    BY <2>1, <2>2
  <2> QED BY ONLY <1>7, <2>2, <2>4, <2>5, SeqEqual DEF new
<1> QED BY <1>6, <1>9 DEF c, old


LEMMA AppendedGets ==
  ASSUME HeapOK(heap), NEW s, SliceIn(heap, s), NEW cells, CellsOK(heap, cells, Typed(s)),
         NEW r, r = Appended(s, cells)
  PROVE  Gets(r, s.array, s.array, CellsIn(heap, s) \o cells)
<1> DEFINE old == CellsIn(heap, s)  new == old \o cells  n == Len(cells)
           base == heap[s.array].cells
<1>1. /\ s \in Slices /\ s.from \in Nat /\ s.to \in Nat /\ s.from <= s.to
      /\ Len(base) \in Nat /\ s.to <= Len(base)
  BY SliceParts
<1>2. Typed(s) \in BOOLEAN /\ Typed(s) = heap[s.array].typed
  BY SliceParts DEF Typed
<1>3. CellsOK(heap, old, Typed(s))
  BY <1>2, CellsOfSlice
<1>4. cells \in Seq(Cell) /\ n \in Nat
  BY LenProperties DEF CellsOK
<1>5. CellsOK(heap, new, Typed(s))
  BY <1>3, JoinedCells
<1>6. CapOf(s) = Len(base) - s.from /\ CapOf(s) \in Nat /\ LenOf(s) = s.to - s.from /\ LenOf(s) \in Nat
  BY ONLY <1>1 DEF CapOf, LenOf
<1> HIDE DEF n, base
<1>7. CASE LenOf(s) + n <= CapOf(s)
  <2> DEFINE t == [s EXCEPT !.to = @ + n]  h2 == WrittenIn(heap, s, s.to, cells)
  <2>1. r = [heap |-> h2, list |-> t]
    BY <1>7, WrittenHere DEF Appended, n
  <2>2. t \in Slices /\ t.array = s.array /\ t.from = s.from /\ t.to = s.to + n
    BY <1>1, <1>4 DEF Slices
  <2> HIDE DEF t, h2
  <2>3. t.to <= Len(base)
    BY ONLY <1>1, <1>4, <1>6, <1>7, <2>2
  <2>4. h2 = WrittenIn(heap, s, s.to, cells)
    BY DEF h2
  <2>5. HeapOK(heap) /\ SliceIn(heap, s) /\ CellsOK(heap, cells, heap[s.array].typed)
    BY <1>2
  <2>10. t.to <= Len(heap[s.array].cells)
    BY <2>3 DEF base
  <2>6. /\ HeapOK(h2) /\ Later(heap, h2) /\ SameBut(heap, h2, s.array)
        /\ SliceIn(h2, t) /\ CellsIn(h2, t) = new
        /\ AllFlat(heap) /\ NoLists(cells) => AllFlat(h2)
    BY ONLY <2>2, <2>4, <2>5, <2>10, Extended DEF n
  <2>7. NoLists(new) => NoLists(cells)
    BY <1>3, <1>4, JoinedFlat DEF CellsOK
  <2> HIDE DEF new
  <2>8. r.heap = h2 /\ r.list = t
    BY ONLY <2>1
  <2> QED BY ONLY <2>2, <2>6, <2>7, <2>8 DEF Gets, new
<1>8. CASE ~(LenOf(s) + n <= CapOf(s))
  <2> DEFINE cap == Larger(CapOf(s), LenOf(s) + n, Typed(s))
  <2>1. r = Made(new, cap, Typed(s))
    BY <1>8 DEF Appended, Cells, CellsIn, n
  <2>2. cap \in Nat
    <3>1. 2 * CapOf(s) \in Nat /\ LenOf(s) + n \in Nat
      BY <1>4, <1>6
    <3>2. \A c \in Nat : Rounded(c, Typed(s)) \in Nat
      BY DEF Rounded
    <3> QED BY <3>1, <3>2 DEF Larger
  <2> HIDE DEF cap, new
  <2>3. Gets(r, s.array, s.array, new)
    BY <1>2, <1>5, <2>1, <2>2, MadeGets
  <2> QED BY <2>3 DEF new, old
<1> QED BY <1>7, <1>8

LEMMA ShowsGets ==
  ASSUME HeapOK(heap), NEW s, SliceIn(heap, s), NEW a,
         NEW r, r.heap = heap, r.list = s
  PROVE  Gets(r, a, s.array, CellsIn(heap, s))
<1>1. Later(heap, heap)
  BY LaterSelf DEF HeapOK
<1> QED BY <1>1 DEF Gets, SameBut

LEMMA PartCells ==
  ASSUME HeapOK(heap), NEW s, SliceIn(heap, s), NEW i \in Nat, NEW j \in Nat, i <= j, j <= LenOf(s),
         NEW t, t = Slice(s.array, s.from + i, s.from + j)
  PROVE  SliceIn(heap, t) /\ CellsIn(heap, t) = SubSeq(CellsIn(heap, s), i + 1, j)
<1> DEFINE old == CellsIn(heap, s)  base == heap[s.array].cells
           c == CellsIn(heap, t)  d == SubSeq(old, i + 1, j)  m == i + 1
<1>1. /\ s \in Slices /\ s.from \in Nat /\ s.to \in Nat /\ s.from <= s.to /\ s.array \in 1..Len(heap)
      /\ Len(base) \in Nat /\ s.to <= Len(base) /\ s.array \in Nat
  BY SliceParts
<1>2. t \in Slices /\ t.array = s.array /\ t.from = s.from + i /\ t.to = s.from + j
  BY <1>1 DEF Slice, Slices
<1>3. j <= s.to - s.from
  BY DEF LenOf
<1>4. SliceIn(heap, t)
  <2>1. t.from <= t.to /\ t.to <= Len(base)
    BY ONLY <1>1, <1>2, <1>3, i \in Nat, j \in Nat, i <= j
  <2> QED BY ONLY <1>1, <1>2, <2>1 DEF SliceIn
<1>5. /\ old \in Seq(Cell) /\ Len(old) = s.to - s.from
      /\ \A k \in 1..(s.to - s.from) : old[k] = base[s.from + k]
  BY CellsOfSlice DEF CellsOK
<1>6. /\ c \in Seq(Cell) /\ Len(c) = t.to - t.from
      /\ \A k \in 1..(t.to - t.from) : c[k] = base[t.from + k]
  BY <1>2, <1>4, CellsOfSlice DEF CellsOK
<1> HIDE DEF c, old, base
<1>7. m \in Nat /\ m >= 1 /\ j <= Len(old) /\ d = SubSeq(old, m, j)
  BY <1>1, <1>3, <1>5
<1> HIDE DEF m, d
<1>8. /\ d \in Seq(Cell) /\ Len(d) = IF m <= j THEN j - m + 1 ELSE 0
      /\ \A k \in 1..Len(d) : d[k] = old[m + k - 1] /\ m + k - 1 \in 1..Len(old)
  BY ONLY <1>5, <1>7, j \in Nat, PartOf
<1>9. Len(d) = Len(c)
  BY <1>1, <1>2, <1>6, <1>8 DEF m
<1>10. ASSUME NEW k \in 1..Len(c) PROVE c[k] = d[k]
  <2>1. d[k] = old[i + k] /\ i + k \in 1..(s.to - s.from) /\ s.from + (i + k) = t.from + k
    <3>1. k \in Nat /\ k \in 1..Len(d)
      BY <1>1, <1>2, <1>6, <1>9
    <3>2. m + k - 1 = i + k
      BY <1>1, <3>1 DEF m
    <3> QED BY <1>1, <1>2, <1>5, <1>8, <3>1, <3>2
  <2>2. c[k] = base[t.from + k]
    BY <1>6
  <2>3. old[i + k] = base[s.from + (i + k)]
    BY <1>5, <2>1
  <2> QED BY <2>1, <2>2, <2>3
<1>11. c = d
  BY ONLY <1>6, <1>8, <1>9, <1>10, SeqEqual
<1> QED BY <1>4, <1>11 DEF c, d, old, m

(* A list written over where it is. *)
LEMMA InPlaceGets ==
  ASSUME HeapOK(heap), NEW s, SliceIn(heap, s), NEW cells, CellsOK(heap, cells, Typed(s)),
         NEW i \in Nat, i + Len(cells) <= LenOf(s),
         NEW h2, h2 = Written(s, s.from + i, cells),
         NEW new \in Seq(Cell), Len(new) = LenOf(s),
         \A k \in 1..LenOf(s) : new[k] = Over(cells, i, CellsIn(heap, s), k),
         NEW r, r.heap = h2, r.list = s
  PROVE  Gets(r, s.array, s.array, new)
<1> DEFINE old == CellsIn(heap, s)  base == heap[s.array].cells  at == s.from + i  c == CellsIn(h2, s)
<1>1. /\ s \in Slices /\ s.from \in Nat /\ s.to \in Nat /\ s.from <= s.to /\ s.array \in 1..Len(heap)
      /\ Len(base) \in Nat /\ s.to <= Len(base) /\ LenOf(s) = s.to - s.from
  BY SliceParts DEF LenOf
<1>2. cells \in Seq(Cell) /\ Len(cells) \in Nat
  BY LenProperties DEF CellsOK
<1>3. /\ Len(old) = s.to - s.from
      /\ \A k \in 1..(s.to - s.from) : old[k] = base[s.from + k]
  BY CellsOfSlice
<1>4. /\ HeapOK(heap) /\ SliceIn(heap, s) /\ CellsOK(heap, cells, heap[s.array].typed)
      /\ s \in Slices /\ s.array = s.array /\ s.from = s.from
      /\ s.to <= Len(heap[s.array].cells) /\ h2 = WrittenIn(heap, s, at, cells)
  BY <1>1, WrittenHere DEF Typed
<1>5. at \in Nat /\ s.from <= at /\ s.from <= s.to /\ at + Len(cells) <= s.to
  BY <1>1, <1>2
<1> HIDE DEF at
<1>6. /\ HeapOK(h2) /\ Later(heap, h2) /\ SameBut(heap, h2, s.array)
      /\ SliceIn(h2, s) /\ Len(CellsIn(h2, s)) = s.to - s.from /\ CellsIn(h2, s) \in Seq(Cell)
      /\ \A k \in 1..(s.to - s.from) :
           CellsIn(h2, s)[k] = Over(cells, at, heap[s.array].cells, s.from + k)
      /\ AllFlat(heap) /\ NoLists(cells) => AllFlat(h2)
  BY ONLY <1>4, <1>5, WrittenCells
<1> HIDE DEF old, base, c
<1>7. ASSUME NEW k \in 1..LenOf(s) PROVE c[k] = new[k]
  <2>1. c[k] = Over(cells, at, base, s.from + k) /\ new[k] = Over(cells, i, old, k) /\ old[k] = base[s.from + k]
    BY <1>1, <1>3, <1>6 DEF base, c, old
  <2>2. k \in Nat /\ at = s.from + i
    BY <1>1 DEF at
  <2>5. /\ k \in i + 1..i + Len(cells) <=> s.from + k \in at + 1..at + Len(cells)
        /\ (s.from + k) - at = k - i
    <3> DEFINE lo == s.from  n == Len(cells)
    <3>1. lo \in Nat /\ n \in Nat /\ k \in Nat /\ i \in Nat
      BY <1>1, <1>2, <2>2
    <3> HIDE DEF lo, n
    <3>2. /\ k \in i + 1..i + n <=> lo + k \in (lo + i) + 1..(lo + i) + n
          /\ (lo + k) - (lo + i) = k - i
      BY ONLY <3>1
    <3> QED BY ONLY <3>2, <2>2 DEF lo, n
  <2>3. CASE k \in i + 1..i + Len(cells)
    <3>1. s.from + k \in at + 1..at + Len(cells) /\ (s.from + k) - at = k - i
      BY ONLY <2>3, <2>5
    <3>2. Over(cells, at, base, s.from + k) = cells[(s.from + k) - at]
      BY ONLY <3>1 DEF Over
    <3>3. Over(cells, i, old, k) = cells[k - i]
      BY ONLY <2>3 DEF Over
    <3> QED BY ONLY <2>1, <3>1, <3>2, <3>3
  <2>4. CASE k \notin i + 1..i + Len(cells)
    <3>1. s.from + k \notin at + 1..at + Len(cells)
      BY ONLY <2>4, <2>5
    <3>2. Over(cells, at, base, s.from + k) = base[s.from + k]
      BY ONLY <3>1 DEF Over
    <3>3. Over(cells, i, old, k) = old[k]
      BY ONLY <2>4 DEF Over
    <3> QED BY ONLY <2>1, <3>2, <3>3
  <2> QED BY <2>3, <2>4
<1>8. c = new
  <2>1. c \in Seq(Cell) /\ Len(c) = Len(new)
    BY <1>1, <1>6 DEF c
  <2>2. \A k \in 1..Len(c) : c[k] = new[k]
    BY <1>1, <1>7, <2>1
  <2> QED BY ONLY new \in Seq(Cell), <2>1, <2>2, SeqEqual
<1>9. NoLists(new) => NoLists(cells)
  <2> SUFFICES ASSUME NoLists(new), NEW k \in 1..Len(cells) PROVE ~IsList(cells[k])
    BY DEF NoLists
  <2>1. k \in Nat /\ i + k \in 1..LenOf(s) /\ i + k \in i + 1..i + Len(cells) /\ (i + k) - i = k
    BY <1>1, <1>2
  <2>2. new[i + k] = cells[k]
    BY <2>1 DEF Over
  <2> QED BY <2>1, <2>2 DEF NoLists
<1>10. r.heap = h2 /\ r.list = s
  OBVIOUS
<1> QED BY ONLY <1>6, <1>8, <1>9, <1>10 DEF Gets, c

-----------------------------------------------------------------------------
(* Statements *)

TypeOK ==
  /\ HeapOK(heap)
  /\ lists \in [Vars -> Slices \cup {None}]
  /\ \A v \in Vars : lists[v] # None => SliceIn(heap, lists[v])
  /\ SliceIn(heap, TheRange)
  /\ owned \in BOOLEAN

(* A statement that can be made. *)
Ready(st) == TypeOK /\ st \in Statements /\ \A v \in Vars : lists[v] # None

LEMMA ListIs ==
  ASSUME HeapOK(heap), NEW s, SliceIn(heap, s)
  PROVE  /\ Cells(s) = CellsIn(heap, s) /\ Cells(s) \in Seq(Cell)
         /\ Typed(s) \in BOOLEAN /\ CellsOK(heap, Cells(s), Typed(s))
         /\ Len(Cells(s)) = LenOf(s) /\ LenOf(s) \in Nat /\ DOMAIN Cells(s) = 1..LenOf(s)
         /\ CapOf(s) \in Nat /\ LenOf(s) <= CapOf(s)
         /\ AllFlat(heap) => NoLists(Cells(s))
<1> DEFINE base == heap[s.array].cells
<1>1. /\ s.from \in Nat /\ s.to \in Nat /\ s.from <= s.to /\ s.array \in 1..Len(heap)
      /\ Len(base) \in Nat /\ s.to <= Len(base) /\ heap[s.array].typed \in BOOLEAN
  BY SliceParts
<1>2. Cells(s) = CellsIn(heap, s) /\ Typed(s) = heap[s.array].typed
  BY DEF Cells, CellsIn, Typed
<1>3. /\ CellsOK(heap, CellsIn(heap, s), heap[s.array].typed)
      /\ Len(CellsIn(heap, s)) = s.to - s.from
      /\ \A k \in 1..(s.to - s.from) : CellsIn(heap, s)[k] = base[s.from + k] /\ s.from + k \in 1..Len(base)
  BY CellsOfSlice
<1>4. /\ LenOf(s) = s.to - s.from /\ LenOf(s) \in Nat
      /\ CapOf(s) = Len(base) - s.from /\ CapOf(s) \in Nat /\ LenOf(s) <= CapOf(s)
  <2> DEFINE from == s.from  to == s.to  size == Len(base)
  <2>1. LenOf(s) = to - from /\ CapOf(s) = size - from
    BY DEF LenOf, CapOf
  <2>2. from \in Nat /\ to \in Nat /\ size \in Nat /\ from <= to /\ to <= size
    BY <1>1
  <2> HIDE DEF from, to, size
  <2>3. to - from \in Nat /\ size - from \in Nat /\ to - from <= size - from
    BY ONLY <2>2
  <2> QED BY ONLY <2>1, <2>3 DEF from, to, size
<1> DEFINE c == CellsIn(heap, s)
<1> HIDE DEF c, base
<1>5. c \in Seq(Cell) /\ DOMAIN c = 1..Len(c)
  BY <1>3, LenProperties DEF CellsOK, c
<1>6. AllFlat(heap) => NoLists(c)
  BY ONLY <1>1, <1>3 DEF AllFlat, NoLists, c, base
<1> QED BY ONLY <1>1, <1>2, <1>3, <1>4, <1>5, <1>6 DEF c

LEMMA Operands ==
  ASSUME NEW st, Ready(st)
  PROVE  /\ HeapOK(heap) /\ SliceIn(heap, w(st)) /\ SliceIn(heap, lists[st.x])
         /\ st.v \in Vars /\ st.w \in Vars /\ st.x \in Vars
         /\ st.i \in Nat /\ st.j \in Nat /\ st.n \in Nat
BY ListsAssumption DEF Ready, TypeOK, w

(* The array that a statement may write into, if it is one that was there. *)
Target(st) == IF st.op \in Writers THEN w(st).array ELSE 0

(* A statement that gives its variable these cells, in array b or in a new *)
(* one.                                                                    *)
Does(st, b, cells) == \E r : Gives(st, r) /\ Gets(r, Target(st), b, cells)

LEMMA ShowsDoes ==
  ASSUME NEW st, HeapOK(heap), NEW s, SliceIn(heap, s), Shows(st, s)
  PROVE  Does(st, s.array, Cells(s))
<1> DEFINE r == [heap |-> heap, list |-> s]
<1>1. Gives(st, r) /\ r.heap = heap /\ r.list = s
  BY DEF Shows
<1> HIDE DEF r
<1>2. Gets(r, Target(st), s.array, Cells(s))
  BY <1>1, ShowsGets, ListIs
<1> QED BY <1>1, <1>2 DEF Does

LEMMA MadeDoes ==
  ASSUME NEW st, HeapOK(heap), NEW typed \in BOOLEAN, NEW cells, CellsOK(heap, cells, typed), NEW cap \in Nat,
         Gives(st, Made(cells, cap, typed)), NEW b
  PROVE  Does(st, b, cells)
<1> DEFINE r == Made(cells, cap, typed)
<1>1. Gets(r, Target(st), b, cells)
  BY MadeGets
<1> QED BY <1>1 DEF Does

LEMMA AppendedDoes ==
  ASSUME NEW st, st.op \in Writers, HeapOK(heap), SliceIn(heap, w(st)),
         NEW cells, CellsOK(heap, cells, Typed(w(st))), Gives(st, Appended(w(st), cells))
  PROVE  Does(st, w(st).array, Cells(w(st)) \o cells)
<1> DEFINE s == w(st)  r == Appended(s, cells)
<1> HIDE DEF s
<1>1. Gets(r, s.array, s.array, CellsIn(heap, s) \o cells)
  BY AppendedGets DEF s
<1>2. CellsIn(heap, s) = Cells(s)
  BY DEF CellsIn, Cells
<1> QED BY <1>1, <1>2 DEF Does, Target, s

-----------------------------------------------------------------------------
(* One lemma for each operation: what list its variable gets, and whether  *)
(* in an array that was there.                                             *)

LEMMA GrownIs ==
  ASSUME NEW cap \in Nat, NEW len \in Nat, NEW typed \in BOOLEAN
  PROVE  Grown(cap, len, typed) \in Nat
BY DEF Grown, Larger, Rounded

LEMMA NumberCell ==
  ASSUME NEW h, NEW typed, NEW n \in Nat
  PROVE  CellIn(h, Number(n), typed) /\ CellIn(h, Text(n), FALSE)
BY CellParts DEF CellIn

LEMMA literalDoes ==
  ASSUME NEW st, Ready(st), literal(st)
  PROVE  Does(st, 0, <<Number(st.n)>>)
<1> DEFINE c == <<Number(st.n)>>
<1>1. HeapOK(heap) /\ CellsOK(heap, c, FALSE)
  BY Operands, NumberCell, OneCell
<1>2. Gives(st, Made(c, 1, FALSE))
  BY DEF literal
<1> HIDE DEF c
<1>3. Does(st, 0, c)
  BY ONLY <1>1, <1>2, MadeDoes
<1> QED BY <1>3 DEF c

LEMMA rangeDoes ==
  ASSUME NEW st, Ready(st), range(st)
  PROVE  Does(st, 1, Cells(TheRange))
<1>1. SliceIn(heap, TheRange) /\ HeapOK(heap) /\ TheRange.array = 1
  BY DEF Ready, TypeOK, TheRange, Slice
<1>2. Shows(st, TheRange)
  BY DEF range
<1> QED BY ONLY <1>1, <1>2, ShowsDoes

LEMMA assignDoes ==
  ASSUME NEW st, Ready(st), assign(st)
  PROVE  Does(st, w(st).array, Cells(w(st)))
BY Operands, ShowsDoes DEF assign

LEMMA nestDoes ==
  ASSUME NEW st, Ready(st), nest(st)
  PROVE  /\ Does(st, 0, <<Item(w(st)), Item(lists[st.x])>>)
         /\ NoLists(Cells(w(st))) /\ NoLists(Cells(lists[st.x]))
<1> DEFINE s == w(st)  t == lists[st.x]  c == <<Item(s), Item(t)>>  one == <<Item(s)>>  two == <<Item(t)>>
<1>1. HeapOK(heap) /\ SliceIn(heap, s) /\ SliceIn(heap, t)
  BY Operands
<1>2. Gives(st, Made(c, 2, FALSE))
  BY DEF nest
<1>3. NoLists(Cells(s)) /\ NoLists(Cells(t))
  <2>1. Flat(s) /\ Flat(t)
    BY DEF nest
  <2> HIDE DEF s, t
  <2> QED BY <1>1, <2>1, ListIs DEF Flat, NoLists
<1> HIDE DEF s, t
<1>4. CellIn(heap, Item(s), FALSE) /\ CellIn(heap, Item(t), FALSE)
  BY <1>1, CellParts DEF CellIn, SliceIn
<1>5. CellsOK(heap, one, FALSE) /\ CellsOK(heap, two, FALSE)
  BY ONLY <1>4, OneCell
<1>6. c = one \o two
  BY Z3
<1> HIDE DEF one, two
<1>7. CellsOK(heap, c, FALSE)
  BY ONLY <1>5, <1>6, JoinedCells
<1> HIDE DEF c
<1>8. Does(st, 0, c)
  BY ONLY <1>1, <1>2, <1>7, MadeDoes
<1> QED BY <1>3, <1>8 DEF s, t, c

LEMMA elementDoes ==
  ASSUME NEW st, Ready(st), element(st), NEW c, c = Cells(w(st))[st.i + 1]
  PROVE  /\ st.i + 1 \in 1..LenOf(w(st)) /\ IsList(c) /\ SliceIn(heap, c[2])
         /\ Does(st, c[2].array, Cells(c[2]))
<1> DEFINE s == w(st)
<1>1. HeapOK(heap) /\ SliceIn(heap, s) /\ st.i \in Nat
  BY Operands
<1>2. st.i < LenOf(s) /\ IsList(c) /\ Shows(st, c[2])
  BY DEF element
<1> HIDE DEF s
<1>3. st.i + 1 \in 1..LenOf(s)
  BY <1>1, <1>2, ListIs
<1>4. CellIn(heap, c, Typed(s))
  <2>1. CellsOK(heap, Cells(s), Typed(s)) /\ Len(Cells(s)) = LenOf(s)
    BY <1>1, ListIs
  <2>2. c = Cells(s)[st.i + 1]
    BY DEF s
  <2> QED BY ONLY <1>3, <2>1, <2>2 DEF CellsOK
<1>5. SliceIn(heap, c[2])
  BY <1>2, <1>4 DEF CellIn
<1>6. Does(st, c[2].array, Cells(c[2]))
  BY ONLY <1>1, <1>2, <1>5, ShowsDoes
<1> QED BY <1>2, <1>3, <1>5, <1>6 DEF s

LEMMA sliceDoes ==
  ASSUME NEW st, Ready(st), slice(st)
  PROVE  /\ st.i <= st.j /\ st.j <= LenOf(w(st))
         /\ Does(st, w(st).array, SubSeq(Cells(w(st)), st.i + 1, st.j))
<1> DEFINE s == w(st)  i == st.i  j == st.j  t == Slice(s.array, s.from + i, s.from + j)
<1>1. HeapOK(heap) /\ SliceIn(heap, s) /\ i \in Nat /\ j \in Nat
  BY Operands
<1>2. i <= j /\ j <= LenOf(s) /\ Shows(st, t)
  BY DEF slice
<1>3. t = Slice(s.array, s.from + i, s.from + j) /\ t.array = s.array
  BY DEF Slice
<1> HIDE DEF s, i, j, t
<1>4. SliceIn(heap, t) /\ CellsIn(heap, t) = SubSeq(CellsIn(heap, s), i + 1, j)
  BY ONLY <1>1, <1>2, <1>3, PartCells
<1>5. Does(st, t.array, Cells(t))
  BY ONLY <1>1, <1>2, <1>4, ShowsDoes
<1>6. Cells(t) = SubSeq(Cells(s), i + 1, j)
  BY <1>4 DEF Cells, CellsIn
<1> QED BY <1>2, <1>3, <1>5, <1>6 DEF s, i, j

LEMMA tailDoes ==
  ASSUME NEW st, Ready(st), tail(st)
  PROVE  Does(st, w(st).array, SubSeq(Cells(w(st)), 2, LenOf(w(st))))
<1> DEFINE s == w(st)  c == Cells(s)  d == SubSeq(c, 2, LenOf(s))
<1>1. HeapOK(heap) /\ SliceIn(heap, s)
  BY Operands
<1>2. IF LenOf(s) = 0 THEN Gives(st, Made(<<>>, 0, Typed(s))) ELSE Shows(st, [s EXCEPT !.from = @ + 1])
  BY DEF tail
<1> HIDE DEF s
<1>3. /\ c \in Seq(Cell) /\ Typed(s) \in BOOLEAN /\ CellsOK(heap, c, Typed(s))
      /\ Len(c) = LenOf(s) /\ LenOf(s) \in Nat
  BY <1>1, ListIs
<1>4. CASE LenOf(s) = 0
  <2>1. CellsOK(heap, d, Typed(s))
    BY <1>3, PartOfCells
  <2>2. d = <<>>
    BY <1>3, <1>4, SubSeqEmpty
  <2>3. Gives(st, Made(d, 0, Typed(s)))
    BY <1>2, <1>4, <2>2
  <2> HIDE DEF d
  <2>4. Does(st, s.array, d)
    BY ONLY <1>1, <1>3, <2>1, <2>3, MadeDoes
  <2> QED BY <2>4 DEF s, d
<1>5. CASE LenOf(s) # 0
  <2> DEFINE n == LenOf(s)  one == 1  t == Slice(s.array, s.from + one, s.from + n)
  <2>1. s \in Slices /\ s.from \in Nat /\ s.to \in Nat /\ s.from <= s.to
    BY <1>1, SliceParts
  <2>2. t = [s EXCEPT !.from = @ + 1] /\ t.array = s.array
    BY <2>1 DEF Slice, Slices, LenOf
  <2>3. Shows(st, t)
    BY <1>2, <1>5, <2>2
  <2>4. t = Slice(s.array, s.from + one, s.from + n) /\ one \in Nat /\ n \in Nat /\ one <= n /\ n <= LenOf(s)
    BY <1>3, <1>5
  <2> HIDE DEF t, one, n
  <2>5. SliceIn(heap, t) /\ CellsIn(heap, t) = SubSeq(CellsIn(heap, s), one + 1, n)
    BY ONLY <1>1, <2>4, PartCells
  <2>6. Does(st, t.array, Cells(t))
    BY ONLY <1>1, <2>3, <2>5, ShowsDoes
  <2>7. Cells(t) = SubSeq(Cells(s), 2, n)
    <3>1. Cells(t) = CellsIn(heap, t) /\ Cells(s) = CellsIn(heap, s)
      BY DEF Cells, CellsIn
    <3>2. one + 1 = 2
      BY DEF one
    <3> QED BY ONLY <2>5, <3>1, <3>2
  <2> QED BY <2>2, <2>6, <2>7 DEF s, n
<1> QED BY <1>4, <1>5

LEMMA popDoes ==
  ASSUME NEW st, Ready(st), pop(st)
  PROVE  /\ LenOf(w(st)) > 0
         /\ Does(st, w(st).array, SubSeq(Cells(w(st)), 1, LenOf(w(st)) - 1))
<1> DEFINE s == w(st)  zero == 0  n == LenOf(s) - 1  t == Slice(s.array, s.from + zero, s.from + n)
<1>1. HeapOK(heap) /\ SliceIn(heap, s)
  BY Operands
<1>2. LenOf(s) > 0 /\ Shows(st, [s EXCEPT !.to = @ - 1])
  BY DEF pop
<1> HIDE DEF s
<1>3. LenOf(s) \in Nat
  BY <1>1, ListIs
<1>4. s \in Slices /\ s.from \in Nat /\ s.to \in Nat /\ s.from <= s.to
  BY <1>1, SliceParts
<1>5. t = [s EXCEPT !.to = @ - 1] /\ t.array = s.array
  <2>1. s.from + 0 = s.from /\ s.from + n = s.to - 1
    BY <1>4 DEF LenOf
  <2> QED BY <1>4, <2>1 DEF Slice, Slices
<1>6. Shows(st, t)
  BY <1>2, <1>5
<1>7. t = Slice(s.array, s.from + zero, s.from + n) /\ zero \in Nat /\ n \in Nat /\ zero <= n /\ n <= LenOf(s)
  BY <1>2, <1>3
<1> HIDE DEF t, zero, n
<1>8. SliceIn(heap, t) /\ CellsIn(heap, t) = SubSeq(CellsIn(heap, s), zero + 1, n)
  BY ONLY <1>1, <1>7, PartCells
<1>9. Does(st, t.array, Cells(t))
  BY ONLY <1>1, <1>6, <1>8, ShowsDoes
<1>10. Cells(t) = SubSeq(Cells(s), 1, n)
  <2>1. Cells(t) = CellsIn(heap, t) /\ Cells(s) = CellsIn(heap, s)
    BY DEF Cells, CellsIn
  <2>2. zero + 1 = 1
    BY DEF zero
  <2> QED BY ONLY <1>8, <2>1, <2>2
<1> QED BY <1>2, <1>5, <1>9, <1>10 DEF s, n

LEMMA appendDoes ==
  ASSUME NEW st, Ready(st), st.op \in Writers, append(st)
  PROVE  Does(st, w(st).array, Cells(w(st)) \o <<Number(st.n)>>)
<1> DEFINE s == w(st)  one == <<Number(st.n)>>
           most == IF CapOf(s) <= 1 THEN CapOf(s) + 1 ELSE (3 * CapOf(s)) \div 2
<1>1. HeapOK(heap) /\ SliceIn(heap, s) /\ st.n \in Nat
  BY Operands
<1>2. Gives(st, IF LenOf(s) < CapOf(s) THEN Appended(s, one)
                ELSE Made(Append(Cells(s), Number(st.n)), most, Typed(s)))
  BY DEF append
<1>3. Typed(s) \in BOOLEAN /\ CellsOK(heap, Cells(s), Typed(s)) /\ CapOf(s) \in Nat
  BY <1>1, ListIs
<1>4. CellIn(heap, Number(st.n), Typed(s))
  BY <1>1, NumberCell
<1>5. CellsOK(heap, one, Typed(s))
  BY <1>4, OneCell
<1>6. Append(Cells(s), Number(st.n)) = Cells(s) \o one /\ CellsOK(heap, Append(Cells(s), Number(st.n)), Typed(s))
  <2> DEFINE e == Number(st.n)  old == Cells(s)  ty == Typed(s)
  <2>1. CellsOK(heap, old, ty) /\ CellIn(heap, e, ty)
    BY <1>3, <1>4
  <2> HIDE DEF e, old, ty
  <2>2. Append(old, e) = old \o <<e>> /\ CellsOK(heap, Append(old, e), ty)
    BY ONLY <2>1, AddedCell
  <2> QED BY <2>2 DEF e, old, ty
<1>7. most \in Nat
  BY <1>3
<1> DEFINE c == Append(Cells(s), Number(st.n))
<1> HIDE DEF one, most, c
<1>8. CASE LenOf(s) < CapOf(s)
  <2>1. Gives(st, Appended(w(st), one))
    BY <1>2, <1>8
  <2>2. Does(st, w(st).array, Cells(w(st)) \o one)
    BY ONLY <1>1, <1>5, <2>1, st.op \in Writers, AppendedDoes
  <2> QED BY <2>2 DEF one
<1>9. CASE ~(LenOf(s) < CapOf(s))
  <2>1. Gives(st, Made(c, most, Typed(s))) /\ CellsOK(heap, c, Typed(s))
    BY <1>2, <1>6, <1>9 DEF c
  <2>2. Does(st, s.array, c)
    BY ONLY <1>1, <1>3, <1>7, <2>1, MadeDoes
  <2> QED BY <1>6, <2>2 DEF one, c
<1> QED BY <1>8, <1>9

LEMMA append_toDoes ==
  ASSUME NEW st, Ready(st), st.op \in Writers, append_to(st)
  PROVE  Does(st, w(st).array, Cells(w(st)) \o <<Number(st.n)>>)
<1> DEFINE one == <<Number(st.n)>>
<1>1. HeapOK(heap) /\ SliceIn(heap, w(st)) /\ st.n \in Nat
  BY Operands
<1>2. Gives(st, Appended(w(st), one))
  BY DEF append_to
<1>3. CellsOK(heap, one, Typed(w(st)))
  <2>1. CellIn(heap, Number(st.n), Typed(w(st)))
    BY <1>1, NumberCell
  <2> QED BY ONLY <2>1, OneCell
<1> HIDE DEF one
<1>4. Does(st, w(st).array, Cells(w(st)) \o one)
  BY ONLY <1>1, <1>2, <1>3, st.op \in Writers, AppendedDoes
<1> QED BY <1>4 DEF one

LEMMA concatDoes ==
  ASSUME NEW st, Ready(st), st.op \in Writers, concat(st)
  PROVE  Does(st, w(st).array, Cells(w(st)) \o Cells(lists[st.x]))
<1> DEFINE c == Cells(lists[st.x])
<1>1. HeapOK(heap) /\ SliceIn(heap, w(st)) /\ SliceIn(heap, lists[st.x])
  BY Operands
<1>2. Gives(st, Appended(w(st), c)) /\ Typed(w(st)) = Typed(lists[st.x])
  BY DEF concat
<1>3. CellsOK(heap, c, Typed(w(st)))
  BY <1>1, <1>2, ListIs
<1> HIDE DEF c
<1>4. Does(st, w(st).array, Cells(w(st)) \o c)
  BY ONLY <1>1, <1>2, <1>3, st.op \in Writers, AppendedDoes
<1> QED BY <1>4 DEF c

LEMMA push_frontDoes ==
  ASSUME NEW st, Ready(st), push_front(st)
  PROVE  Does(st, 0, <<Front_(st)>> \o Cells(w(st)))
<1> DEFINE s == w(st)  one == <<Front_(st)>>  c == one \o Cells(s)
<1>1. HeapOK(heap) /\ SliceIn(heap, s) /\ st.n \in Nat
  BY Operands
<1> DEFINE first == Grown(FirstCap, 1, Typed(s))  len == LenOf(s) + 1  cap == Grown(first, len, Typed(s))
<1>2. Gives(st, Made(c, cap, Typed(s)))
  BY DEF push_front
<1>3. Typed(s) \in BOOLEAN /\ CellsOK(heap, Cells(s), Typed(s)) /\ LenOf(s) \in Nat
  BY <1>1, ListIs
<1>4. CellIn(heap, Front_(st), Typed(s))
  <2>1. CASE Typed(s)
    BY <1>1, <2>1, NumberCell DEF Front_
  <2>2. CASE ~Typed(s)
    <3>1. Typed(s) = FALSE
      BY <1>3, <2>2
    <3> QED BY <1>1, <2>2, <3>1, NumberCell DEF Front_
  <2> QED BY <2>1, <2>2
<1> HIDE DEF s
<1>5. CellsOK(heap, one, Typed(s))
  BY ONLY <1>4, OneCell
<1> HIDE DEF one
<1>6. CellsOK(heap, c, Typed(s))
  BY ONLY <1>3, <1>5, JoinedCells
<1> HIDE DEF c
<1>7. cap \in Nat
  <2>1. len \in Nat /\ FirstCap \in Nat
    BY <1>3, ListsAssumption
  <2> HIDE DEF len
  <2>2. first \in Nat
    BY <1>3, <2>1, GrownIs
  <2> HIDE DEF first
  <2> QED BY <1>3, <2>1, <2>2, GrownIs
<1> HIDE DEF cap
<1>8. Does(st, 0, c)
  BY ONLY <1>1, <1>2, <1>3, <1>6, <1>7, MadeDoes
<1> QED BY <1>8 DEF c, one, s

LEMMA insertDoes ==
  ASSUME NEW st, Ready(st), insert(st)
  PROVE  /\ st.i \in 1..LenOf(w(st)) + 1
         /\ Does(st, 0, InsertAt(Cells(w(st)), st.i, Number(st.n)))
<1> DEFINE s == w(st)  old == Cells(s)  i == st.i  one == <<Number(st.n)>>
           c == InsertAt(old, i, Number(st.n))
           m == i - 1  before == SubSeq(old, 1, m)  after == SubSeq(old, i, Len(old))  front == before \o one
<1>1. HeapOK(heap) /\ SliceIn(heap, s) /\ st.n \in Nat /\ i \in Nat
  BY Operands
<1> DEFINE first == Grown(FirstCap, m, Typed(s))  second == Grown(first, i, Typed(s))
           len == LenOf(s) + 1  cap == Grown(second, len, Typed(s))
<1>2. Gives(st, Made(c, cap, Typed(s))) /\ i \in 1..LenOf(s) + 1
  BY DEF insert
<1>3. /\ Typed(s) \in BOOLEAN /\ CellsOK(heap, old, Typed(s))
      /\ Len(old) = LenOf(s) /\ LenOf(s) \in Nat
  BY <1>1, ListIs
<1>4. CellIn(heap, Number(st.n), Typed(s))
  BY <1>1, NumberCell
<1>5. c = before \o one \o after
  BY DEF InsertAt
<1> HIDE DEF s, old, i
<1>13. cap \in Nat
  <2>1. m \in Nat /\ len \in Nat /\ FirstCap \in Nat
    BY <1>1, <1>2, <1>3, ListsAssumption
  <2> HIDE DEF m, len
  <2>2. first \in Nat
    BY <1>3, <2>1, GrownIs
  <2> HIDE DEF first
  <2>3. second \in Nat
    BY <1>1, <1>3, <2>2, GrownIs
  <2> HIDE DEF second
  <2> QED BY <1>3, <2>1, <2>3, GrownIs
<1> HIDE DEF cap
<1>6. CellsOK(heap, one, Typed(s))
  BY ONLY <1>4, OneCell
<1>7. m \in Int /\ 1 \in Nat /\ 1 >= 1 /\ m <= Len(old) /\ i >= 1 /\ Len(old) \in Int /\ Len(old) <= Len(old)
  BY <1>1, <1>2, <1>3
<1> HIDE DEF m, one, c
<1>8. CellsOK(heap, before, Typed(s))
  BY ONLY <1>3, <1>7, PartOfCells
<1>9. CellsOK(heap, after, Typed(s))
  BY ONLY <1>1, <1>3, <1>7, PartOfCells
<1> HIDE DEF before, after
<1>10. CellsOK(heap, front, Typed(s))
  BY ONLY <1>6, <1>8, JoinedCells
<1>11. c = front \o after
  BY ONLY <1>5
<1> HIDE DEF front
<1>12. CellsOK(heap, c, Typed(s))
  BY ONLY <1>9, <1>10, <1>11, JoinedCells
<1>14. Does(st, 0, c)
  BY ONLY <1>1, <1>2, <1>3, <1>12, <1>13, MadeDoes
<1> QED BY <1>2, <1>14 DEF c, old, i, s

LEMMA removeDoes ==
  ASSUME NEW st, Ready(st), remove(st)
  PROVE  /\ st.i \in 1..LenOf(w(st))
         /\ Does(st, 0, RemoveAt(Cells(w(st)), st.i))
<1> DEFINE s == w(st)  old == Cells(s)  i == st.i
           c == RemoveAt(old, i)
           m == i - 1  n == i + 1  before == SubSeq(old, 1, m)  after == SubSeq(old, n, Len(old))
<1>1. HeapOK(heap) /\ SliceIn(heap, s) /\ i \in Nat
  BY Operands
<1> DEFINE first == Grown(FirstCap, m, Typed(s))  len == LenOf(s) - 1  cap == Grown(first, len, Typed(s))
<1>2. Gives(st, Made(c, cap, Typed(s))) /\ i \in 1..LenOf(s)
  BY DEF remove
<1>3. /\ Typed(s) \in BOOLEAN /\ CellsOK(heap, old, Typed(s))
      /\ Len(old) = LenOf(s) /\ LenOf(s) \in Nat
  BY <1>1, ListIs
<1>4. c = before \o after
  BY DEF RemoveAt
<1> HIDE DEF s, old, i
<1>9. cap \in Nat
  <2>1. m \in Nat /\ len \in Nat /\ FirstCap \in Nat
    BY <1>1, <1>2, <1>3, ListsAssumption
  <2> HIDE DEF m, len
  <2>2. first \in Nat
    BY <1>3, <2>1, GrownIs
  <2> HIDE DEF first
  <2> QED BY <1>3, <2>1, <2>2, GrownIs
<1> HIDE DEF cap
<1>5. m \in Int /\ 1 \in Nat /\ 1 >= 1 /\ m <= Len(old) /\ n \in Nat /\ n >= 1 /\ Len(old) \in Int /\ Len(old) <= Len(old)
  BY <1>1, <1>2, <1>3
<1> HIDE DEF m, n, c
<1>6. CellsOK(heap, before, Typed(s))
  BY ONLY <1>3, <1>5, PartOfCells
<1>7. CellsOK(heap, after, Typed(s))
  BY ONLY <1>3, <1>5, PartOfCells
<1> HIDE DEF before, after
<1>8. CellsOK(heap, c, Typed(s))
  BY ONLY <1>4, <1>6, <1>7, JoinedCells
<1>10. Does(st, 0, c)
  BY ONLY <1>1, <1>2, <1>3, <1>8, <1>9, MadeDoes
<1> QED BY <1>2, <1>10 DEF c, old, i, s

(* Numbers in every place. *)
LEMMA AllNumbers ==
  ASSUME NEW h, NEW typed, NEW n \in Nat, NEW c, c \in [1..n -> Cell], \A k \in 1..n : IsNumber(c[k])
  PROVE  CellsOK(h, c, typed) /\ NoLists(c) /\ Len(c) = n
<1>1. c \in Seq(Cell) /\ Len(c) = n
  BY SeqIs
<1>2. \A k \in 1..n : ~IsList(c[k]) /\ c[k] \in Cell
  BY CellParts
<1> QED BY <1>1, <1>2 DEF CellsOK, CellIn, NoLists

LEMMA list_fillDoes ==
  ASSUME NEW st, Ready(st), list_fill(st)
  PROVE  Does(st, 0, [k \in 1..LenOf(w(st)) |-> Number(st.n)])
<1> DEFINE s == w(st)  n == LenOf(s)  c == [k \in 1..n |-> Number(st.n)]
<1>1. HeapOK(heap) /\ SliceIn(heap, s) /\ Number(st.n) \in Cell /\ IsNumber(Number(st.n))
  BY Operands, CellParts
<1>2. Gives(st, Made(c, n, Typed(s)))
  BY DEF list_fill
<1> HIDE DEF s
<1>3. Typed(s) \in BOOLEAN /\ n \in Nat
  BY <1>1, ListIs
<1>4. c \in [1..n -> Cell] /\ \A k \in 1..n : IsNumber(c[k])
  BY <1>1
<1> HIDE DEF c, n
<1>5. CellsOK(heap, c, Typed(s))
  BY ONLY <1>3, <1>4, AllNumbers
<1>6. Does(st, 0, c)
  BY ONLY <1>1, <1>2, <1>3, <1>5, MadeDoes
<1> QED BY <1>6 DEF c, n, s

LEMMA addDoes ==
  ASSUME NEW st, Ready(st), add(st)
  PROVE  Does(st, 0, Plus(Cells(w(st)), st.n)) /\ NoLists(Cells(w(st)))
<1> DEFINE s == w(st)  old == Cells(s)  n == LenOf(s)  c == Plus(old, st.n)
           typed == Typed(s) \/ n > 0
<1>1. HeapOK(heap) /\ SliceIn(heap, s) /\ st.n \in Nat
  BY Operands
<1>2. Gives(st, Made(c, n, typed)) /\ \A k \in DOMAIN old : old[k][1] = "number"
  BY DEF add
<1> HIDE DEF s
<1>3. n \in Nat /\ old \in Seq(Cell) /\ Len(old) = n /\ DOMAIN old = 1..n
  BY <1>1, ListIs
<1> HIDE DEF old, n
<1>4. \A k \in 1..n : old[k] \in Cell /\ IsNumber(old[k])
  BY <1>2, <1>3, ElementOfSeq DEF IsNumber
<1>5. \A k \in 1..n : old[k][2] \in Nat /\ ~IsList(old[k])
  BY <1>4, CellParts
<1>6. c = [k \in 1..n |-> Number(old[k][2] + st.n)]
  BY <1>3 DEF Plus
<1>7. \A k \in 1..n : Number(old[k][2] + st.n) \in Cell /\ IsNumber(Number(old[k][2] + st.n))
  BY <1>1, <1>5, CellParts
<1>8. c \in [1..n -> Cell] /\ \A k \in 1..n : IsNumber(c[k])
  BY <1>6, <1>7
<1>9. typed \in BOOLEAN
  OBVIOUS
<1> HIDE DEF c, typed
<1>10. CellsOK(heap, c, typed)
  BY ONLY <1>3, <1>8, AllNumbers
<1>11. Does(st, 0, c)
  BY ONLY <1>1, <1>2, <1>3, <1>9, <1>10, MadeDoes
<1>12. NoLists(old)
  BY <1>3, <1>5 DEF NoLists
<1> QED BY <1>11, <1>12 DEF c, old, s

LEMMA SortGets ==
  ASSUME HeapOK(heap), NEW s, SliceIn(heap, s), NoLists(Cells(s)),
         NEW c, c = SortedCells(Cells(s)),
         NEW h2, h2 = Written(s, s.from, c),
         NEW r, r.heap = h2, r.list = s
  PROVE  Gets(r, s.array, s.array, c) /\ NoLists(c)
<1> DEFINE old == Cells(s)  n == LenOf(s)  zero == 0
<1>1. /\ old = CellsIn(heap, s) /\ old \in Seq(Cell) /\ CellsOK(heap, old, Typed(s))
      /\ Len(old) = n /\ n \in Nat
  BY ListIs
<1>2. c = SortedCells(old) /\ NoLists(old) /\ HeapOK(heap) /\ SliceIn(heap, s) /\ r.heap = h2 /\ r.list = s
  OBVIOUS
<1>3. h2 = Written(s, s.from + zero, c) /\ zero \in Nat
  <2>1. s.from + zero = s.from
    BY SliceParts
  <2> QED BY <2>1
<1> HIDE DEF old, zero, n
<1>4. c \in Seq(Cell) /\ Len(c) = Len(old) /\ NoLists(c) /\ ItemsOf(c, old)
  <2>1. old \in Seq(Cell) /\ NoLists(old) /\ c = SortedCells(old)
    BY ONLY <1>1, <1>2
  <2> QED BY ONLY <2>1, SortedIs
<1>5. CellsOK(heap, c, Typed(s))
  BY ONLY <1>1, <1>4 DEF CellsOK, ItemsOf
<1>6. \A k \in 1..n : c[k] = Over(c, zero, old, k)
  BY ONLY <1>1, <1>4 DEF Over, zero
<1>7. zero + Len(c) <= n
  BY ONLY <1>1, <1>4 DEF zero
<1>8. Gets(r, s.array, s.array, c)
  <2>1. Len(c) = LenOf(s) /\ zero + Len(c) <= LenOf(s)
    BY ONLY <1>1, <1>4, <1>7 DEF n
  <2>2. \A k \in 1..LenOf(s) : c[k] = Over(c, zero, CellsIn(heap, s), k)
    BY ONLY <1>1, <1>6 DEF n
  <2> QED BY ONLY <1>2, <1>3, <1>4, <1>5, <2>1, <2>2, InPlaceGets
<1> QED BY <1>4, <1>8

LEMMA sortDoes ==
  ASSUME NEW st, Ready(st), st.op \in Writers, sort(st)
  PROVE  Does(st, w(st).array, SortedCells(Cells(w(st)))) /\ NoLists(Cells(w(st)))
<1> DEFINE s == w(st)  c == SortedCells(Cells(s))  h2 == Written(s, s.from, c)
           r == [heap |-> h2, list |-> s]
<1>1. HeapOK(heap) /\ SliceIn(heap, s)
  BY Operands
<1>2. Gives(st, r) /\ Flat(s)
  BY DEF sort
<1>3. Target(st) = s.array
  BY DEF Target
<1>4. r.heap = h2 /\ r.list = s
  OBVIOUS
<1> HIDE DEF s, r
<1>5. NoLists(Cells(s))
  BY <1>1, <1>2, ListIs DEF Flat, NoLists
<1>6. c = SortedCells(Cells(s)) /\ h2 = Written(s, s.from, c)
  OBVIOUS
<1> HIDE DEF c, h2
<1>7. Gets(r, s.array, s.array, c)
  BY ONLY <1>1, <1>4, <1>5, <1>6, SortGets
<1>8. Does(st, s.array, c)
  BY ONLY <1>2, <1>3, <1>7 DEF Does
<1> QED BY <1>5, <1>8 DEF c, s

(* A list made after something else was done to the heap. *)
LEMMA MadeAfter ==
  ASSUME HeapOK(heap), NEW h, HeapOK(h), Later(heap, h), NEW a, SameBut(heap, h, a),
         NEW typed \in BOOLEAN, NEW cells, CellsOK(h, cells, typed),
         AllFlat(heap) /\ NoLists(cells) => AllFlat(h), NEW cap \in Nat,
         NEW r, r = MadeIn(h, cells, cap, typed), NEW b
  PROVE  Gets(r, a, b, cells)
<1>1. /\ HeapOK(r.heap) /\ Later(h, r.heap) /\ Same(h, r.heap)
      /\ Len(h) \in Nat /\ Len(r.heap) = Len(h) + 1
      /\ SliceIn(r.heap, r.list) /\ r.list.array = Len(h) + 1
      /\ CellsIn(r.heap, r.list) = cells
      /\ NoLists(cells) => NoLists(r.heap[Len(h) + 1].cells)
  BY MadeIs
<1>2. Len(heap) \in Nat /\ Len(heap) <= Len(h)
  BY LenProperties DEF HeapOK, Later
<1>3. Later(heap, r.heap)
  BY <1>1, <1>2 DEF Later
<1>4. SameBut(heap, r.heap, a)
  BY <1>1, <1>2 DEF Same, SameBut
<1>5. ASSUME AllFlat(heap), NoLists(cells) PROVE AllFlat(r.heap)
  BY <1>1, <1>5 DEF AllFlat, Same
<1>6. r.list.array > Len(heap)
  BY <1>1, <1>2
<1> QED BY ONLY <1>1, <1>3, <1>4, <1>5, <1>6 DEF Gets

LEMMA DoubledIs ==
  ASSUME NEW len \in Nat
  PROVE  Doubled(len) \in Nat
<1> DEFINE all == {1, 2, 4, 8, 16, 32, 64, 128, 256}
           caps == {c \in all : c < 2 * len}
           most == CHOOSE c \in caps : \A d \in caps : d <= c
<1>1. Doubled(len) = IF len = 0 THEN 0 ELSE most
  BY DEF Doubled
<1>2. ASSUME len # 0 PROVE \E c \in caps : \A d \in caps : d <= c
  <2>1. 2 * len \in Nat /\ 1 < 2 * len
    BY <1>2
  <2> DEFINE l == 2 * len
  <2> HIDE DEF l
  <2>2. /\ l \in Nat /\ 1 < l
        /\ \A d : d \in caps <=> /\ \/ d = 1 \/ d = 2 \/ d = 4 \/ d = 8 \/ d = 16
                                    \/ d = 32 \/ d = 64 \/ d = 128 \/ d = 256
                                 /\ d < l
    BY <2>1 DEF l
  <2> HIDE DEF caps
  <2>3. CASE 256 < l
    <3>1. 256 \in caps /\ \A d \in caps : d <= 256
      BY <2>2, <2>3
    <3> QED BY ONLY <3>1
  <2>4. CASE 128 < l /\ ~(256 < l)
    <3>1. 128 \in caps /\ \A d \in caps : d <= 128
      BY <2>2, <2>4
    <3> QED BY ONLY <3>1
  <2>5. CASE 64 < l /\ ~(128 < l)
    <3>1. 64 \in caps /\ \A d \in caps : d <= 64
      BY <2>2, <2>5
    <3> QED BY ONLY <3>1
  <2>6. CASE 32 < l /\ ~(64 < l)
    <3>1. 32 \in caps /\ \A d \in caps : d <= 32
      BY <2>2, <2>6
    <3> QED BY ONLY <3>1
  <2>7. CASE 16 < l /\ ~(32 < l)
    <3>1. 16 \in caps /\ \A d \in caps : d <= 16
      BY <2>2, <2>7
    <3> QED BY ONLY <3>1
  <2>8. CASE 8 < l /\ ~(16 < l)
    <3>1. 8 \in caps /\ \A d \in caps : d <= 8
      BY <2>2, <2>8
    <3> QED BY ONLY <3>1
  <2>9. CASE 4 < l /\ ~(8 < l)
    <3>1. 4 \in caps /\ \A d \in caps : d <= 4
      BY <2>2, <2>9
    <3> QED BY ONLY <3>1
  <2>10. CASE 2 < l /\ ~(4 < l)
    <3>1. 2 \in caps /\ \A d \in caps : d <= 2
      BY <2>2, <2>10
    <3> QED BY ONLY <3>1
  <2>11. CASE ~(2 < l)
    <3>1. 1 \in caps /\ \A d \in caps : d <= 1
      BY <2>2, <2>11
    <3> QED BY ONLY <3>1
  <2> QED BY ONLY <2>3, <2>4, <2>5, <2>6, <2>7, <2>8, <2>9, <2>10, <2>11
<1>3. caps \subseteq Nat
  OBVIOUS
<1> HIDE DEF caps
<1>4. len # 0 => most \in Nat
  BY <1>2, <1>3
<1> QED BY <1>1, <1>4

LEMMA uniqDoes ==
  ASSUME NEW st, Ready(st), st.op \in Writers, uniq(st)
  PROVE  Does(st, w(st).array, Once(Cells(w(st)))) /\ NoLists(Cells(w(st)))
<1> DEFINE s == w(st)  old == Cells(s)  c == SortedCells(old)  h == Written(s, s.from, c)
           u == Once(old)  cap == Doubled(Len(u))  r == MadeIn(h, u, cap, TRUE)
<1>1. HeapOK(heap) /\ SliceIn(heap, s)
  BY Operands
<1>2. Typed(s) /\ IF LenOf(s) <= 1 THEN Shows(st, s) ELSE Gives(st, r)
  BY DEF uniq
<1>3. Target(st) = s.array
  BY DEF Target
<1> HIDE DEF s, r
<1>4. /\ old \in Seq(Cell) /\ CellsOK(heap, old, Typed(s)) /\ Typed(s) \in BOOLEAN
      /\ Len(old) = LenOf(s) /\ LenOf(s) \in Nat
  BY <1>1, ListIs
<1>5. NoLists(old) /\ CellsOK(heap, old, TRUE)
  <2>1. CellsOK(heap, old, TRUE)
    BY <1>2, <1>4
  <2> QED BY <2>1, CellParts DEF NoLists, CellsOK, CellIn
<1>6. CASE LenOf(s) <= 1
  <2>1. Does(st, s.array, Cells(s))
    BY <1>1, <1>2, <1>6, ShowsDoes
  <2>2. u = Cells(s)
    <3> HIDE DEF old
    <3>1. u = old
      BY ONLY <1>4, <1>5, <1>6, OnceShort
    <3> QED BY <3>1 DEF old
  <2> QED BY <1>5, <2>1, <2>2 DEF s
<1>7. CASE ~(LenOf(s) <= 1)
  <2> DEFINE r1 == [heap |-> h, list |-> s]
  <2>1. r1.heap = h /\ r1.list = s /\ h = Written(s, s.from, c) /\ c = SortedCells(Cells(s)) /\ NoLists(Cells(s))
    BY <1>5
  <2>2. r = MadeIn(h, u, cap, TRUE)
    BY DEF r
  <2> HIDE DEF r1, h, c
  <2>3. Gets(r1, s.array, s.array, c) /\ NoLists(c)
    BY ONLY <1>1, <2>1, SortGets
  <2>4. HeapOK(h) /\ Later(heap, h) /\ SameBut(heap, h, s.array) /\ (AllFlat(heap) => AllFlat(h))
    BY ONLY <2>1, <2>3 DEF Gets
  <2> HIDE DEF old
  <2>5. u \in Seq(Cell) /\ NoLists(u) /\ ItemsOf(u, old)
    BY <1>4, <1>5, OnceIs
  <2> HIDE DEF u
  <2>6. CellsOK(heap, u, TRUE)
    BY ONLY <1>5, <2>5 DEF CellsOK, ItemsOf
  <2>7. CellsOK(h, u, TRUE)
    BY <1>1, <2>4, <2>6, LaterCells DEF HeapOK
  <2>8. cap \in Nat
    BY <2>5, LenProperties, DoubledIs
  <2> HIDE DEF cap
  <2>9. Gets(r, s.array, s.array, u)
    BY ONLY <1>1, <2>2, <2>4, <2>7, <2>8, MadeAfter
  <2>10. Does(st, s.array, u)
    BY ONLY <1>2, <1>3, <1>7, <2>9 DEF Does
  <2> QED BY <1>5, <2>10 DEF s, u, old
<1> QED BY <1>6, <1>7

(* The item at k after e is put in at i, counted from 0. *)
PutAt(c, i, typed, e, k) == IF k = i + 1 THEN e ELSE IF k <= Len(c) THEN c[k] ELSE Zero(typed)

IsPut(p, c, i, typed, e) ==
  /\ Len(p) = IF i < Len(c) THEN Len(c) ELSE i + 1
  /\ \A k \in 1..Len(p) : p[k] = PutAt(c, i, typed, e, k)

LEMMA PutIs ==
  ASSUME NEW h, NEW typed \in BOOLEAN, NEW c, CellsOK(h, c, typed), NEW e, CellIn(h, e, typed),
         NEW i \in Nat, NEW p, p = Put(c, i, typed, e)
  PROVE  /\ CellsOK(h, p, typed) /\ Len(c) \in Nat /\ IsPut(p, c, i, typed, e)
         /\ NoLists(c) /\ ~IsList(e) => NoLists(p)
<1> DEFINE n == IF i < Len(c) THEN Len(c) ELSE i + 1
<1>1. c \in Seq(Cell) /\ Len(c) \in Nat /\ \A k \in 1..Len(c) : CellIn(h, c[k], typed)
  BY LenProperties DEF CellsOK
<1>2. n \in Nat /\ Len(c) <= n
  BY <1>1
<1>3. p = [k \in 1..n |-> CASE k = i + 1 -> e
                          [] k # i + 1 /\ k <= Len(c) -> c[k]
                          [] OTHER -> Zero(typed)]
  BY DEF Put
<1>4. CellIn(h, Zero(typed), typed) /\ ~IsList(Zero(typed))
  BY CellParts DEF Zero, CellIn
<1> HIDE DEF n
<1>5. \A k \in 1..n : p[k] = PutAt(c, i, typed, e, k)
  BY ONLY <1>3 DEF PutAt
<1>6. \A k \in 1..n : CellIn(h, p[k], typed)
  <2> SUFFICES ASSUME NEW k \in 1..n PROVE CellIn(h, p[k], typed)
    OBVIOUS
  <2>1. k <= Len(c) => k \in 1..Len(c)
    BY <1>1, <1>2
  <2> QED BY ONLY <1>1, <1>4, <1>5, <2>1, CellIn(h, e, typed) DEF PutAt
<1>7. p \in [1..n -> Cell]
  <2>1. DOMAIN p = 1..n /\ p = [k \in DOMAIN p |-> p[k]]
    BY ONLY <1>3
  <2> QED BY ONLY <1>6, <2>1 DEF CellIn
<1>8. p \in Seq(Cell) /\ Len(p) = n
  BY ONLY <1>2, <1>7, SeqIs
<1>9. CellsOK(h, p, typed)
  BY ONLY <1>6, <1>8 DEF CellsOK
<1>10. ASSUME NoLists(c), ~IsList(e) PROVE NoLists(p)
  <2> SUFFICES ASSUME NEW k \in 1..n PROVE ~IsList(p[k])
    BY <1>8 DEF NoLists
  <2>1. k <= Len(c) => k \in 1..Len(c)
    BY <1>1, <1>2
  <2> QED BY ONLY <1>4, <1>5, <1>10, <2>1 DEF NoLists, PutAt
<1>11. \A k \in 1..Len(p) : p[k] = PutAt(c, i, typed, e, k)
  BY ONLY <1>5, <1>8
<1> QED BY ONLY <1>1, <1>8, <1>9, <1>10, <1>11 DEF n, IsPut

LEMMA setDoes ==
  ASSUME NEW st, Ready(st), st.op \in Writers, set(st)
  PROVE  /\ Does(st, w(st).array, Put(Cells(w(st)), st.i, Typed(w(st)), Number(st.n)))
         /\ Cells(w(st)) \in Seq(Cell)
<1> DEFINE s == w(st)  old == Cells(s)  i == st.i  e == Number(st.n)  c == Put(old, i, Typed(s), e)
           want == CASE CapOf(s) = 0 -> 1 [] i < CapOf(s) -> CapOf(s) [] OTHER -> 2 * CapOf(s)
           cap == IF i < want THEN want ELSE i + 1
           one == <<e>>  h2 == Written(s, s.from + i, one)  r == [heap |-> h2, list |-> s]
<1>1. HeapOK(heap) /\ SliceIn(heap, s) /\ st.n \in Nat /\ i \in Nat
  BY Operands
<1>2. Gives(st, IF i < LenOf(s) THEN r ELSE Made(c, cap, Typed(s)))
  BY DEF set
<1>3. Target(st) = s.array
  BY DEF Target
<1> HIDE DEF s, r, i
<1>4. /\ old = CellsIn(heap, s) /\ old \in Seq(Cell) /\ CellsOK(heap, old, Typed(s)) /\ Typed(s) \in BOOLEAN
      /\ Len(old) = LenOf(s) /\ LenOf(s) \in Nat /\ CapOf(s) \in Nat
  BY <1>1, ListIs
<1>5. CellIn(heap, e, Typed(s))
  BY <1>1, NumberCell
<1>6. c = Put(old, i, Typed(s), e)
  OBVIOUS
<1> HIDE DEF old, e
<1> HIDE DEF c
<1>7. /\ CellsOK(heap, c, Typed(s))
      /\ Len(c) = IF i < Len(old) THEN Len(old) ELSE i + 1
      /\ \A k \in 1..Len(c) : c[k] = PutAt(old, i, Typed(s), e, k)
  <2> DEFINE ty == Typed(s)
  <2>1. ty \in BOOLEAN /\ CellsOK(heap, old, ty) /\ CellIn(heap, e, ty) /\ i \in Nat /\ c = Put(old, i, ty, e)
    BY <1>1, <1>4, <1>5, <1>6
  <2> HIDE DEF ty
  <2>2. CellsOK(heap, c, ty) /\ IsPut(c, old, i, ty, e)
    BY ONLY <2>1, PutIs
  <2> QED BY ONLY <2>2 DEF ty, IsPut
<1>8. CASE i < LenOf(s)
  <2>1. r.heap = h2 /\ r.list = s /\ h2 = Written(s, s.from + i, one)
    BY DEF r
  <2>2. CellsOK(heap, one, Typed(s))
    BY ONLY <1>5, OneCell
  <2>3. Len(one) = 1 /\ one[1] = e
    OBVIOUS
  <2> HIDE DEF one, h2
  <2>4. c \in Seq(Cell) /\ Len(c) = LenOf(s) /\ i + Len(one) <= LenOf(s)
    BY ONLY <1>1, <1>4, <1>7, <1>8, <2>3 DEF CellsOK
  <2>5. ASSUME NEW k \in 1..LenOf(s) PROVE c[k] = Over(one, i, CellsIn(heap, s), k)
    <3>1. c[k] = IF k = i + 1 THEN e ELSE old[k]
      BY ONLY <1>4, <1>7, <2>4, <2>5 DEF PutAt
    <3>2. (k \in i + 1..i + Len(one)) = (k = i + 1)
      BY ONLY <1>1, <1>4, <2>3, <2>5
    <3>3. k = i + 1 => k - i = 1
      BY ONLY <1>1
    <3> QED BY ONLY <1>4, <2>3, <3>1, <3>2, <3>3 DEF Over
  <2>6. Gets(r, s.array, s.array, c)
    BY ONLY <1>1, <2>1, <2>2, <2>4, <2>5, InPlaceGets
  <2>7. Does(st, s.array, c)
    BY ONLY <1>2, <1>3, <1>8, <2>6 DEF Does
  <2> QED BY <1>4, <2>7 DEF s, c, i, e, old
<1>9. CASE ~(i < LenOf(s))
  <2>1. cap \in Nat
    <3>1. want \in Nat
      BY <1>4
    <3> HIDE DEF want
    <3> QED BY <1>1, <3>1
  <2> HIDE DEF cap
  <2>2. Gives(st, Made(c, cap, Typed(s)))
    BY ONLY <1>2, <1>9
  <2>3. Does(st, s.array, c)
    BY ONLY <1>1, <1>4, <1>7, <2>1, <2>2, MadeDoes
  <2> QED BY <1>4, <2>3 DEF s, c, i, e, old
<1> QED BY <1>8, <1>9

-----------------------------------------------------------------------------
(* v[i][j] = n makes a copy of every list in the list. *)

LEMMA AppendArrays ==
  ASSUME NEW h, HeapOK(h), NEW fs \in Seq(Array),
         \A k \in 1..Len(fs) : CellsOK(h, fs[k].cells, fs[k].typed), NEW h2, h2 = h \o fs
  PROVE  /\ HeapOK(h2) /\ Later(h, h2) /\ Same(h, h2)
         /\ Len(h) \in Nat /\ Len(h2) = Len(h) + Len(fs) /\ Len(fs) \in Nat
         /\ \A k \in 1..Len(fs) : Len(h) + k \in 1..Len(h2) /\ h2[Len(h) + k] = fs[k]
<1>1. h \in Seq(Array) /\ Len(h) \in Nat /\ Len(fs) \in Nat
  BY LenProperties DEF HeapOK
<1>2. /\ h2 \in Seq(Array) /\ Len(h2) = Len(h) + Len(fs)
      /\ \A a \in 1..Len(h) + Len(fs) : h2[a] = IF a <= Len(h) THEN h[a] ELSE fs[a - Len(h)]
  BY <1>1, ConcatProperties
<1>3. \A a \in 1..Len(h) : h2[a] = h[a]
  BY <1>1, <1>2
<1>4. Later(h, h2) /\ Same(h, h2)
  BY <1>1, <1>2, <1>3 DEF Later, Same
<1>5. ASSUME NEW k \in 1..Len(fs) PROVE Len(h) + k \in 1..Len(h2) /\ h2[Len(h) + k] = fs[k]
  <2>1. /\ Len(h) + k \in 1..Len(h) + Len(fs) /\ ~(Len(h) + k <= Len(h)) /\ (Len(h) + k) - Len(h) = k
    BY <1>1
  <2> QED BY ONLY <1>2, <2>1
<1>6. \A a \in 1..Len(h2) : CellsOK(h2, h2[a].cells, h2[a].typed)
  <2> SUFFICES ASSUME NEW a \in 1..Len(h2) PROVE CellsOK(h, h2[a].cells, h2[a].typed)
    BY <1>1, <1>4, LaterCells
  <2>1. CASE a \in 1..Len(h)
    BY <1>3, <2>1 DEF HeapOK
  <2>2. CASE a - Len(h) \in 1..Len(fs)
    <3>1. h2[a] = fs[a - Len(h)]
      BY <1>1, <1>2, <2>2
    <3> QED BY <2>2, <3>1
  <2> QED BY <1>1, <1>2, <2>1, <2>2
<1> QED BY <1>1, <1>2, <1>4, <1>5, <1>6 DEF HeapOK

(* The list of the first cells of an array. *)
LEMMA FrontOf ==
  ASSUME NEW h, HeapOK(h), NEW a \in 1..Len(h), NEW c \in Seq(Cell), Len(c) <= Len(h[a].cells),
         \A k \in 1..Len(c) : h[a].cells[k] = c[k], NEW s, s = Slice(a, 0, Len(c))
  PROVE  SliceIn(h, s) /\ CellsIn(h, s) = c
<1>1. Len(c) \in Nat /\ Len(h) \in Nat
  BY LenProperties DEF HeapOK
<1>2. s \in Slices /\ s.array = a /\ s.from = 0 /\ s.to = Len(c)
  BY <1>1 DEF Slice, Slices
<1>3. SliceIn(h, s)
  BY <1>1, <1>2 DEF SliceIn
<1> DEFINE t == CellsIn(h, s)  base == h[a].cells
<1>4. /\ t \in Seq(Cell) /\ Len(t) = s.to - s.from
      /\ \A k \in 1..(s.to - s.from) : t[k] = base[s.from + k]
  BY <1>2, <1>3, CellsOfSlice DEF CellsOK
<1> HIDE DEF t
<1>5. Len(t) = Len(c) /\ \A k \in 1..Len(t) : t[k] = c[k]
  BY <1>1, <1>2, <1>4
<1>6. t = c
  BY ONLY c \in Seq(Cell), <1>4, <1>5, SeqEqual
<1> QED BY <1>3, <1>6 DEF t

StartsWith(f, h, cells, typed) ==
  /\ f \in Array /\ f.typed = typed /\ CellsOK(h, f.cells, typed) /\ Len(cells) <= Len(f.cells)
  /\ \A k \in 1..Len(cells) : f.cells[k] = cells[k]

LEMMA FilledStarts ==
  ASSUME NEW h, NEW typed \in BOOLEAN, NEW cells, CellsOK(h, cells, typed), NEW cap \in Nat
  PROVE  StartsWith(Filled(cells, cap, typed), h, cells, typed)
<1> DEFINE f == Filled(cells, cap, typed)
<1>1. /\ f \in Array /\ f.typed = typed /\ CellsOK(h, f.cells, typed) /\ Len(cells) <= Len(f.cells)
      /\ \A k \in 1..Len(cells) : f.cells[k] = cells[k]
  BY FilledIs
<1> HIDE DEF f
<1>2. StartsWith(f, h, cells, typed)
  BY ONLY <1>1 DEF StartsWith
<1> QED BY <1>2 DEF f

(* The cells of the copy of the list at k. *)
InnerCells(st, k) ==
  LET t == Cells(w(st))[k][2]
  IN  IF k = st.i + 1 THEN Put(Cells(t), st.j, Typed(t), Number(st.n)) ELSE Cells(t)

(* f is an array for them. *)
IsCopy(f, st, k) ==
  \E typed \in BOOLEAN, cap \in Nat :
    CellsOK(heap, InnerCells(st, k), typed) /\ f = Filled(InnerCells(st, k), cap, typed)

CopyOf(st, k) ==
  LET old == Cells(w(st))
  IN  CASE ~IsList(old[k]) -> Filled(<<>>, 0, FALSE)
        [] IsList(old[k]) /\ k # st.i + 1 ->
             Filled(Cells(old[k][2]), Doubled(LenOf(old[k][2])), Typed(old[k][2]))
        [] IsList(old[k]) /\ k = st.i + 1 -> Changed(old[k][2], st.j, st.n)

CopyLen(st, k) ==
  LET old == Cells(w(st))
  IN  IF k = st.i + 1 /\ LenOf(old[k][2]) <= st.j THEN st.j + 1 ELSE LenOf(old[k][2])

NewCell(st, k) ==
  LET old == Cells(w(st))
  IN  IF IsList(old[k]) THEN Item(Slice(Len(heap) + k, 0, CopyLen(st, k))) ELSE old[k]

LEMMA CopyIs ==
  ASSUME NEW st, Ready(st), NEW k \in 1..LenOf(w(st)), IsList(Cells(w(st))[k])
  PROVE  /\ SliceIn(heap, Cells(w(st))[k][2])
         /\ IsCopy(CopyOf(st, k), st, k) /\ InnerCells(st, k) \in Seq(Cell)
         /\ Len(InnerCells(st, k)) = CopyLen(st, k)
<1> DEFINE s == w(st)  old == Cells(s)  t == old[k][2]  cells == Cells(t)  j == st.j  e == Number(st.n)
           ty == Typed(t)  p == Put(cells, j, ty, e)  len == LenOf(t)  cap == CapOf(t)
           most == IF j < cap THEN cap ELSE IF j + 1 < 2 * cap THEN 2 * cap ELSE j + 1
           i1 == st.i + 1
<1>1. HeapOK(heap) /\ SliceIn(heap, s) /\ st.n \in Nat /\ j \in Nat
  BY Operands
<1>2. /\ InnerCells(st, k) = IF k = i1 THEN p ELSE cells
      /\ CopyLen(st, k) = IF k = i1 /\ len <= j THEN j + 1 ELSE len
  BY DEF InnerCells, CopyLen
<1>3. CopyOf(st, k) = IF k = i1 THEN Filled(p, most, ty) ELSE Filled(cells, Doubled(len), ty)
  BY DEF CopyOf, Changed
<1> HIDE DEF s, e, i1
<1>4. SliceIn(heap, t)
  <2>1. CellsOK(heap, old, Typed(s)) /\ Len(old) = LenOf(s)
    BY <1>1, ListIs
  <2>2. k \in 1..LenOf(s) /\ IsList(old[k])
    BY DEF s
  <2> QED BY ONLY <2>1, <2>2 DEF CellsOK, CellIn
<1> HIDE DEF t, j
<1>5. /\ cells \in Seq(Cell) /\ ty \in BOOLEAN /\ CellsOK(heap, cells, ty)
      /\ Len(cells) = len /\ len \in Nat /\ cap \in Nat
  BY <1>1, <1>4, ListIs
<1>6. CellIn(heap, e, ty)
  BY <1>1, NumberCell DEF e
<1>7. p = Put(cells, j, ty, e)
  OBVIOUS
<1> HIDE DEF cells, ty, p, len, cap
<1>8. CellsOK(heap, p, ty) /\ Len(p) = IF j < Len(cells) THEN Len(cells) ELSE j + 1
  <2>1. CellsOK(heap, p, ty) /\ IsPut(p, cells, j, ty, e)
    BY ONLY <1>1, <1>5, <1>6, <1>7, PutIs
  <2> QED BY ONLY <2>1 DEF IsPut
<1>9. most \in Nat /\ Doubled(len) \in Nat
  BY <1>1, <1>5, DoubledIs
<1> HIDE DEF most
<1>10. CellsOK(heap, InnerCells(st, k), ty)
  BY ONLY <1>2, <1>5, <1>8
<1>11. IsCopy(CopyOf(st, k), st, k)
  <2>1. CASE k = i1
    <3>1. InnerCells(st, k) = p /\ CopyOf(st, k) = Filled(p, most, ty)
      BY ONLY <1>2, <1>3, <2>1
    <3> QED BY ONLY <1>5, <1>9, <1>10, <3>1 DEF IsCopy
  <2>2. CASE k # i1
    <3>1. InnerCells(st, k) = cells /\ CopyOf(st, k) = Filled(cells, Doubled(len), ty)
      BY ONLY <1>2, <1>3, <2>2
    <3> QED BY ONLY <1>5, <1>9, <1>10, <3>1 DEF IsCopy
  <2> QED BY <2>1, <2>2
<1>12. Len(InnerCells(st, k)) = CopyLen(st, k)
  BY ONLY <1>1, <1>2, <1>5, <1>8
<1>13. InnerCells(st, k) \in Seq(Cell)
  BY ONLY <1>10 DEF CellsOK
<1> QED BY <1>4, <1>11, <1>12, <1>13 DEF t, s

LEMMA innerDoes ==
  ASSUME NEW st, Ready(st), inner(st)
  PROVE  \E r, new :
           /\ Gives(st, r) /\ Gets(r, 0, 0, new) /\ ~AllFlat(heap) /\ Len(new) = LenOf(w(st))
           /\ \A k \in 1..LenOf(w(st)) :
                IF IsList(Cells(w(st))[k])
                THEN IsList(new[k]) /\ CellsIn(r.heap, new[k][2]) = InnerCells(st, k)
                ELSE new[k] = Cells(w(st))[k]
<1> DEFINE s == w(st)  old == Cells(s)  n == LenOf(s)
           copies == [k \in 1..n |-> CopyOf(st, k)]  new == [k \in 1..n |-> NewCell(st, k)]
           h == heap \o copies  r == MadeIn(h, new, CapOf(s), FALSE)
<1>1. HeapOK(heap) /\ SliceIn(heap, s) /\ st.i \in Nat
  BY Operands
<1>2. /\ old \in Seq(Cell) /\ CellsOK(heap, old, Typed(s)) /\ DOMAIN old = 1..n
      /\ Len(old) = n /\ n \in Nat /\ CapOf(s) \in Nat /\ (AllFlat(heap) => NoLists(old))
  BY <1>1, ListIs
<1>3. Gives(st, r)
  <2>1. [k \in DOMAIN old |->
           CASE ~IsList(old[k]) -> Filled(<<>>, 0, FALSE)
             [] IsList(old[k]) /\ k # st.i + 1 ->
                  Filled(Cells(old[k][2]), Doubled(LenOf(old[k][2])), Typed(old[k][2]))
             [] IsList(old[k]) /\ k = st.i + 1 -> Changed(old[k][2], st.j, st.n)] = copies
    BY <1>2 DEF CopyOf
  <2> DEFINE lens == [k \in DOMAIN old |->
               IF k = st.i + 1 /\ LenOf(old[k][2]) <= st.j THEN st.j + 1 ELSE LenOf(old[k][2])]
  <2>2. \A k \in 1..n : lens[k] = CopyLen(st, k)
    BY <1>2 DEF CopyLen
  <2>3. [k \in DOMAIN old |->
           IF IsList(old[k]) THEN Item(Slice(Len(heap) + k, 0, lens[k])) ELSE old[k]] = new
    <3> HIDE DEF lens
    <3> QED BY <1>2, <2>2 DEF NewCell
  <2> QED BY <2>1, <2>3 DEF inner
<1>4. ~AllFlat(heap)
  <2>1. st.i < LenOf(s) /\ IsList(old[st.i + 1])
    BY DEF inner
  <2> HIDE DEF s
  <2>2. st.i + 1 \in 1..Len(old)
    BY <1>1, <1>2, <2>1
  <2> QED BY <1>2, <2>1, <2>2 DEF NoLists
<1>5. copies = [k \in 1..n |-> CopyOf(st, k)] /\ new = [k \in 1..n |-> NewCell(st, k)] /\ h = heap \o copies
      /\ r = MadeIn(h, new, CapOf(s), FALSE)
  OBVIOUS
<1>6. \A k \in 1..n : IsList(old[k]) =>
        /\ IsCopy(CopyOf(st, k), st, k) /\ InnerCells(st, k) \in Seq(Cell)
        /\ Len(InnerCells(st, k)) = CopyLen(st, k)
  BY CopyIs
<1>7. /\ \A k \in 1..n : ~IsList(old[k]) => CopyOf(st, k) = Filled(<<>>, 0, FALSE) /\ NewCell(st, k) = old[k]
      /\ \A k \in 1..n : IsList(old[k]) => NewCell(st, k) = Item(Slice(Len(heap) + k, 0, CopyLen(st, k)))
  BY DEF CopyOf, NewCell
<1>8. \A k \in 1..n : IsList(Cells(w(st))[k]) <=> IsList(old[k])
  OBVIOUS
<1> HIDE DEF s, old, n, copies, new, h, r
<1>9. CellsOK(heap, <<>>, FALSE)
  <2>1. <<>> \in Seq(Cell) /\ Len(<<>>) = 0
    OBVIOUS
  <2> DEFINE e == <<>>
  <2>2. e \in Seq(Cell) /\ Len(e) = 0
    BY <2>1
  <2> HIDE DEF e
  <2>3. CellsOK(heap, e, FALSE)
    BY <2>2 DEF CellsOK
  <2> QED BY <2>3 DEF e
<1>10. ASSUME NEW k \in 1..n
       PROVE  /\ copies[k] \in Array /\ CellsOK(heap, copies[k].cells, copies[k].typed)
              /\ IsList(old[k]) =>
                   /\ Len(InnerCells(st, k)) <= Len(copies[k].cells)
                   /\ \A l \in 1..Len(InnerCells(st, k)) : copies[k].cells[l] = InnerCells(st, k)[l]
  <2>1. copies[k] = CopyOf(st, k)
    BY <1>5
  <2>2. CASE IsList(old[k])
    <3>1. PICK typed \in BOOLEAN, cap \in Nat :
            CellsOK(heap, InnerCells(st, k), typed) /\ copies[k] = Filled(InnerCells(st, k), cap, typed)
      BY <1>6, <2>1, <2>2 DEF IsCopy
    <3> DEFINE c == InnerCells(st, k)  f == copies[k]
    <3>2. CellsOK(heap, c, typed) /\ f = Filled(c, cap, typed)
      BY <3>1
    <3> HIDE DEF c, f
    <3>3. StartsWith(f, heap, c, typed)
      BY ONLY <3>2, typed \in BOOLEAN, cap \in Nat, FilledStarts
    <3> QED BY ONLY <3>3 DEF c, f, StartsWith
  <2>3. CASE ~IsList(old[k])
    <3> DEFINE e == <<>>  zero == 0  f == copies[k]
    <3>1. CellsOK(heap, e, FALSE) /\ f = Filled(e, zero, FALSE) /\ zero \in Nat /\ FALSE \in BOOLEAN
      BY <1>7, <1>9, <2>1, <2>3
    <3> HIDE DEF e, zero, f
    <3>2. StartsWith(f, heap, e, FALSE)
      BY ONLY <3>1, FilledStarts
    <3> QED BY ONLY <2>3, <3>2 DEF f, StartsWith
  <2> QED BY <2>2, <2>3
<1>11. copies \in Seq(Array) /\ Len(copies) = n
  <2>1. copies \in [1..n -> Array]
    <3>1. copies = [k \in 1..n |-> copies[k]]
      BY <1>5
    <3> QED BY ONLY <1>10, <3>1
  <2> QED BY ONLY <1>2, <2>1, SeqIs
<1>12. /\ HeapOK(h) /\ Later(heap, h) /\ Same(heap, h)
       /\ Len(heap) \in Nat /\ Len(h) = Len(heap) + n
       /\ \A k \in 1..n : Len(heap) + k \in 1..Len(h) /\ h[Len(heap) + k] = copies[k]
  <2>1. \A k \in 1..Len(copies) : CellsOK(heap, copies[k].cells, copies[k].typed)
    BY ONLY <1>10, <1>11
  <2>2. copies \in Seq(Array) /\ h = heap \o copies
    BY <1>5, <1>11
  <2>3. /\ HeapOK(h) /\ Later(heap, h) /\ Same(heap, h)
        /\ Len(heap) \in Nat /\ Len(h) = Len(heap) + Len(copies)
        /\ \A k \in 1..Len(copies) : Len(heap) + k \in 1..Len(h) /\ h[Len(heap) + k] = copies[k]
    BY ONLY <1>1, <2>1, <2>2, AppendArrays
  <2> QED BY ONLY <1>11, <2>3
<1>13. ASSUME NEW k \in 1..n, IsList(old[k])
       PROVE  /\ IsList(new[k]) /\ new[k][2].array \in 1..Len(h)
              /\ SliceIn(h, new[k][2]) /\ CellsIn(h, new[k][2]) = InnerCells(st, k)
              /\ new[k] = Item(new[k][2])
  <2> DEFINE a == Len(heap) + k  c == InnerCells(st, k)  t == Slice(a, 0, Len(c))
  <2>1. /\ a \in 1..Len(h) /\ c \in Seq(Cell) /\ Len(c) <= Len(h[a].cells)
        /\ \A l \in 1..Len(c) : h[a].cells[l] = c[l]
    BY <1>6, <1>10, <1>12, <1>13
  <2>2. new[k] = Item(t) /\ t.array = a
    BY <1>5, <1>6, <1>7, <1>13 DEF Slice
  <2>3. t = Slice(a, 0, Len(c))
    OBVIOUS
  <2> HIDE DEF a, c, t
  <2>4. SliceIn(h, t) /\ CellsIn(h, t) = c
    BY ONLY <1>12, <2>1, <2>3, FrontOf
  <2>5. IsList(new[k]) /\ new[k][2] = t
    BY <2>2 DEF Item, IsList
  <2> QED BY ONLY <2>1, <2>2, <2>4, <2>5 DEF c
<1>14. \A k \in 1..n : ~IsList(old[k]) => new[k] = old[k]
  BY <1>5, <1>7
<1>15. ASSUME NEW k \in 1..n PROVE CellIn(h, new[k], FALSE)
  <2>1. CASE IsList(old[k])
    <3>1. new[k] = Item(new[k][2]) /\ new[k][2] \in Slices /\ SliceIn(h, new[k][2])
      BY <1>13, <2>1 DEF SliceIn
    <3>2. new[k] \in Cell
      BY <3>1, CellParts
    <3> QED BY <3>1, <3>2 DEF CellIn
  <2>2. CASE ~IsList(old[k])
    <3>1. old[k] \in Cell
      BY <1>2, ElementOfSeq
    <3> QED BY <1>14, <2>2, <3>1 DEF CellIn
  <2> QED BY <2>1, <2>2
<1>16. new \in Seq(Cell) /\ Len(new) = n
  <2>1. new \in [1..n -> Cell]
    <3>1. new = [k \in 1..n |-> new[k]]
      BY <1>5
    <3> QED BY ONLY <1>15, <3>1 DEF CellIn
  <2> QED BY ONLY <1>2, <2>1, SeqIs
<1>17. CellsOK(h, new, FALSE)
  BY ONLY <1>15, <1>16 DEF CellsOK
<1>18. SameBut(heap, h, 0)
  BY <1>12 DEF Same, SameBut
<1>19. Gets(r, 0, 0, new)
  <2>1. FALSE \in BOOLEAN /\ (AllFlat(heap) /\ NoLists(new) => AllFlat(h)) /\ r = MadeIn(h, new, CapOf(s), FALSE)
    BY <1>4, <1>5
  <2> QED BY ONLY <1>1, <1>2, <1>12, <1>17, <1>18, <2>1, MadeAfter
<1>20. ASSUME NEW k \in 1..n, IsList(old[k])
       PROVE  CellsIn(r.heap, new[k][2]) = InnerCells(st, k)
  <2> DEFINE cap == CapOf(s)
  <2>1. FALSE \in BOOLEAN /\ cap \in Nat /\ r = MadeIn(h, new, cap, FALSE)
    BY <1>2, <1>5
  <2> HIDE DEF cap
  <2>2. Same(h, r.heap)
    BY ONLY <1>12, <1>17, <2>1, MadeIs
  <2>3. r.heap[new[k][2].array] = h[new[k][2].array]
    BY <1>13, <1>20, <2>2 DEF Same
  <2> QED BY <1>13, <1>20, <2>3 DEF CellsIn
<1>21. \A k \in 1..n :
         IF IsList(old[k]) THEN IsList(new[k]) /\ CellsIn(r.heap, new[k][2]) = InnerCells(st, k)
         ELSE new[k] = old[k]
  BY ONLY <1>13, <1>14, <1>20
<1>22. Len(new) = LenOf(s)
  BY <1>16 DEF n
<1> QED BY ONLY <1>3, <1>4, <1>19, <1>21, <1>22 DEF n, old, s

-----------------------------------------------------------------------------
(* Whether a list that is made has lists in it *)

LEMMA JoinedNone ==
  ASSUME NEW s \in Seq(Cell), NEW t \in Seq(Cell), NoLists(s), NoLists(t)
  PROVE  s \o t \in Seq(Cell) /\ NoLists(s \o t)
<1> DEFINE st == s \o t
<1>1. /\ Len(s) \in Nat /\ Len(t) \in Nat /\ st \in Seq(Cell) /\ Len(st) = Len(s) + Len(t)
      /\ \A i \in 1..Len(s) + Len(t) : st[i] = IF i <= Len(s) THEN s[i] ELSE t[i - Len(s)]
  BY ConcatProperties, LenProperties
<1> HIDE DEF st
<1>2. ASSUME NEW k \in 1..Len(st)
      PROVE  \/ k \in 1..Len(s) /\ st[k] = s[k]
             \/ k - Len(s) \in 1..Len(t) /\ st[k] = t[k - Len(s)]
  BY <1>1
<1>3. NoLists(st)
  BY <1>2 DEF NoLists
<1> QED BY <1>1, <1>3 DEF st

LEMMA PartNone ==
  ASSUME NEW s \in Seq(Cell), NoLists(s), NEW m \in Nat, NEW n \in Int, m >= 1, n <= Len(s)
  PROVE  SubSeq(s, m, n) \in Seq(Cell) /\ NoLists(SubSeq(s, m, n))
<1> DEFINE t == SubSeq(s, m, n)
<1>1. \A k \in m..n : k \in 1..Len(s) /\ s[k] \in Cell
  BY ElementOfSeq, LenProperties
<1>2. /\ t \in Seq(Cell) /\ Len(t) = IF m <= n THEN n - m + 1 ELSE 0
      /\ \A k \in 1..n - m + 1 : t[k] = s[m + k - 1]
  BY <1>1, SubSeqProperties
<1> HIDE DEF t
<1>3. \A k \in 1..Len(t) : m + k - 1 \in 1..Len(s) /\ t[k] = s[m + k - 1]
  BY <1>1, <1>2
<1>4. NoLists(t)
  BY <1>3 DEF NoLists
<1> QED BY <1>2, <1>4 DEF t

LEMMA OneNone ==
  ASSUME NEW c \in Cell, ~IsList(c)
  PROVE  <<c>> \in Seq(Cell) /\ NoLists(<<c>>)
<1> DEFINE s == <<c>>
<1>1. s \in Seq(Cell) /\ Len(s) = 1 /\ s[1] = c
  BY OneItem
<1> HIDE DEF s
<1>2. NoLists(s)
  BY <1>1 DEF NoLists
<1> QED BY <1>1, <1>2 DEF s

(* A statement that keeps lists in one variable makes its list in a new    *)
(* array, or in the one of the variable it assigns to.                     *)
Fits(st, b, cells) ==
  /\ Does(st, b, cells)
  /\ Own(st) => b = 0 \/ (b = w(st).array /\ st.v = st.w)
  /\ Own(st) /\ AllFlat(heap) => NoLists(cells)

LEMMA StatementFits ==
  ASSUME NEW st, Ready(st), Do(st), st.op # "esplit"
  PROVE  \E b, cells : Fits(st, b, cells)
<1> DEFINE s == w(st)  t == lists[st.x]  b == s.array  one == <<Number(st.n)>>
<1>1. /\ HeapOK(heap) /\ SliceIn(heap, s) /\ SliceIn(heap, t)
      /\ st.i \in Nat /\ st.j \in Nat /\ st.n \in Nat
  BY Operands
<1>2. /\ Cells(s) \in Seq(Cell) /\ Len(Cells(s)) = LenOf(s) /\ LenOf(s) \in Nat
      /\ CellsOK(heap, Cells(s), Typed(s)) /\ Typed(s) \in BOOLEAN
      /\ (AllFlat(heap) => NoLists(Cells(s)))
  BY <1>1, ListIs
<1>3. Cells(t) \in Seq(Cell) /\ (AllFlat(heap) => NoLists(Cells(t)))
  BY <1>1, ListIs
<1>4. /\ Number(st.n) \in Cell /\ ~IsList(Number(st.n)) /\ Front_(st) \in Cell /\ ~IsList(Front_(st))
      /\ IsNumber(Number(st.n))
  BY <1>1, CellParts DEF Front_
<1>5. one \in Seq(Cell) /\ NoLists(one)
  BY <1>4, OneNone
<1>6. st.op \in {"set"} => st.v = st.w
  BY ListsAssumption DEF Ready
<1> HIDE DEF s, t, b, one
<1>7. CASE st.op = "literal" /\ literal(st)
  <2>1. Does(st, 0, one)
    BY <1>7, literalDoes DEF one
  <2> QED BY ONLY <1>5, <2>1 DEF Fits
<1>8. CASE st.op = "range" /\ range(st)
  <2>1. Does(st, 1, Cells(TheRange)) /\ ~Own(st)
    BY <1>8, rangeDoes DEF Own
  <2> QED BY ONLY <2>1 DEF Fits
<1>9. CASE st.op = "nest" /\ nest(st)
  <2> DEFINE c == <<Item(w(st)), Item(lists[st.x])>>
  <2>1. Does(st, 0, c) /\ ~Own(st)
    BY <1>9, nestDoes DEF Own
  <2> HIDE DEF c
  <2> QED BY ONLY <2>1 DEF Fits
<1>10. CASE st.op = "assign" /\ assign(st)
  <2>1. Does(st, w(st).array, Cells(w(st))) /\ ~Own(st)
    BY <1>10, assignDoes DEF Own
  <2> QED BY ONLY <2>1 DEF Fits
<1>11. CASE st.op = "element" /\ element(st)
  <2> DEFINE c == Cells(w(st))[st.i + 1]
  <2>1. Does(st, c[2].array, Cells(c[2])) /\ ~Own(st)
    BY <1>11, elementDoes DEF Own
  <2> HIDE DEF c
  <2> QED BY ONLY <2>1 DEF Fits
<1>12. ASSUME Own(st), st.op \in {"append", "append_to", "concat", "sort", "uniq", "tail", "pop", "slice", "set"}
       PROVE  st.v = st.w
  BY <1>6, <1>12 DEF Own
<1>13. CASE st.op = "slice" /\ slice(st)
  <2> DEFINE m == st.i + 1  c == SubSeq(Cells(s), m, st.j)
  <2>1. st.j <= LenOf(s) /\ Does(st, b, c)
    BY <1>13, sliceDoes DEF s, b
  <2>2. m \in Nat /\ m >= 1 /\ st.j <= Len(Cells(s)) /\ st.j \in Int /\ c = SubSeq(Cells(s), m, st.j)
    BY <1>1, <1>2, <2>1
  <2> HIDE DEF m, c
  <2>3. AllFlat(heap) => NoLists(c)
    BY ONLY <1>2, <2>2, PartNone
  <2> QED BY <1>12, <1>13, <2>1, <2>3 DEF Fits, b, s
<1>14. CASE st.op = "tail" /\ tail(st)
  <2> DEFINE two == 2  c == SubSeq(Cells(s), two, LenOf(s))
  <2>1. Does(st, b, c)
    BY <1>14, tailDoes DEF s, b
  <2>2. two \in Nat /\ two >= 1 /\ LenOf(s) <= Len(Cells(s)) /\ LenOf(s) \in Int /\ c = SubSeq(Cells(s), two, LenOf(s))
    BY <1>2
  <2> HIDE DEF two, c
  <2>3. AllFlat(heap) => NoLists(c)
    BY ONLY <1>2, <2>2, PartNone
  <2> QED BY <1>12, <1>14, <2>1, <2>3 DEF Fits, b, s
<1>15. CASE st.op = "pop" /\ pop(st)
  <2> DEFINE m == 1  n == LenOf(s) - 1  c == SubSeq(Cells(s), m, n)
  <2>1. Does(st, b, c)
    BY <1>15, popDoes DEF s, b
  <2>2. m \in Nat /\ m >= 1 /\ n <= Len(Cells(s)) /\ n \in Int /\ c = SubSeq(Cells(s), m, n)
    BY <1>2
  <2> HIDE DEF m, n, c
  <2>3. AllFlat(heap) => NoLists(c)
    BY ONLY <1>2, <2>2, PartNone
  <2> QED BY <1>12, <1>15, <2>1, <2>3 DEF Fits, b, s
<1>16. CASE st.op = "append" /\ append(st)
  <2> DEFINE c == Cells(s) \o one
  <2>1. st.op \in Writers
    BY <1>16 DEF Writers
  <2>2. Does(st, b, c)
    BY <1>16, <2>1, appendDoes DEF s, b, one
  <2>3. AllFlat(heap) => NoLists(c)
    BY ONLY <1>2, <1>5, JoinedNone
  <2> HIDE DEF c
  <2> QED BY <1>12, <1>16, <2>2, <2>3 DEF Fits, b, s
<1>17. CASE st.op = "append_to" /\ append_to(st)
  <2> DEFINE c == Cells(s) \o one
  <2>1. st.op \in Writers
    BY <1>17 DEF Writers
  <2>2. Does(st, b, c)
    BY <1>17, <2>1, append_toDoes DEF s, b, one
  <2>3. AllFlat(heap) => NoLists(c)
    BY ONLY <1>2, <1>5, JoinedNone
  <2> HIDE DEF c
  <2> QED BY <1>12, <1>17, <2>2, <2>3 DEF Fits, b, s
<1>18. CASE st.op = "concat" /\ concat(st)
  <2> DEFINE c == Cells(s) \o Cells(t)
  <2>1. st.op \in Writers
    BY <1>18 DEF Writers
  <2>2. Does(st, b, c)
    BY <1>18, <2>1, concatDoes DEF s, t, b
  <2>3. AllFlat(heap) => NoLists(c)
    BY ONLY <1>2, <1>3, JoinedNone
  <2> HIDE DEF c
  <2> QED BY <1>12, <1>18, <2>2, <2>3 DEF Fits, b, s
<1>19. CASE st.op = "push_front" /\ push_front(st)
  <2> DEFINE f == <<Front_(st)>>  c == f \o Cells(s)
  <2>1. Does(st, 0, c)
    BY <1>19, push_frontDoes DEF s
  <2>2. f \in Seq(Cell) /\ NoLists(f)
    BY <1>4, OneNone
  <2> HIDE DEF f
  <2>3. AllFlat(heap) => NoLists(c)
    BY ONLY <1>2, <2>2, JoinedNone
  <2> HIDE DEF c
  <2> QED BY ONLY <2>1, <2>3 DEF Fits
<1>20. CASE st.op = "insert" /\ insert(st)
  <2> DEFINE old == Cells(s)  i == st.i  m == i - 1  n == LenOf(s)  c == InsertAt(old, i, Number(st.n))
             p == SubSeq(old, 1, m)  q == SubSeq(old, i, Len(old))  f == p \o one
  <2>1. i \in 1..n + 1 /\ Does(st, 0, c)
    BY <1>20, insertDoes DEF s
  <2>2. c = f \o q
    BY DEF InsertAt, one
  <2>3. /\ 1 \in Nat /\ 1 >= 1 /\ m \in Int /\ m <= Len(old)
        /\ i \in Nat /\ i >= 1 /\ Len(old) \in Int /\ Len(old) <= Len(old) /\ old \in Seq(Cell)
        /\ (AllFlat(heap) => NoLists(old))
    BY <1>1, <1>2, <2>1
  <2> HIDE DEF old, i, m, c
  <2>4. AllFlat(heap) => p \in Seq(Cell) /\ NoLists(p) /\ q \in Seq(Cell) /\ NoLists(q)
    BY ONLY <2>3, PartNone
  <2> HIDE DEF p, q
  <2>5. AllFlat(heap) => f \in Seq(Cell) /\ NoLists(f)
    BY ONLY <1>5, <2>4, JoinedNone
  <2> HIDE DEF f
  <2>6. AllFlat(heap) => NoLists(c)
    BY ONLY <2>2, <2>4, <2>5, JoinedNone
  <2> QED BY ONLY <2>1, <2>6 DEF Fits
<1>21. CASE st.op = "remove" /\ remove(st)
  <2> DEFINE old == Cells(s)  i == st.i  m == i - 1  k == i + 1  n == LenOf(s)  c == RemoveAt(old, i)
             p == SubSeq(old, 1, m)  q == SubSeq(old, k, Len(old))
  <2>1. i \in 1..n /\ Does(st, 0, c)
    BY <1>21, removeDoes DEF s
  <2>2. c = p \o q
    BY DEF RemoveAt
  <2>3. /\ 1 \in Nat /\ 1 >= 1 /\ m \in Int /\ m <= Len(old)
        /\ k \in Nat /\ k >= 1 /\ Len(old) \in Int /\ Len(old) <= Len(old) /\ old \in Seq(Cell)
        /\ (AllFlat(heap) => NoLists(old))
    BY <1>1, <1>2, <2>1
  <2> HIDE DEF old, i, m, k, c
  <2>4. AllFlat(heap) => p \in Seq(Cell) /\ NoLists(p) /\ q \in Seq(Cell) /\ NoLists(q)
    BY ONLY <2>3, PartNone
  <2> HIDE DEF p, q
  <2>5. AllFlat(heap) => NoLists(c)
    BY ONLY <2>2, <2>4, JoinedNone
  <2> QED BY ONLY <2>1, <2>5 DEF Fits
<1>22. CASE st.op = "list_fill" /\ list_fill(st)
  <2> DEFINE n == LenOf(s)  c == [k \in 1..n |-> Number(st.n)]
  <2>1. Does(st, 0, c)
    BY <1>22, list_fillDoes DEF s
  <2>2. n \in Nat /\ c \in [1..n -> Cell] /\ \A k \in 1..n : IsNumber(c[k])
    BY <1>2, <1>4
  <2> HIDE DEF c, n
  <2>3. NoLists(c)
    BY ONLY <2>2, AllNumbers
  <2> QED BY ONLY <2>1, <2>3 DEF Fits
<1>23. CASE st.op = "add" /\ add(st)
  <2> DEFINE old == Cells(s)  n == LenOf(s)  c == Plus(old, st.n)
  <2>1. Does(st, 0, c) /\ NoLists(old)
    BY <1>23, addDoes DEF s
  <2>2. n \in Nat /\ DOMAIN old = 1..n /\ \A k \in 1..n : old[k] \in Cell /\ ~IsList(old[k])
    BY <1>2, <2>1, ElementOfSeq, LenProperties DEF NoLists
  <2> HIDE DEF old, n
  <2>3. \A k \in 1..n : old[k][2] + st.n \in Nat
    BY <1>1, <2>2, CellParts
  <2>4. c \in [1..n -> Cell] /\ \A k \in 1..n : IsNumber(c[k])
    BY <2>2, <2>3, CellParts DEF Plus
  <2> HIDE DEF c
  <2>5. NoLists(c)
    BY ONLY <2>2, <2>4, AllNumbers
  <2> QED BY ONLY <2>1, <2>5 DEF Fits
<1>24. CASE st.op = "sort" /\ sort(st)
  <2> DEFINE old == Cells(s)  c == SortedCells(old)
  <2>1. st.op \in Writers
    BY <1>24 DEF Writers
  <2>2. Does(st, b, c) /\ NoLists(old)
    BY <1>24, <2>1, sortDoes DEF s, b
  <2>3. old \in Seq(Cell) /\ c = SortedCells(old)
    BY <1>2
  <2> HIDE DEF old, c
  <2>4. NoLists(c)
    BY ONLY <2>2, <2>3, SortedIs
  <2> QED BY <1>12, <1>24, <2>2, <2>4 DEF Fits, b, s
<1>25. CASE st.op = "uniq" /\ uniq(st)
  <2> DEFINE old == Cells(s)  c == Once(old)
  <2>1. st.op \in Writers
    BY <1>25 DEF Writers
  <2>2. Does(st, b, c) /\ NoLists(old)
    BY <1>25, <2>1, uniqDoes DEF s, b
  <2>3. old \in Seq(Cell) /\ c = Once(old)
    BY <1>2
  <2> HIDE DEF old, c
  <2>4. NoLists(c)
    BY ONLY <2>2, <2>3, OnceIs
  <2> QED BY <1>12, <1>25, <2>2, <2>4 DEF Fits, b, s
<1>26. CASE st.op = "set" /\ set(st)
  <2> DEFINE ty == Typed(s)  old == Cells(s)  e == Number(st.n)  i == st.i  c == Put(old, i, ty, e)
  <2>1. st.op \in Writers
    BY <1>26 DEF Writers
  <2>2. Does(st, b, c)
    BY <1>26, <2>1, setDoes DEF s, b
  <2>3. /\ ty \in BOOLEAN /\ CellsOK(heap, old, ty) /\ i \in Nat /\ c = Put(old, i, ty, e) /\ ~IsList(e)
        /\ (AllFlat(heap) => NoLists(old)) /\ CellIn(heap, e, ty)
    BY <1>1, <1>2, <1>4, NumberCell
  <2> HIDE DEF ty, old, e, i, c
  <2>4. AllFlat(heap) => NoLists(c)
    BY ONLY <2>3, PutIs
  <2> QED BY <1>12, <1>26, <2>2, <2>4 DEF Fits, b, s
<1>27. CASE st.op = "inner" /\ inner(st)
  <2>1. PICK r, new : Gives(st, r) /\ Gets(r, 0, 0, new) /\ ~AllFlat(heap)
    BY <1>27, innerDoes
  <2>2. Target(st) = 0
    BY <1>27 DEF Target, Writers
  <2> QED BY ONLY <2>1, <2>2 DEF Fits, Does
<1> QED BY <1>7, <1>8, <1>9, <1>10, <1>11, <1>13, <1>14, <1>15, <1>16, <1>17, <1>18, <1>19, <1>20,
           <1>21, <1>22, <1>23, <1>24, <1>25, <1>26, <1>27 DEF Do

-----------------------------------------------------------------------------
(* What no statement breaks *)

Apart ==
  \A v, u \in Vars : v # u /\ lists[v] # None /\ lists[u] # None => lists[v].array # lists[u].array

OwnInv == owned => AllFlat(heap) /\ Apart

IInv == TypeOK /\ OwnInv

(* After a statement that is not esplit. *)
LEMMA DoesKeeps ==
  ASSUME NEW st, Ready(st), NEW b, NEW cells, Fits(st, b, cells)
  PROVE  /\ HeapOK(heap') /\ Later(heap, heap')
         /\ lists' \in [Vars -> Slices \cup {None}]
         /\ \A v \in Vars : SliceIn(heap', lists'[v])
         /\ \A v \in Vars : v # st.v => lists'[v] = lists[v]
         /\ SameBut(heap, heap', Target(st))
         /\ CellsIn(heap', lists'[st.v]) = cells
         /\ Own(st) /\ AllFlat(heap) => AllFlat(heap')
         /\ Own(st) /\ Apart =>
              \A v \in Vars : v # st.v => lists'[v].array # lists'[st.v].array
<1>1. PICK r : Gives(st, r) /\ Gets(r, Target(st), b, cells)
  BY DEF Fits, Does
<1>2. heap' = r.heap /\ lists' = [lists EXCEPT ![st.v] = r.list]
  BY <1>1 DEF Gives
<1>3. /\ HeapOK(heap) /\ heap \in Seq(Array) /\ lists \in [Vars -> Slices \cup {None}]
      /\ st.v \in Vars /\ st.w \in Vars
      /\ \A v \in Vars : lists[v] # None /\ SliceIn(heap, lists[v])
  BY Operands DEF Ready, TypeOK, HeapOK
<1>4. HeapOK(heap') /\ Later(heap, heap') /\ SliceIn(heap', r.list)
  BY <1>1, <1>2 DEF Gets
<1>5. lists'[st.v] = r.list /\ \A v \in Vars : v # st.v => lists'[v] = lists[v]
  BY <1>2, <1>3
<1>6. lists' \in [Vars -> Slices \cup {None}]
  <2>1. r.list \in Slices
    BY <1>4 DEF SliceIn
  <2> QED BY <1>2, <1>3, <2>1
<1>7. ASSUME NEW v \in Vars PROVE SliceIn(heap', lists'[v])
  <2>1. SliceIn(heap', lists[v])
    BY <1>3, <1>4, LaterSlice
  <2> QED BY <1>4, <1>5, <2>1
<1>8. Own(st) /\ AllFlat(heap) => AllFlat(heap')
  BY <1>1, <1>2 DEF Gets, Fits
<1>9. ASSUME Own(st), Apart, NEW v \in Vars, v # st.v PROVE lists'[v].array # lists'[st.v].array
  <2>1. lists'[v] = lists[v] /\ lists'[st.v] = r.list
    BY <1>5, <1>9
  <2>2. lists[v].array \in 1..Len(heap) /\ Len(heap) \in Nat
    BY <1>3, LenProperties DEF SliceIn
  <2>3. r.list.array = b \/ r.list.array > Len(heap)
    BY <1>1 DEF Gets
  <2>4. b = 0 \/ (b = w(st).array /\ st.v = st.w)
    BY <1>9 DEF Fits
  <2>5. lists[v].array # lists[st.v].array
    BY <1>3, <1>9 DEF Apart
  <2>6. CASE r.list.array > Len(heap)
    BY <2>1, <2>2, <2>6
  <2>7. CASE r.list.array = b /\ b = 0
    BY <2>1, <2>2, <2>7
  <2>8. CASE r.list.array = b /\ b = w(st).array /\ st.v = st.w
    BY <2>1, <2>5, <2>8 DEF w
  <2> QED BY <2>3, <2>4, <2>6, <2>7, <2>8
<1>10. SameBut(heap, heap', Target(st)) /\ CellsIn(heap', lists'[st.v]) = cells
  BY <1>1, <1>2, <1>5 DEF Gets
<1> QED BY <1>3, <1>4, <1>5, <1>6, <1>7, <1>8, <1>9, <1>10

LEMMA esplitKeeps ==
  ASSUME NEW st, Ready(st), esplit(st)
  PROVE  /\ UNCHANGED heap /\ lists' \in [Vars -> Slices \cup {None}]
         /\ \A v \in Vars : SliceIn(heap, lists'[v])
         /\ \A v \in Vars : v \notin {st.v, st.x} => lists'[v] = lists[v]
<1> DEFINE s == w(st)  mid == s.from + st.i - 1  f == [s EXCEPT !.to = mid]  t == [s EXCEPT !.from = mid]
<1>1. /\ HeapOK(heap) /\ SliceIn(heap, s) /\ st.i \in Nat /\ st.v \in Vars /\ st.x \in Vars
      /\ lists \in [Vars -> Slices \cup {None}]
      /\ \A v \in Vars : SliceIn(heap, lists[v])
  BY Operands DEF Ready, TypeOK
<1>2. /\ UNCHANGED heap /\ lists' = [[lists EXCEPT ![st.v] = f] EXCEPT ![st.x] = t]
      /\ st.i \in 1..LenOf(s)
  BY DEF esplit
<1> HIDE DEF s
<1>3. /\ s \in Slices /\ s.array \in 1..Len(heap) /\ s.from \in Nat /\ s.to \in Nat /\ s.from <= s.to
      /\ s.to <= Len(heap[s.array].cells) /\ Len(heap[s.array].cells) \in Nat
  BY <1>1, SliceParts
<1>4. mid \in Nat /\ s.from <= mid /\ mid <= s.to
  BY <1>1, <1>2, <1>3 DEF LenOf
<1> HIDE DEF mid
<1>5. /\ f \in Slices /\ f.array = s.array /\ f.from = s.from /\ f.to = mid
      /\ t \in Slices /\ t.array = s.array /\ t.from = mid /\ t.to = s.to
  BY <1>3, <1>4 DEF Slices
<1> HIDE DEF f, t
<1>6. SliceIn(heap, f) /\ SliceIn(heap, t)
  BY ONLY <1>3, <1>4, <1>5 DEF SliceIn
<1>7. /\ lists' \in [Vars -> Slices \cup {None}]
      /\ \A v \in Vars : lists'[v] = IF v = st.x THEN t ELSE IF v = st.v THEN f ELSE lists[v]
  BY ONLY <1>1, <1>2, <1>5
<1> QED BY ONLY <1>1, <1>2, <1>6, <1>7

(* What a variable is declared as: a list of values. *)
IsFirst(fl, c, cap, typed) ==
  /\ fl = <<Filled(c, cap, typed), Len(c)>>
  /\ CellsOK(heap, c, typed) /\ NoLists(c)

LEMMA FirstListIs ==
  ASSUME NEW fl \in FirstLists
  PROVE  \E c : \E cap \in Nat, typed \in BOOLEAN : IsFirst(fl, c, cap, typed)
<1> DEFINE n == <<Number(1)>>  p == <<Text(1)>>  tn == <<Text(1), Number(1)>>
<1>1. /\ Number(1) \in Cell /\ ~IsList(Number(1)) /\ Text(1) \in Cell /\ ~IsList(Text(1))
      /\ \A ty : CellIn(heap, Number(1), ty) /\ CellIn(heap, Text(1), FALSE)
  BY CellParts, NumberCell
<1>2. n \in Seq(Cell) /\ NoLists(n) /\ p \in Seq(Cell) /\ NoLists(p)
  BY <1>1, OneNone
<1>3. CellsOK(heap, n, FALSE) /\ CellsOK(heap, n, TRUE) /\ CellsOK(heap, p, FALSE)
  BY <1>1, OneCell
<1>4. tn = p \o n /\ Len(n) = 1 /\ Len(tn) = 2
  <2>1. tn = p \o n
    BY Z3
  <2>2. Len(n) = 1 /\ Len(tn) = 2
    OBVIOUS
  <2> QED BY ONLY <2>1, <2>2
<1>5. /\ \/ fl = <<Filled(n, 1, FALSE), Len(n)>> \/ fl = <<Filled(n, FirstCap, TRUE), Len(n)>>
         \/ fl = <<Filled(tn, FirstCap, FALSE), Len(tn)>>
      /\ 1 \in Nat /\ FirstCap \in Nat
  BY <1>4, ListsAssumption DEF FirstLists
<1> HIDE DEF n, p, tn
<1>6. NoLists(tn)
  BY ONLY <1>2, <1>4, JoinedNone
<1>7. CellsOK(heap, tn, FALSE)
  BY ONLY <1>3, <1>4, JoinedCells
<1>8. CASE fl = <<Filled(n, 1, FALSE), Len(n)>>
  <2>1. IsFirst(fl, n, 1, FALSE)
    BY <1>2, <1>3, <1>8 DEF IsFirst
  <2> QED BY ONLY <1>5, <2>1
<1>9. CASE fl = <<Filled(n, FirstCap, TRUE), Len(n)>>
  <2>1. IsFirst(fl, n, FirstCap, TRUE)
    BY <1>2, <1>3, <1>9 DEF IsFirst
  <2> QED BY ONLY <1>5, <2>1
<1>10. CASE fl = <<Filled(tn, FirstCap, FALSE), Len(tn)>>
  <2>1. IsFirst(fl, tn, FirstCap, FALSE)
    BY <1>6, <1>7, <1>10 DEF IsFirst
  <2> QED BY ONLY <1>5, <2>1
<1> QED BY ONLY <1>5, <1>8, <1>9, <1>10

(* A variable that is declared gets an array of its own. *)
LEMMA DeclareKeeps ==
  ASSUME TypeOK, NEW v \in Vars, Declare(v)
  PROVE  /\ HeapOK(heap') /\ Later(heap, heap')
         /\ \E s \in Slices : /\ lists' = [lists EXCEPT ![v] = s] /\ SliceIn(heap', s)
                              /\ \A u \in Vars : lists[u] # None => lists[u].array # s.array
         /\ AllFlat(heap) => AllFlat(heap')
<1>1. PICK fl \in FirstLists :
        /\ heap' = Append(heap, fl[1])
        /\ lists' = [lists EXCEPT ![v] = Slice(Len(heap) + 1, 0, fl[2])]
  BY DEF Declare
<1>2. PICK c : \E cap_ \in Nat, typed_ \in BOOLEAN : IsFirst(fl, c, cap_, typed_)
  BY FirstListIs
<1>21. PICK cap \in Nat, typed \in BOOLEAN : IsFirst(fl, c, cap, typed)
  BY ONLY <1>2
<1>22. /\ fl = <<Filled(c, cap, typed), Len(c)>>
       /\ CellsOK(heap, c, typed) /\ NoLists(c)
  BY ONLY <1>21 DEF IsFirst
<1> DEFINE r == MadeIn(heap, c, cap, typed)
<1>3. heap' = r.heap /\ lists' = [lists EXCEPT ![v] = r.list]
  BY <1>1, <1>22 DEF MadeIn
<1>4. HeapOK(heap) /\ r = MadeIn(heap, c, cap, typed)
  BY DEF TypeOK
<1> HIDE DEF r
<1>5. /\ HeapOK(r.heap) /\ Later(heap, r.heap) /\ Same(heap, r.heap)
      /\ Len(heap) \in Nat /\ Len(r.heap) = Len(heap) + 1
      /\ SliceIn(r.heap, r.list) /\ r.list.array = Len(heap) + 1
      /\ NoLists(r.heap[Len(heap) + 1].cells)
  BY ONLY <1>21, <1>22, <1>4, MadeIs
<1>6. AllFlat(heap) => AllFlat(r.heap)
  BY ONLY <1>5 DEF AllFlat, Same
<1>7. ASSUME NEW u \in Vars, lists[u] # None PROVE lists[u].array # r.list.array
  <2>1. lists[u].array \in 1..Len(heap)
    BY <1>7 DEF TypeOK, SliceIn
  <2> QED BY <1>5, <2>1
<1> QED BY <1>3, <1>5, <1>6, <1>7 DEF SliceIn

LEMMA InitInv ==
  ASSUME Init
  PROVE  IInv
<1> DEFINE c == [k \in 1..RangeEnd |-> Number(k)]  h == <<>>  r == MadeIn(h, c, RangeEnd, FALSE)
<1>1. RangeEnd \in Nat
  BY ListsAssumption
<1>2. c \in [1..RangeEnd -> Cell] /\ \A k \in 1..RangeEnd : IsNumber(c[k])
  BY <1>1, CellParts
<1>3. heap = r.heap
  <2>1. heap = <<Filled(c, RangeEnd, FALSE)>>
    BY DEF Init
  <2> HIDE DEF c
  <2> DEFINE f == Filled(c, RangeEnd, FALSE)
  <2>2. <<f>> = Append(<<>>, f)
    OBVIOUS
  <2>3. r.heap = Append(<<>>, f)
    BY DEF MadeIn
  <2> QED BY ONLY <2>1, <2>2, <2>3
<1> HIDE DEF c
<1>4. Len(c) = RangeEnd
  BY ONLY <1>1, <1>2, AllNumbers
<1> DEFINE no == FALSE
<1>5. h \in Seq(Array) /\ Len(h) = 0 /\ r = MadeIn(h, c, RangeEnd, no) /\ no \in BOOLEAN
  OBVIOUS
<1>6. r.list = Slice(Len(h) + 1, 0, Len(c))
  BY DEF MadeIn
<1> HIDE DEF h, r, no
<1>7. HeapOK(h) /\ AllFlat(h)
  BY ONLY <1>5 DEF HeapOK, AllFlat
<1>8. CellsOK(h, c, no) /\ NoLists(c)
  <2>1. \A h_, ty_ : CellsOK(h_, c, ty_) /\ NoLists(c)
    BY ONLY <1>1, <1>2, AllNumbers
  <2> QED BY ONLY <2>1
<1>9. /\ HeapOK(r.heap) /\ Same(h, r.heap) /\ Len(r.heap) = Len(h) + 1
      /\ SliceIn(r.heap, r.list)
      /\ NoLists(r.heap[Len(h) + 1].cells)
  <2>1. PICK cap : cap \in Nat /\ r = MadeIn(h, c, cap, no)
    BY ONLY <1>1, <1>5
  <2>2. HeapOK(h) /\ CellsOK(h, c, no) /\ NoLists(c) /\ no \in BOOLEAN
    BY ONLY <1>5, <1>7, <1>8
  <2> QED BY ONLY <2>1, <2>2, MadeIs
<1>10. AllFlat(r.heap)
  BY ONLY <1>5, <1>9 DEF AllFlat
<1>11. r.list = TheRange
  <2>1. Len(h) + 1 = 1
    BY ONLY <1>5
  <2> QED BY ONLY <1>4, <1>6, <2>1 DEF TheRange
<1>12. /\ lists \in [Vars -> Slices \cup {None}] /\ owned \in BOOLEAN
       /\ \A v \in Vars : lists[v] = None
  BY DEF Init
<1> QED BY ONLY <1>3, <1>9, <1>10, <1>11, <1>12 DEF IInv, TypeOK, OwnInv, Apart

LEMMA NextInv ==
  ASSUME IInv, [Next]_vars
  PROVE  IInv'
<1>1. CASE UNCHANGED vars
  BY <1>1 DEF vars, IInv, TypeOK, OwnInv, Apart
<1>2. ASSUME NEW v \in Vars, Declare(v) PROVE IInv'
  <2>1. TypeOK /\ OwnInv
    BY DEF IInv
  <2>2. /\ HeapOK(heap') /\ Later(heap, heap')
        /\ \E s \in Slices : /\ lists' = [lists EXCEPT ![v] = s] /\ SliceIn(heap', s)
                             /\ \A u \in Vars : lists[u] # None => lists[u].array # s.array
        /\ AllFlat(heap) => AllFlat(heap')
    BY <1>2, <2>1, DeclareKeeps
  <2>3. PICK s \in Slices : /\ lists' = [lists EXCEPT ![v] = s] /\ SliceIn(heap', s)
                            /\ \A u \in Vars : lists[u] # None => lists[u].array # s.array
    BY <2>2
  <2>4. owned' = owned
    BY <1>2 DEF Declare
  <2>5. /\ lists' \in [Vars -> Slices \cup {None}]
        /\ \A u \in Vars : lists'[u] = IF u = v THEN s ELSE lists[u]
    BY <2>1, <2>3 DEF TypeOK
  <2>6. /\ \A u \in Vars : lists[u] # None => SliceIn(heap', lists[u])
        /\ SliceIn(heap', TheRange)
    BY <2>1, <2>2, LaterSlice DEF TypeOK, HeapOK
  <2>7. TypeOK'
    <3>1. TheRange' = TheRange /\ owned' \in BOOLEAN
      BY <2>1, <2>4 DEF TheRange, TypeOK
    <3> QED BY <2>2, <2>3, <2>5, <2>6, <3>1 DEF TypeOK
  <2>8. OwnInv'
    <3>1. Apart => Apart'
      BY <2>3, <2>5 DEF Apart
    <3> QED BY <2>1, <2>2, <2>4, <3>1 DEF OwnInv
  <2> QED BY <2>7, <2>8 DEF IInv
<1>3. ASSUME NEW st \in Statements, Statement(st) PROVE IInv'
  <2>1. /\ TypeOK /\ OwnInv /\ Ready(st) /\ Do(st)
        /\ owned' = (owned /\ Own(st)) /\ owned' \in BOOLEAN
    BY <1>3 DEF Statement, Ready, IInv
  <2>2. CASE st.op # "esplit"
    <3>1. PICK b, cells : Fits(st, b, cells)
      BY <2>1, <2>2, StatementFits
    <3>2. /\ HeapOK(heap') /\ Later(heap, heap')
          /\ lists' \in [Vars -> Slices \cup {None}]
          /\ \A v \in Vars : SliceIn(heap', lists'[v])
          /\ \A v \in Vars : v # st.v => lists'[v] = lists[v]
          /\ Own(st) /\ AllFlat(heap) => AllFlat(heap')
          /\ Own(st) /\ Apart => \A v \in Vars : v # st.v => lists'[v].array # lists'[st.v].array
      BY ONLY <2>1, <3>1, DoesKeeps
    <3>3. SliceIn(heap', TheRange)
      BY <2>1, <3>2, LaterSlice DEF TypeOK, HeapOK
    <3>4. TypeOK'
      <4>1. TheRange' = TheRange
        BY DEF TheRange
      <4> QED BY <2>1, <3>2, <3>3, <4>1 DEF TypeOK
    <3>5. ASSUME Own(st), Apart PROVE Apart'
      <4> SUFFICES ASSUME NEW v \in Vars, NEW u \in Vars, v # u PROVE lists'[v].array # lists'[u].array
        BY DEF Apart
      <4>1. CASE v = st.v
        BY <3>2, <3>5, <4>1
      <4>2. CASE u = st.v
        BY <3>2, <3>5, <4>2
      <4>3. CASE v # st.v /\ u # st.v
        <5>1. lists[v] # None /\ lists[u] # None
          BY <2>1 DEF Ready
        <5> QED BY <3>2, <3>5, <4>3, <5>1 DEF Apart
      <4> QED BY <4>1, <4>2, <4>3
    <3>6. OwnInv'
      BY <2>1, <3>2, <3>5 DEF OwnInv
    <3> QED BY <3>4, <3>6 DEF IInv
  <2>3. CASE st.op = "esplit"
    <3>1. esplit(st) /\ ~Own(st)
      BY <2>1, <2>3 DEF Do, Own
    <3>2. /\ UNCHANGED heap /\ lists' \in [Vars -> Slices \cup {None}]
          /\ \A v \in Vars : SliceIn(heap, lists'[v])
      BY ONLY <2>1, <3>1, esplitKeeps
    <3>3. TypeOK'
      <4>1. TheRange' = TheRange
        BY DEF TheRange
      <4> QED BY <2>1, <3>2, <4>1 DEF TypeOK
    <3>4. OwnInv'
      BY <2>1, <3>1 DEF OwnInv
    <3> QED BY <3>3, <3>4 DEF IInv
  <2> QED BY <2>2, <2>3
<1> QED BY <1>1, <1>2, <1>3 DEF Next

(* The arrays of lists are where they are, and while no statement shared   *)
(* any, every array holds only values and no two variables have the same.  *)
THEOREM Invariant == Spec => []IInv
<1>1. Init => IInv
  BY InitInv
<1>2. IInv /\ [Next]_vars => IInv'
  BY NextInv
<1> QED BY <1>1, <1>2, PTL DEF Spec

(* No two variables come to share an array in a script that only copies    *)
(* lists or gives results back to the variable they came from.             *)
THEOREM OwnListsApart == Spec => []OwnApart
<1>1. ASSUME IInv PROVE OwnApart
  <2> SUFFICES ASSUME owned, NEW v \in Vars, NEW u \in Vars, v # u, lists[v] # None, lists[u] # None
               PROVE  Arrays(lists[v]) \intersect Arrays(lists[u]) = {}
    BY DEF OwnApart
  <2>1. /\ AllFlat(heap) /\ HeapOK(heap) /\ SliceIn(heap, lists[v]) /\ SliceIn(heap, lists[u])
        /\ lists[v].array # lists[u].array
    BY <1>1 DEF IInv, OwnInv, Apart, TypeOK
  <2>2. ASSUME NEW s, SliceIn(heap, s) PROVE Arrays(s) = {s.array}
    <3>1. NoLists(Cells(s)) /\ DOMAIN Cells(s) = 1..Len(Cells(s))
      BY <2>1, <2>2, ListIs
    <3>2. \A d \in ToSet(Cells(s)) : ~IsList(d)
      BY <3>1 DEF ToSet, NoLists
    <3>3. Inside(s) = {}
      BY <3>2 DEF Inside
    <3> QED BY <3>3 DEF Arrays
  <2> QED BY <2>1, <2>2
<1> QED BY <1>1, Invariant, PTL

-----------------------------------------------------------------------------
(* What changes behind a variable *)

LEMMA ValueIn ==
  ASSUME NEW h, HeapOK(h), NEW s, SliceIn(h, s)
  PROVE  [k \in 1..LenOf(s) |-> IF IsList(CellsIn(h, s)[k]) THEN <<"list", CellsIn(h, CellsIn(h, s)[k][2])>>
                                ELSE CellsIn(h, s)[k]]
         = ValueOf(h, CellsIn(h, s))
<1>1. Len(CellsIn(h, s)) = LenOf(s)
  BY CellsOfSlice DEF LenOf
<1> HIDE DEF HeapOK, SliceIn
<1> QED BY <1>1 DEF ValueOf, Shown

LEMMA ValueIs ==
  ASSUME HeapOK(heap), NEW s, SliceIn(heap, s)
  PROVE  Value(s) = ValueOf(heap, CellsIn(heap, s)) /\ Cells(s) = CellsIn(heap, s)
<1>1. \A t : Cells(t) = CellsIn(heap, t)
  BY DEF Cells, CellsIn
<1> QED BY <1>1, ValueIn DEF Value

LEMMA ValueAfter ==
  ASSUME HeapOK(heap'), NEW v \in Vars, SliceIn(heap', lists'[v])
  PROVE  Value(lists[v])' = ValueOf(heap', CellsIn(heap', lists'[v]))
<1> DEFINE h == heap'  s == lists'[v]
<1>1. Value(lists[v])' = [k \in 1..LenOf(s) |->
         IF IsList(CellsIn(h, s)[k]) THEN <<"list", CellsIn(h, CellsIn(h, s)[k][2])>> ELSE CellsIn(h, s)[k]]
  BY DEF Value, Cells, CellsIn, LenOf
<1> HIDE DEF h, s
<1>2. HeapOK(h) /\ SliceIn(h, s)
  BY DEF h, s
<1>3. Value(lists[v])' = ValueOf(h, CellsIn(h, s))
  BY ONLY <1>1, <1>2, ValueIn
<1> QED BY <1>3 DEF h, s

(* Lists as elements of these cells are in other arrays than a. *)
NotIn(a, cells) == \A k \in 1..Len(cells) : IsList(cells[k]) => cells[k][2].array # a

LEMMA SameCells ==
  ASSUME NEW h, HeapOK(h), NEW h2, NEW a, SameBut(h, h2, a), NEW s, SliceIn(h, s), s.array # a
  PROVE  CellsIn(h2, s) = CellsIn(h, s)
BY DEF CellsIn, SameBut, SliceIn

LEMMA SameValue ==
  ASSUME NEW h, HeapOK(h), NEW h2, NEW a, SameBut(h, h2, a),
         NEW cells, NEW typed, CellsOK(h, cells, typed), NotIn(a, cells)
  PROVE  ValueOf(h2, cells) = ValueOf(h, cells)
<1> SUFFICES ASSUME NEW k \in 1..Len(cells) PROVE Shown(h2, cells[k]) = Shown(h, cells[k])
  BY DEF ValueOf
<1>1. CASE IsList(cells[k])
  <2>1. SliceIn(h, cells[k][2]) /\ cells[k][2].array # a
    BY <1>1 DEF CellsOK, CellIn, NotIn
  <2> DEFINE t == cells[k][2]
  <2> HIDE DEF t
  <2>2. CellsIn(h2, t) = CellsIn(h, t)
    BY <2>1, SameCells DEF t
  <2> QED BY <2>2 DEF Shown, t
<1>2. CASE ~IsList(cells[k])
  BY <1>2 DEF Shown
<1> QED BY <1>1, <1>2

LEMMA ElementsNotIn ==
  ASSUME HeapOK(heap), NEW s, SliceIn(heap, s), NEW a, a \notin Inside(s)
  PROVE  NotIn(a, CellsIn(heap, s))
<1>1. Cells(s) = CellsIn(heap, s) /\ DOMAIN Cells(s) = 1..Len(Cells(s))
  BY ListIs
<1>2. \A k \in 1..Len(Cells(s)) : Cells(s)[k] \in ToSet(Cells(s))
  BY <1>1 DEF ToSet
<1>3. \A c \in ToSet(Cells(s)) : IsList(c) => c[2].array # a
  BY DEF Inside
<1> QED BY <1>1, <1>2, <1>3 DEF NotIn

(* A list whose arrays a statement does not write into is as it was. *)
LEMMA Untouched ==
  ASSUME HeapOK(heap), HeapOK(heap'), Later(heap, heap'), NEW a, SameBut(heap, heap', a),
         NEW v \in Vars, lists'[v] = lists[v], SliceIn(heap, lists[v]), a \notin Arrays(lists[v])
  PROVE  Value(lists[v])' = Value(lists[v])
<1> DEFINE s == lists[v]  h2 == heap'
<1>1. s.array # a /\ a \notin Inside(s)
  BY DEF Arrays
<1>2. SliceIn(h2, s)
  BY LaterSlice DEF HeapOK
<1>3. Value(lists[v])' = ValueOf(h2, CellsIn(h2, s))
  BY <1>2, ValueAfter
<1> HIDE DEF s, h2
<1>4. HeapOK(heap) /\ SliceIn(heap, s) /\ SameBut(heap, h2, a)
  BY DEF s, h2
<1>5. CellsIn(h2, s) = CellsIn(heap, s)
  BY ONLY <1>1, <1>4, SameCells
<1>6. NotIn(a, CellsIn(heap, s))
  BY ONLY <1>1, <1>4, ElementsNotIn
<1>7. CellsOK(heap, CellsIn(heap, s), heap[s.array].typed)
  BY ONLY <1>4, CellsOfSlice
<1>8. ValueOf(h2, CellsIn(heap, s)) = ValueOf(heap, CellsIn(heap, s))
  BY ONLY <1>4, <1>6, <1>7, SameValue
<1>9. Value(s) = ValueOf(heap, CellsIn(heap, s))
  BY ONLY <1>4, ValueIs
<1> QED BY <1>3, <1>5, <1>8, <1>9 DEF s

(* No list has its cells in the array 0. *)
LEMMA NoneInZero ==
  ASSUME HeapOK(heap), NEW s, SliceIn(heap, s)
  PROVE  0 \notin Arrays(s)
<1>1. CellsOK(heap, Cells(s), Typed(s)) /\ DOMAIN Cells(s) = 1..Len(Cells(s))
  BY ListIs
<1>2. \A c \in ToSet(Cells(s)) : IsList(c) => c[2].array # 0
  BY <1>1 DEF ToSet, CellsOK, CellIn, SliceIn
<1>3. 0 \notin Inside(s)
  BY <1>2 DEF Inside
<1> QED BY <1>3 DEF Arrays, SliceIn

(* What OnlyShared says of a step. *)
Shared ==
  \A v \in Vars \ Assigned(last') : Value(lists[v])' # Value(lists[v]) =>
    last'.op \in Writers /\ w(last').array \in Arrays(lists[v])

LEMMA StatementShares ==
  ASSUME IInv, NEW st \in Statements, Statement(st), NEW v \in Vars \ Assigned(st),
         Value(lists[v])' # Value(lists[v])
  PROVE  st.op \in Writers /\ w(st).array \in Arrays(lists[v])
<1>1. TypeOK /\ Ready(st) /\ Do(st) /\ v \in Vars
  BY DEF Statement, Ready, IInv
<1>2. HeapOK(heap) /\ SliceIn(heap, lists[v])
  BY <1>1 DEF Ready, TypeOK
<1>3. /\ HeapOK(heap') /\ Later(heap, heap') /\ SameBut(heap, heap', Target(st))
      /\ lists'[v] = lists[v]
  <2>1. CASE st.op # "esplit"
    <3>1. PICK b, cells : Fits(st, b, cells)
      BY <1>1, <2>1, StatementFits
    <3>2. v # st.v
      BY <2>1 DEF Assigned
    <3> QED BY ONLY <1>1, <3>1, <3>2, DoesKeeps
  <2>2. CASE st.op = "esplit"
    <3>1. esplit(st) /\ v \notin {st.v, st.x}
      BY <1>1, <2>2 DEF Do, Assigned
    <3>2. heap' = heap /\ lists'[v] = lists[v]
      BY ONLY <1>1, <3>1, esplitKeeps
    <3>3. HeapOK(heap') /\ Later(heap, heap') /\ SameBut(heap, heap', Target(st))
      BY <1>2, <3>2, LaterSelf DEF HeapOK, SameBut
    <3> QED BY <3>2, <3>3
  <2> QED BY <2>1, <2>2
<1>4. Target(st) \in Arrays(lists[v])
  <2> DEFINE a == Target(st)
  <2> HIDE DEF a
  <2>1. HeapOK(heap) /\ SliceIn(heap, lists[v]) /\ HeapOK(heap') /\ Later(heap, heap')
        /\ SameBut(heap, heap', a) /\ lists'[v] = lists[v]
    BY <1>2, <1>3 DEF a
  <2>2. CASE a \notin Arrays(lists[v])
    BY <1>1, <2>1, <2>2, Untouched
  <2> QED BY <2>2 DEF a
<1>5. 0 \notin Arrays(lists[v])
  BY ONLY <1>2, NoneInZero
<1> QED BY <1>4, <1>5 DEF Target

(* What a variable holds changes behind it only by a statement that writes *)
(* into an array, of its list or of a list in it, that it has in common    *)
(* with the list the statement was given.                                  *)
THEOREM ChangesOnlyShared == Spec => OnlyShared
<1>1. ASSUME IInv, [Next]_vars, steps' # steps PROVE Shared
  <2>1. PICK st \in Statements : Statement(st)
    BY <1>1 DEF Next, vars, Declare
  <2>2. last' = st
    BY <2>1 DEF Statement
  <2>3. \A v \in Vars \ Assigned(st) : Value(lists[v])' # Value(lists[v]) =>
          st.op \in Writers /\ w(st).array \in Arrays(lists[v])
    BY <1>1, <2>1, StatementShares
  <2> QED BY <2>2, <2>3 DEF Shared, w
<1>2. IInv /\ [Next]_vars => [steps' # steps => Shared]_vars
  BY <1>1
<1>3. Spec => [][steps' # steps => Shared]_vars
  BY <1>2, Invariant, PTL DEF Spec
<1> QED BY <1>3 DEF OnlyShared, Shared


-----------------------------------------------------------------------------
(* What a statement gives its variable *)

(* Lists as elements of these cells keep their cells when a is written.    *)
Safe(a, cells) ==
  /\ cells \in Seq(Cell)
  /\ \A k \in 1..Len(cells) : IsList(cells[k]) => SliceIn(heap, cells[k][2]) /\ cells[k][2].array # a

LEMMA SafeCells ==
  ASSUME HeapOK(heap), NEW s, SliceIn(heap, s), NEW a, a \notin Inside(s)
  PROVE  Safe(a, Cells(s))
<1>1. CellsOK(heap, Cells(s), Typed(s)) /\ Cells(s) = CellsIn(heap, s)
  BY ListIs
<1>2. NotIn(a, Cells(s))
  BY <1>1, ElementsNotIn
<1> QED BY <1>1, <1>2 DEF Safe, NotIn, CellsOK, CellIn

LEMMA SafeFlat ==
  ASSUME NEW a, NEW cells \in Seq(Cell), NoLists(cells)
  PROVE  Safe(a, cells)
BY DEF Safe, NoLists

LEMMA SafeJoined ==
  ASSUME NEW a, NEW s, Safe(a, s), NEW t, Safe(a, t)
  PROVE  Safe(a, s \o t)
<1> DEFINE st == s \o t
<1>1. s \in Seq(Cell) /\ t \in Seq(Cell) /\ Len(s) \in Nat /\ Len(t) \in Nat
  BY LenProperties DEF Safe
<1>2. /\ st \in Seq(Cell) /\ Len(st) = Len(s) + Len(t)
      /\ \A i \in 1..Len(s) + Len(t) : st[i] = IF i <= Len(s) THEN s[i] ELSE t[i - Len(s)]
  BY <1>1, ConcatProperties
<1> HIDE DEF st
<1>3. ASSUME NEW k \in 1..Len(st), IsList(st[k]) PROVE SliceIn(heap, st[k][2]) /\ st[k][2].array # a
  <2>1. CASE k <= Len(s)
    <3>1. k \in 1..Len(s) /\ st[k] = s[k]
      BY ONLY <2>1, <1>1, <1>2, <1>3
    <3> QED BY <3>1, <1>3 DEF Safe
  <2>2. CASE k > Len(s)
    <3>1. k - Len(s) \in 1..Len(t) /\ st[k] = t[k - Len(s)]
      BY ONLY <2>2, <1>1, <1>2, <1>3
    <3> QED BY <3>1, <1>3 DEF Safe
  <2> QED BY <2>1, <2>2, <1>1, <1>2
<1>4. Safe(a, st)
  BY <1>2, <1>3 DEF Safe
<1> QED BY <1>4 DEF st

LEMMA SafePart ==
  ASSUME NEW a, NEW s, Safe(a, s), NEW m \in Nat, NEW n \in Int, m >= 1, n <= Len(s)
  PROVE  Safe(a, SubSeq(s, m, n))
<1> DEFINE t == SubSeq(s, m, n)
<1>1. s \in Seq(Cell) /\ Len(s) \in Nat
  BY LenProperties DEF Safe
<1>2. \A k \in m..n : k \in 1..Len(s) /\ s[k] \in Cell
  BY <1>1, ElementOfSeq
<1>3. /\ t \in Seq(Cell) /\ Len(t) = IF m <= n THEN n - m + 1 ELSE 0
      /\ \A k \in 1..n - m + 1 : t[k] = s[m + k - 1]
  BY <1>1, <1>2, SubSeqProperties
<1> HIDE DEF t
<1>4. \A k \in 1..Len(t) : m + k - 1 \in 1..Len(s) /\ t[k] = s[m + k - 1]
  BY <1>1, <1>3
<1>5. Safe(a, t)
  BY ONLY Safe(a, s), <1>3, <1>4 DEF Safe
<1> QED BY <1>5 DEF t

LEMMA SafeValue ==
  ASSUME HeapOK(heap), NEW h2, NEW a, SameBut(heap, h2, a), NEW cells, Safe(a, cells)
  PROVE  ValueOf(h2, cells) = ValueOf(heap, cells)
<1> SUFFICES ASSUME NEW k \in 1..Len(cells) PROVE Shown(h2, cells[k]) = Shown(heap, cells[k])
  BY DEF ValueOf
<1>1. CASE IsList(cells[k])
  <2> DEFINE t == cells[k][2]
  <2>1. SliceIn(heap, t) /\ t.array # a
    BY <1>1 DEF Safe
  <2> HIDE DEF t
  <2>2. CellsIn(h2, t) = CellsIn(heap, t)
    BY <2>1, SameCells
  <2> QED BY <2>2 DEF Shown, t
<1>2. CASE ~IsList(cells[k])
  BY <1>2 DEF Shown
<1> QED BY <1>1, <1>2

(* A statement's variable has the cells that the statement gives it. *)
LEMMA DoesGives ==
  ASSUME NEW st, Ready(st), NEW b, NEW cells, Does(st, b, cells)
  PROVE  /\ HeapOK(heap') /\ SliceIn(heap', lists'[st.v]) /\ SameBut(heap, heap', Target(st))
         /\ CellsIn(heap', lists'[st.v]) = cells
<1>1. PICK r : Gives(st, r) /\ Gets(r, Target(st), b, cells)
  BY DEF Does
<1>2. HeapOK(heap) /\ lists \in [Vars -> Slices \cup {None}] /\ st.v \in Vars
  BY Operands DEF Ready, TypeOK
<1>3. heap' = r.heap /\ lists'[st.v] = r.list
  BY <1>1, <1>2 DEF Gives
<1> QED BY <1>1, <1>3 DEF Gets

LEMMA DoesMeans ==
  ASSUME NEW st, Ready(st), NEW b, NEW cells, Does(st, b, cells), Safe(Target(st), cells)
  PROVE  Value(lists[st.v])' = ValueOf(heap, cells)
<1>2. HeapOK(heap) /\ st.v \in Vars
  BY Operands
<1>4. /\ HeapOK(heap') /\ SliceIn(heap', lists'[st.v]) /\ SameBut(heap, heap', Target(st))
      /\ CellsIn(heap', lists'[st.v]) = cells
  BY DoesGives
<1>5. Value(lists[st.v])' = ValueOf(heap', CellsIn(heap', lists'[st.v]))
  BY <1>2, <1>4, ValueAfter
<1> DEFINE h2 == heap'  a == Target(st)
<1>6. SameBut(heap, h2, a) /\ Safe(a, cells)
  BY <1>4
<1> HIDE DEF h2, a
<1>7. ValueOf(h2, cells) = ValueOf(heap, cells)
  BY ONLY <1>2, <1>6, SafeValue
<1> QED BY <1>4, <1>5, <1>7 DEF h2

(* What a statement reads. *)
Reads(a, s, c, x) ==
  /\ c = Cells(s) /\ x = Value(s) /\ x = ValueOf(heap, c)
  /\ c \in Seq(Cell) /\ Len(c) = LenOf(s) /\ LenOf(s) \in Nat
  /\ x \in Seq(Things(heap)) /\ Len(x) = LenOf(s)
  /\ CellsOK(heap, c, Typed(s)) /\ Typed(s) \in BOOLEAN
  /\ Safe(a, c)

LEMMA ReadsList ==
  ASSUME HeapOK(heap), NEW s, SliceIn(heap, s), NEW a, a \notin Inside(s)
  PROVE  Reads(a, s, Cells(s), Value(s))
<1> DEFINE c == Cells(s)  x == Value(s)
<1>1. /\ c \in Seq(Cell) /\ Len(c) = LenOf(s) /\ LenOf(s) \in Nat
      /\ CellsOK(heap, c, Typed(s)) /\ Typed(s) \in BOOLEAN
  BY ListIs
<1>2. x = ValueOf(heap, c)
  BY ValueIs
<1>3. Safe(a, c)
  BY SafeCells
<1> HIDE DEF c, x
<1>4. x \in Seq(Things(heap)) /\ Len(x) = Len(c)
  BY ONLY <1>1, <1>2, ValueSeq
<1> QED BY <1>1, <1>2, <1>3, <1>4 DEF Reads, c, x

LEMMA ReadsW ==
  ASSUME NEW st, Ready(st), ~IntoItself(st)
  PROVE  Reads(Target(st), w(st), Cells(w(st)), Value(w(st)))
<1>1. HeapOK(heap) /\ SliceIn(heap, w(st))
  BY Operands
<1>2. 0 \notin Inside(w(st))
  BY <1>1, NoneInZero DEF Arrays
<1>3. Target(st) \notin Inside(w(st))
  BY <1>2 DEF Target, IntoItself
<1> QED BY ONLY <1>1, <1>3, ReadsList

LEMMA ReadsX ==
  ASSUME NEW st, Ready(st), ~IntoItself(st), st.op = "concat" \/ st.op \notin Writers
  PROVE  Reads(Target(st), lists[st.x], Cells(lists[st.x]), Value(lists[st.x]))
<1> DEFINE t == lists[st.x]
<1>1. HeapOK(heap) /\ SliceIn(heap, t)
  BY Operands
<1>2. 0 \notin Inside(t)
  BY <1>1, NoneInZero DEF Arrays
<1>3. Target(st) \notin Inside(t)
  BY <1>2 DEF Target, IntoItself, Writers
<1> HIDE DEF t
<1>4. Reads(Target(st), t, Cells(t), Value(t))
  BY ONLY <1>1, <1>3, ReadsList
<1> QED BY <1>4 DEF t

LEMMA FlatMeans ==
  ASSUME NEW st, Ready(st), NEW b, NEW cells \in Seq(Cell), Does(st, b, cells), NoLists(cells)
  PROVE  Value(lists[st.v])' = cells
<1>1. Safe(Target(st), cells)
  BY SafeFlat
<1>2. Value(lists[st.v])' = ValueOf(heap, cells)
  BY ONLY <1>1, Ready(st), Does(st, b, cells), DoesMeans
<1>3. ValueOf(heap, cells) = cells
  BY FlatValue
<1> QED BY <1>2, <1>3

-----------------------------------------------------------------------------
(* One lemma for each operation: that is what it means. *)

Means(st) == Value(lists[st.v])' = Meaning(st)

LEMMA literalMeans ==
  ASSUME NEW st, Ready(st), literal(st), st.op = "literal"
  PROVE  Means(st)
<1> DEFINE e == Number(st.n)  one == <<e>>
<1>1. e \in Cell /\ ~IsList(e)
  BY Operands, CellParts
<1>2. Does(st, 0, one)
  BY literalDoes
<1>3. Meaning(st) = one
  BY DEF Meaning
<1> HIDE DEF e
<1>4. one \in Seq(Cell) /\ NoLists(one)
  BY ONLY <1>1, OneNone
<1> HIDE DEF one
<1>5. Value(lists[st.v])' = one
  BY ONLY Ready(st), <1>2, <1>4, FlatMeans
<1> QED BY <1>3, <1>5 DEF Means

LEMMA rangeMeans ==
  ASSUME NEW st, Ready(st), range(st), st.op = "range", ~RangeSpoilt
  PROVE  Means(st)
<1> DEFINE c == Cells(TheRange)
<1>1. Does(st, 1, c)
  BY rangeDoes
<1>2. c = FirstN(RangeEnd)
  BY DEF RangeSpoilt
<1>3. Meaning(st) = c
  BY <1>2 DEF Meaning
<1> HIDE DEF c
<1>4. c \in Seq(Cell) /\ NoLists(c)
  <2>1. RangeEnd \in Nat
    BY ListsAssumption
  <2>2. c \in [1..RangeEnd -> Cell] /\ \A k \in 1..RangeEnd : IsNumber(c[k])
    BY <1>2, <2>1, CellParts DEF FirstN
  <2>3. \A h_, ty_ : CellsOK(h_, c, ty_) /\ NoLists(c)
    BY ONLY <2>1, <2>2, AllNumbers
  <2> QED BY <2>3 DEF CellsOK
<1>5. Value(lists[st.v])' = c
  BY ONLY Ready(st), <1>1, <1>4, FlatMeans
<1> QED BY <1>3, <1>5 DEF Means

LEMMA SafeOne ==
  ASSUME NEW a, NEW c \in Cell, IsList(c) => SliceIn(heap, c[2]) /\ c[2].array # a
  PROVE  Safe(a, <<c>>)
<1> DEFINE s == <<c>>
<1>1. s \in Seq(Cell) /\ Len(s) = 1 /\ s[1] = c
  BY OneItem
<1> HIDE DEF s
<1>2. Safe(a, s)
  BY <1>1 DEF Safe
<1> QED BY <1>2 DEF s

LEMMA ItemValue ==
  ASSUME HeapOK(heap), NEW s, SliceIn(heap, s), NoLists(Cells(s))
  PROVE  /\ Item(s) \in Cell /\ Shown(heap, Item(s)) = <<"list", Value(s)>>
         /\ Safe(0, <<Item(s)>>) /\ ValueOf(heap, <<Item(s)>>) = <<<<"list", Value(s)>>>>
<1> DEFINE e == Item(s)
<1>1. e \in Cell /\ IsList(e) /\ e[2] = s /\ s.array # 0
  BY CellParts DEF SliceIn
<1>2. Value(s) = Cells(s) /\ Cells(s) = CellsIn(heap, s)
  <2>1. Cells(s) \in Seq(Cell)
    BY ListIs
  <2> QED BY <2>1, ValueIs, FlatValue
<1> HIDE DEF e
<1>3. Shown(heap, e) = <<"list", Value(s)>>
  BY <1>1, <1>2 DEF Shown
<1>4. Safe(0, <<e>>)
  BY <1>1, SafeOne
<1>5. ValueOf(heap, <<e>>) = <<Shown(heap, e)>>
  BY ONLY <1>1, ValueOfOne
<1> QED BY <1>1, <1>3, <1>4, <1>5 DEF e

LEMMA nestMeans ==
  ASSUME NEW st, Ready(st), nest(st), st.op = "nest"
  PROVE  Means(st)
<1> DEFINE s == w(st)  t == lists[st.x]  one == <<Item(s)>>  two == <<Item(t)>>  c == <<Item(s), Item(t)>>
           vs == <<"list", Value(s)>>  vt == <<"list", Value(t)>>
<1>1. HeapOK(heap) /\ SliceIn(heap, s) /\ SliceIn(heap, t)
  BY Operands
<1>2. Does(st, 0, c) /\ NoLists(Cells(s)) /\ NoLists(Cells(t))
  BY nestDoes
<1>3. Target(st) = 0
  BY DEF Target, Writers
<1>4. Meaning(st) = <<vs, vt>>
  BY DEF Meaning
<1> HIDE DEF s, t
<1>5. Item(s) \in Cell /\ Safe(0, one) /\ ValueOf(heap, one) = <<vs>>
  BY ONLY <1>1, <1>2, ItemValue
<1>6. Item(t) \in Cell /\ Safe(0, two) /\ ValueOf(heap, two) = <<vt>>
  BY ONLY <1>1, <1>2, ItemValue
<1>7. c = one \o two
  BY Z3
<1>8. one \in Seq(Cell) /\ two \in Seq(Cell)
  BY <1>5, <1>6 DEF Safe
<1> HIDE DEF one, two, vs, vt
<1>9. Safe(0, c)
  BY ONLY <1>5, <1>6, <1>7, SafeJoined
<1>10. ValueOf(heap, c) = ValueOf(heap, one) \o ValueOf(heap, two)
  BY ONLY <1>7, <1>8, ValueOfJoined
<1>11. <<vs>> \o <<vt>> = <<vs, vt>>
  BY ONLY TwoItems
<1> HIDE DEF c
<1>12. Value(lists[st.v])' = ValueOf(heap, c)
  BY ONLY Ready(st), <1>2, <1>3, <1>9, DoesMeans
<1> QED BY <1>4, <1>5, <1>6, <1>10, <1>11, <1>12 DEF Means

LEMMA assignMeans ==
  ASSUME NEW st, Ready(st), assign(st), st.op = "assign"
  PROVE  Means(st)
<1> DEFINE s == w(st)  c == Cells(s)  x == Value(s)
<1>1. ~IntoItself(st)
  BY DEF IntoItself, Writers
<1>2. Reads(Target(st), s, c, x)
  BY <1>1, ReadsW
<1>3. Does(st, s.array, c)
  BY assignDoes
<1>4. Meaning(st) = x
  BY DEF Meaning
<1> HIDE DEF s, c, x
<1>5. Value(lists[st.v])' = ValueOf(heap, c)
  BY ONLY Ready(st), <1>2, <1>3, DoesMeans DEF Reads
<1> QED BY <1>2, <1>4, <1>5 DEF Means, Reads

LEMMA elementMeans ==
  ASSUME NEW st, Ready(st), element(st), st.op = "element", Flat(lists[st.v])'
  PROVE  Means(st)
<1> DEFINE s == w(st)  k == st.i + 1  c == Cells(s)[k]  t == c[2]  x == Value(s)
<1>1. /\ k \in 1..LenOf(s) /\ IsList(c) /\ SliceIn(heap, t) /\ Does(st, t.array, Cells(t))
      /\ HeapOK(heap) /\ SliceIn(heap, s) /\ st.v \in Vars
  BY elementDoes, Operands
<1>2. Meaning(st) = x[k][2]
  BY DEF Meaning
<1>3. NoLists(Cells(t)) /\ Cells(t) \in Seq(Cell)
  <2>1. CellsIn(heap', lists'[st.v]) = Cells(t)
    BY <1>1, DoesGives
  <2>2. \A n \in DOMAIN CellsIn(heap', lists'[st.v]) : ~IsList(CellsIn(heap', lists'[st.v])[n])
    BY DEF Flat, Cells, CellsIn
  <2> HIDE DEF t
  <2>3. Cells(t) \in Seq(Cell) /\ DOMAIN Cells(t) = 1..Len(Cells(t))
    BY <1>1, ListIs
  <2> QED BY ONLY <2>1, <2>2, <2>3 DEF NoLists
<1>4. Cells(s)[k] = c /\ c[2] = t
  OBVIOUS
<1> HIDE DEF s, k, c, t, x
<1>5. x[k][2] = Cells(t)
  <2>1. x = ValueOf(heap, Cells(s)) /\ Cells(t) = CellsIn(heap, t)
    BY <1>1, ValueIs, ListIs DEF x
  <2>2. Cells(s) \in Seq(Cell) /\ Len(Cells(s)) = LenOf(s)
    BY <1>1, ListIs
  <2>3. x[k] = Shown(heap, c)
    BY <1>1, <1>4, <2>1, <2>2, ValueSeq
  <2>4. Shown(heap, c) = <<"list", CellsIn(heap, t)>>
    BY <1>1, <1>4 DEF Shown
  <2> QED BY ONLY <2>1, <2>3, <2>4
<1>6. Value(lists[st.v])' = Cells(t)
  BY ONLY Ready(st), <1>1, <1>3, FlatMeans
<1> QED BY <1>2, <1>5, <1>6 DEF Means

(* A part of the list that the statement reads. *)
LEMMA PartMeans ==
  ASSUME NEW st, Ready(st), ~IntoItself(st), NEW m \in Nat, NEW n \in Int, m >= 1, n <= LenOf(w(st)),
         NEW b, Does(st, b, SubSeq(Cells(w(st)), m, n))
  PROVE  Value(lists[st.v])' = SubSeq(Value(w(st)), m, n)
<1> DEFINE s == w(st)  c == Cells(s)  x == Value(s)  d == SubSeq(c, m, n)
<1>1. Reads(Target(st), s, c, x)
  BY ReadsW
<1>2. Does(st, b, d) /\ n <= LenOf(s)
  OBVIOUS
<1> HIDE DEF s, c, x
<1>3. c \in Seq(Cell) /\ n <= Len(c) /\ Safe(Target(st), c) /\ x = ValueOf(heap, c)
  BY <1>1, <1>2 DEF Reads
<1>4. Safe(Target(st), d) /\ ValueOf(heap, d) = SubSeq(x, m, n)
  BY <1>3, SafePart, ValueOfPart
<1> HIDE DEF d
<1>5. Value(lists[st.v])' = ValueOf(heap, d)
  BY ONLY Ready(st), <1>2, <1>4, DoesMeans
<1> QED BY <1>4, <1>5 DEF s, x

LEMMA sliceMeans ==
  ASSUME NEW st, Ready(st), slice(st), st.op = "slice"
  PROVE  Means(st)
<1> DEFINE m == st.i + 1  n == st.j  d == SubSeq(Cells(w(st)), m, n)
<1>1. ~IntoItself(st)
  BY DEF IntoItself, Writers
<1>2. st.j <= LenOf(w(st)) /\ Does(st, w(st).array, d) /\ st.i \in Nat /\ st.j \in Nat
  BY sliceDoes, Operands
<1>3. m \in Nat /\ n \in Int /\ m >= 1 /\ n <= LenOf(w(st))
  BY <1>2
<1>4. Meaning(st) = SubSeq(Value(w(st)), m, n)
  BY DEF Meaning
<1>5. Does(st, w(st).array, SubSeq(Cells(w(st)), m, n))
  BY <1>2
<1> HIDE DEF m, n, d
<1>6. Value(lists[st.v])' = SubSeq(Value(w(st)), m, n)
  BY ONLY Ready(st), <1>1, <1>3, <1>5, PartMeans
<1> QED BY <1>4, <1>6 DEF Means

LEMMA TailIs ==
  ASSUME NEW T, NEW x \in Seq(T), Len(x) # 0
  PROVE  Tail(x) = SubSeq(x, 2, Len(x))
<1> DEFINE n == Len(x)  t == Tail(x)  p == SubSeq(x, 2, n)
<1>1. n \in Nat /\ n >= 1 /\ 2 \in Nat
  BY LenProperties
<1>2. \A k \in 2..n : x[k] \in T
  BY ElementOfSeq
<1>3. /\ p \in Seq(T) /\ Len(p) = IF 2 <= n THEN (n - 2) + 1 ELSE 0
      /\ \A k \in 1..(n - 2) + 1 : p[k] = x[2 + k - 1]
  BY <1>1, <1>2, SubSeqProperties
<1>4. t \in Seq(T) /\ Len(t) = n - 1 /\ \A k \in 1..n - 1 : t[k] = x[k + 1]
  BY <1>1
<1> HIDE DEF n, t, p
<1>5. Len(p) = Len(t) /\ \A k \in 1..Len(t) : t[k] = p[k]
  BY ONLY <1>1, <1>3, <1>4
<1>6. t = p
  BY ONLY <1>3, <1>4, <1>5, SeqEqual
<1> QED BY <1>6 DEF t, p, n

LEMMA tailMeans ==
  ASSUME NEW st, Ready(st), tail(st), st.op = "tail"
  PROVE  Means(st)
<1> DEFINE m == 2  n == LenOf(w(st))  x == Value(w(st))
<1>1. ~IntoItself(st)
  BY DEF IntoItself, Writers
<1>2. Reads(Target(st), w(st), Cells(w(st)), x)
  BY <1>1, ReadsW
<1>3. x \in Seq(Things(heap)) /\ Len(x) = n /\ n \in Nat /\ n <= LenOf(w(st))
  BY <1>2 DEF Reads
<1>4. Does(st, w(st).array, SubSeq(Cells(w(st)), m, n))
  BY tailDoes
<1>5. m \in Nat /\ m >= 1 /\ n \in Int
  BY <1>3
<1>6. Meaning(st) = IF x = <<>> THEN x ELSE Tail(x)
  BY DEF Meaning
<1> HIDE DEF m, n
<1>7. Value(lists[st.v])' = SubSeq(Value(w(st)), m, n)
  BY ONLY Ready(st), <1>1, <1>3, <1>4, <1>5, PartMeans
<1> USE DEF m
<1> HIDE DEF x
<1>8. CASE n = 0
  <2>1. x = <<>> /\ SubSeq(x, m, n) = <<>>
    BY <1>3, <1>8, EmptySeq, SubSeqEmpty
  <2> QED BY <1>6, <1>7, <2>1 DEF Means, x
<1>9. CASE n # 0
  <2>1. x # <<>> /\ Tail(x) = SubSeq(x, m, n)
    BY <1>3, <1>9, TailIs
  <2> QED BY <1>6, <1>7, <2>1 DEF Means, x
<1> QED BY <1>8, <1>9

LEMMA popMeans ==
  ASSUME NEW st, Ready(st), pop(st), st.op = "pop"
  PROVE  Means(st)
<1> DEFINE m == 1  n == LenOf(w(st)) - 1  x == Value(w(st))
<1>1. ~IntoItself(st)
  BY DEF IntoItself, Writers
<1>2. Reads(Target(st), w(st), Cells(w(st)), x)
  BY <1>1, ReadsW
<1>3. Len(x) - 1 = n /\ n \in Int /\ n <= LenOf(w(st)) /\ m \in Nat /\ m >= 1
  BY <1>2 DEF Reads
<1>4. Does(st, w(st).array, SubSeq(Cells(w(st)), m, n))
  BY popDoes
<1>5. Meaning(st) = SubSeq(x, m, n)
  BY <1>3 DEF Meaning, Front
<1> HIDE DEF m, n
<1>6. Value(lists[st.v])' = SubSeq(Value(w(st)), m, n)
  BY ONLY Ready(st), <1>1, <1>3, <1>4, PartMeans
<1> QED BY <1>5, <1>6 DEF Means

(* Cells put after the ones that the statement reads. *)
LEMMA JoinedMeans ==
  ASSUME NEW st, Ready(st), NEW s \in Seq(Cell), Safe(Target(st), s), NEW t \in Seq(Cell), Safe(Target(st), t),
         NEW b, Does(st, b, s \o t)
  PROVE  Value(lists[st.v])' = ValueOf(heap, s) \o ValueOf(heap, t)
<1> DEFINE c == s \o t
<1>1. Safe(Target(st), c) /\ ValueOf(heap, c) = ValueOf(heap, s) \o ValueOf(heap, t)
  BY SafeJoined, ValueOfJoined
<1>2. Does(st, b, c)
  OBVIOUS
<1> HIDE DEF c
<1>3. Value(lists[st.v])' = ValueOf(heap, c)
  BY ONLY Ready(st), <1>1, <1>2, DoesMeans
<1> QED BY <1>1, <1>3

(* A number or a text, as a list of one. *)
LEMMA OneValue ==
  ASSUME NEW a, NEW e \in Cell, ~IsList(e)
  PROVE  /\ <<e>> \in Seq(Cell) /\ Safe(a, <<e>>) /\ ValueOf(heap, <<e>>) = <<e>>
         /\ e \in Things(heap)
<1> DEFINE one == <<e>>
<1>1. one \in Seq(Cell) /\ NoLists(one)
  BY OneNone
<1> HIDE DEF one
<1>2. Safe(a, one) /\ ValueOf(heap, one) = one
  BY <1>1, SafeFlat, FlatValue
<1>3. e \in Things(heap)
  BY DEF Things, Shown
<1> QED BY <1>1, <1>2, <1>3 DEF one

LEMMA appendMeans ==
  ASSUME NEW st, Ready(st), \/ st.op = "append" /\ append(st)
                            \/ st.op = "append_to" /\ append_to(st),
         ~IntoItself(st)
  PROVE  Means(st)
<1> DEFINE s == w(st)  c == Cells(s)  x == Value(s)  e == Number(st.n)  one == <<e>>
<1>1. Reads(Target(st), s, c, x)
  BY ReadsW
<1>2. Does(st, s.array, c \o one)
  BY appendDoes, append_toDoes DEF Writers
<1>3. e \in Cell /\ ~IsList(e)
  BY Operands, CellParts
<1>4. Meaning(st) = Append(x, e)
  BY DEF Meaning
<1> HIDE DEF s, c, x, e
<1>5. one \in Seq(Cell) /\ Safe(Target(st), one) /\ ValueOf(heap, one) = one /\ e \in Things(heap)
  BY ONLY <1>3, OneValue
<1> HIDE DEF one
<1>6. Value(lists[st.v])' = ValueOf(heap, c) \o ValueOf(heap, one)
  BY ONLY Ready(st), <1>1, <1>2, <1>5, JoinedMeans DEF Reads
<1>7. Append(x, e) = x \o one
  BY <1>1, <1>5, AppendIsConcat DEF Reads, one
<1> QED BY <1>1, <1>4, <1>5, <1>6, <1>7 DEF Means, Reads

LEMMA concatMeans ==
  ASSUME NEW st, Ready(st), concat(st), st.op = "concat", ~IntoItself(st)
  PROVE  Means(st)
<1> DEFINE s == w(st)  c == Cells(s)  x == Value(s)  t == lists[st.x]  d == Cells(t)  y == Value(t)
<1>1. Reads(Target(st), s, c, x) /\ Reads(Target(st), t, d, y)
  BY ReadsW, ReadsX
<1>2. Does(st, s.array, c \o d)
  BY concatDoes DEF Writers
<1>3. Meaning(st) = x \o y
  BY DEF Meaning
<1> HIDE DEF s, c, x, t, d, y
<1>4. Value(lists[st.v])' = ValueOf(heap, c) \o ValueOf(heap, d)
  BY ONLY Ready(st), <1>1, <1>2, JoinedMeans DEF Reads
<1> QED BY <1>1, <1>3, <1>4 DEF Means, Reads

LEMMA push_frontMeans ==
  ASSUME NEW st, Ready(st), push_front(st), st.op = "push_front"
  PROVE  Means(st)
<1> DEFINE s == w(st)  c == Cells(s)  x == Value(s)  e == Front_(st)  one == <<e>>
<1>1. ~IntoItself(st)
  BY DEF IntoItself, Writers
<1>2. Reads(Target(st), s, c, x)
  BY <1>1, ReadsW
<1>3. Does(st, 0, one \o c)
  BY push_frontDoes
<1>4. e \in Cell /\ ~IsList(e)
  BY Operands, CellParts DEF Front_
<1>5. Meaning(st) = one \o x
  BY DEF Meaning
<1> HIDE DEF s, c, x, e
<1>6. one \in Seq(Cell) /\ Safe(Target(st), one) /\ ValueOf(heap, one) = one
  BY ONLY <1>4, OneValue
<1> HIDE DEF one
<1>7. Value(lists[st.v])' = ValueOf(heap, one) \o ValueOf(heap, c)
  BY ONLY Ready(st), <1>2, <1>3, <1>6, JoinedMeans DEF Reads
<1> QED BY <1>2, <1>5, <1>6, <1>7 DEF Means, Reads

LEMMA insertMeans ==
  ASSUME NEW st, Ready(st), insert(st), st.op = "insert"
  PROVE  Means(st)
<1> DEFINE s == w(st)  c == Cells(s)  x == Value(s)  e == Number(st.n)  one == <<e>>  i == st.i  m == i - 1
           before == SubSeq(c, 1, m)  after == SubSeq(c, i, Len(c))  front == before \o one
<1>1. ~IntoItself(st)
  BY DEF IntoItself, Writers
<1>2. Reads(Target(st), s, c, x)
  BY <1>1, ReadsW
<1>3. i \in 1..LenOf(s) + 1 /\ Does(st, 0, front \o after)
  BY insertDoes DEF InsertAt
<1>4. e \in Cell /\ ~IsList(e) /\ i \in Nat
  BY Operands, CellParts
<1>5. Meaning(st) = SubSeq(x, 1, m) \o one \o SubSeq(x, i, Len(x))
  BY DEF Meaning, InsertAt
<1> HIDE DEF s, c, x, e, i
<1>6. one \in Seq(Cell) /\ Safe(Target(st), one) /\ ValueOf(heap, one) = one
  BY ONLY <1>4, OneValue
<1> HIDE DEF one
<1>7. c \in Seq(Cell) /\ Safe(Target(st), c) /\ x = ValueOf(heap, c) /\ Len(c) = LenOf(s) /\ Len(x) = Len(c)
      /\ LenOf(s) \in Nat
  BY <1>2 DEF Reads
<1>8. 1 \in Nat /\ 1 >= 1 /\ m \in Int /\ m <= Len(c) /\ i >= 1 /\ Len(c) \in Int /\ Len(c) <= Len(c)
  BY <1>3, <1>4, <1>7
<1> HIDE DEF m
<1>9. Safe(Target(st), before) /\ ValueOf(heap, before) = SubSeq(x, 1, m)
  BY ONLY <1>7, <1>8, SafePart, ValueOfPart
<1>10. Safe(Target(st), after) /\ ValueOf(heap, after) = SubSeq(x, i, Len(c))
  BY ONLY <1>4, <1>7, <1>8, SafePart, ValueOfPart
<1>11. before \in Seq(Cell) /\ after \in Seq(Cell)
  BY <1>9, <1>10 DEF Safe
<1> HIDE DEF before, after
<1>12. Safe(Target(st), front) /\ ValueOf(heap, front) = ValueOf(heap, before) \o one
  <2>1. Safe(Target(st), front)
    BY ONLY <1>6, <1>9, SafeJoined
  <2>2. ValueOf(heap, front) = ValueOf(heap, before) \o ValueOf(heap, one)
    BY ONLY <1>6, <1>11, ValueOfJoined
  <2> QED BY ONLY <1>6, <2>1, <2>2
<1>13. front \in Seq(Cell)
  BY <1>12 DEF Safe
<1> HIDE DEF front
<1>14. Value(lists[st.v])' = ValueOf(heap, front) \o ValueOf(heap, after)
  BY ONLY Ready(st), <1>3, <1>10, <1>11, <1>12, <1>13, JoinedMeans
<1> QED BY <1>5, <1>7, <1>9, <1>10, <1>12, <1>14 DEF Means

LEMMA removeMeans ==
  ASSUME NEW st, Ready(st), remove(st), st.op = "remove"
  PROVE  Means(st)
<1> DEFINE s == w(st)  c == Cells(s)  x == Value(s)  i == st.i  m == i - 1  n == i + 1
           before == SubSeq(c, 1, m)  after == SubSeq(c, n, Len(c))
<1>1. ~IntoItself(st)
  BY DEF IntoItself, Writers
<1>2. Reads(Target(st), s, c, x)
  BY <1>1, ReadsW
<1>3. i \in 1..LenOf(s) /\ Does(st, 0, before \o after)
  BY removeDoes DEF RemoveAt
<1>4. i \in Nat
  BY Operands
<1>5. Meaning(st) = SubSeq(x, 1, m) \o SubSeq(x, n, Len(x))
  BY DEF Meaning, RemoveAt
<1> HIDE DEF s, c, x, i
<1>6. c \in Seq(Cell) /\ Safe(Target(st), c) /\ x = ValueOf(heap, c) /\ Len(c) = LenOf(s) /\ Len(x) = Len(c)
      /\ LenOf(s) \in Nat
  BY <1>2 DEF Reads
<1>7. /\ 1 \in Nat /\ 1 >= 1 /\ m \in Int /\ m <= Len(c) /\ n \in Nat /\ n >= 1
      /\ Len(c) \in Int /\ Len(c) <= Len(c)
  BY <1>3, <1>4, <1>6
<1> HIDE DEF m, n
<1>8. Safe(Target(st), before) /\ ValueOf(heap, before) = SubSeq(x, 1, m)
  BY ONLY <1>6, <1>7, SafePart, ValueOfPart
<1>9. Safe(Target(st), after) /\ ValueOf(heap, after) = SubSeq(x, n, Len(c))
  BY ONLY <1>6, <1>7, SafePart, ValueOfPart
<1>10. before \in Seq(Cell) /\ after \in Seq(Cell)
  BY <1>8, <1>9 DEF Safe
<1> HIDE DEF before, after
<1>11. Value(lists[st.v])' = ValueOf(heap, before) \o ValueOf(heap, after)
  BY ONLY Ready(st), <1>3, <1>8, <1>9, <1>10, JoinedMeans
<1> QED BY <1>5, <1>6, <1>8, <1>9, <1>11 DEF Means

LEMMA list_fillMeans ==
  ASSUME NEW st, Ready(st), list_fill(st), st.op = "list_fill"
  PROVE  Means(st)
<1> DEFINE s == w(st)  x == Value(s)  n == LenOf(s)  e == Number(st.n)  c == [k \in 1..n |-> e]
<1>1. ~IntoItself(st)
  BY DEF IntoItself, Writers
<1>2. Reads(Target(st), s, Cells(s), x)
  BY <1>1, ReadsW
<1>3. Does(st, 0, c)
  BY list_fillDoes
<1>4. e \in Cell /\ IsNumber(e)
  BY Operands, CellParts
<1>5. n \in Nat /\ DOMAIN x = 1..n
  BY <1>2 DEF Reads
<1>6. Meaning(st) = c
  BY <1>5 DEF Meaning
<1> HIDE DEF s, x, n, e
<1>7. c \in [1..n -> Cell] /\ \A k \in 1..n : IsNumber(c[k])
  BY <1>4
<1> HIDE DEF c
<1>8. \A h_, ty_ : CellsOK(h_, c, ty_) /\ NoLists(c)
  BY ONLY <1>5, <1>7, AllNumbers
<1>9. c \in Seq(Cell) /\ NoLists(c)
  BY <1>8 DEF CellsOK
<1>10. Value(lists[st.v])' = c
  BY ONLY Ready(st), <1>3, <1>9, FlatMeans
<1> QED BY <1>6, <1>10 DEF Means

(* What has no lists in it is what it is. *)
LEMMA FlatIs ==
  ASSUME NEW a, NEW s, NEW c, NEW x, Reads(a, s, c, x), NoLists(c)
  PROVE  x = c
BY FlatValue DEF Reads

LEMMA addMeans ==
  ASSUME NEW st, Ready(st), add(st), st.op = "add"
  PROVE  Means(st)
<1> DEFINE s == w(st)  c == Cells(s)  x == Value(s)  p == Plus(c, st.n)
<1>1. ~IntoItself(st)
  BY DEF IntoItself, Writers
<1>2. Reads(Target(st), s, c, x)
  BY <1>1, ReadsW
<1>3. Does(st, 0, p) /\ NoLists(c) /\ st.n \in Nat
  BY addDoes, Operands
<1>4. Meaning(st) = Plus(x, st.n)
  BY DEF Meaning
<1>5. \A k \in DOMAIN c : IsNumber(c[k])
  BY DEF add, IsNumber
<1> HIDE DEF s, c, x
<1>6. x = c
  BY ONLY <1>2, <1>3, FlatIs
<1>7. c \in Seq(Cell) /\ Len(c) \in Nat /\ DOMAIN c = 1..Len(c)
  BY <1>2, LenProperties DEF Reads
<1>8. p \in [1..Len(c) -> Cell] /\ \A k \in 1..Len(c) : IsNumber(p[k])
  <2>1. \A k \in 1..Len(c) : c[k][2] + st.n \in Nat
    <3> SUFFICES ASSUME NEW k \in 1..Len(c) PROVE c[k][2] + st.n \in Nat
      OBVIOUS
    <3> DEFINE d == c[k]  m == d[2]  n == st.n
    <3>1. d \in Cell /\ IsNumber(d)
      BY ONLY <1>5, <1>7, ElementOfSeq
    <3>2. m \in Nat /\ n \in Nat
      BY ONLY <1>3, <3>1, CellParts
    <3> HIDE DEF m, n
    <3>3. m + n \in Nat
      BY ONLY <3>2
    <3> QED BY ONLY <3>3 DEF m, n
  <2>2. \A k \in 1..Len(c) : p[k] = Number(c[k][2] + st.n) /\ p[k] \in Cell /\ IsNumber(p[k])
    BY <1>7, <2>1, CellParts DEF Plus
  <2> QED BY <1>7, <2>2 DEF Plus
<1> HIDE DEF p
<1>9. \A h_, ty_ : CellsOK(h_, p, ty_) /\ NoLists(p)
  BY ONLY <1>7, <1>8, AllNumbers
<1>10. p \in Seq(Cell) /\ NoLists(p)
  BY <1>9 DEF CellsOK
<1>11. Value(lists[st.v])' = p
  BY ONLY Ready(st), <1>3, <1>10, FlatMeans
<1> QED BY <1>4, <1>6, <1>11 DEF Means, p

LEMMA sortMeans ==
  ASSUME NEW st, Ready(st), sort(st), st.op = "sort", ~IntoItself(st)
  PROVE  Means(st)
<1> DEFINE s == w(st)  c == Cells(s)  x == Value(s)  p == SortedCells(c)
<1>1. Reads(Target(st), s, c, x)
  BY ReadsW
<1>2. Does(st, s.array, p) /\ NoLists(c)
  BY sortDoes DEF Writers
<1>3. Meaning(st) = SortedCells(x)
  BY DEF Meaning
<1> HIDE DEF s, c, x
<1>4. x = c
  BY ONLY <1>1, <1>2, FlatIs
<1>5. c \in Seq(Cell)
  BY <1>1 DEF Reads
<1>6. p \in Seq(Cell) /\ NoLists(p)
  BY ONLY <1>2, <1>5, SortedIs
<1> HIDE DEF p
<1>7. Value(lists[st.v])' = p
  BY ONLY Ready(st), <1>2, <1>6, FlatMeans
<1> QED BY <1>3, <1>4, <1>7 DEF Means, p

LEMMA uniqMeans ==
  ASSUME NEW st, Ready(st), uniq(st), st.op = "uniq", ~IntoItself(st)
  PROVE  Means(st)
<1> DEFINE s == w(st)  c == Cells(s)  x == Value(s)  u == Once(c)
<1>1. Reads(Target(st), s, c, x)
  BY ReadsW
<1>2. Does(st, s.array, u) /\ NoLists(c)
  BY uniqDoes DEF Writers
<1>3. Meaning(st) = Once(x)
  BY DEF Meaning
<1> HIDE DEF s, c, x
<1>4. x = c
  BY ONLY <1>1, <1>2, FlatIs
<1>5. c \in Seq(Cell)
  BY <1>1 DEF Reads
<1>6. u \in Seq(Cell) /\ NoLists(u)
  BY ONLY <1>2, <1>5, OnceIs
<1> HIDE DEF u
<1>7. Value(lists[st.v])' = u
  BY ONLY Ready(st), <1>2, <1>6, FlatMeans
<1> QED BY <1>3, <1>4, <1>7 DEF Means, u

(* A value put into a list is put into what the list holds. *)
LEMMA PutValue ==
  ASSUME NEW a, NEW c, Safe(a, c), NEW typed \in BOOLEAN, CellsOK(heap, c, typed), NEW i \in Nat,
         NEW e \in Cell, IsNumber(e), NEW p, p = Put(c, i, typed, e)
  PROVE  Safe(a, p) /\ ValueOf(heap, p) = Put(ValueOf(heap, c), i, typed, e)
<1> DEFINE x == ValueOf(heap, c)  n == IF i < Len(c) THEN Len(c) ELSE i + 1
<1>1. c \in Seq(Cell) /\ Len(c) \in Nat /\ ~IsList(e) /\ CellIn(heap, e, typed)
  BY LenProperties, CellParts DEF Safe, CellIn
<1>2. CellsOK(heap, p, typed) /\ IsPut(p, c, i, typed, e)
  BY ONLY <1>1, typed \in BOOLEAN, CellsOK(heap, c, typed), i \in Nat, p = Put(c, i, typed, e), PutIs
<1>3. p \in Seq(Cell) /\ Len(p) = n /\ \A k \in 1..n : p[k] = PutAt(c, i, typed, e, k)
  BY <1>2 DEF IsPut, CellsOK
<1>4. Len(x) = Len(c) /\ \A k \in 1..Len(c) : x[k] = Shown(heap, c[k])
  BY <1>1, ValueSeq
<1>5. ~IsList(Zero(typed))
  BY CellParts DEF Zero
<1>6. \A k \in 1..n : k <= Len(c) => k \in 1..Len(c)
  BY <1>1
<1> HIDE DEF n, x
<1>7. Safe(a, p)
  BY ONLY Safe(a, c), <1>1, <1>3, <1>5, <1>6 DEF Safe, PutAt
<1>8. \A k \in 1..n : Shown(heap, p[k]) = CASE k = i + 1 -> e
                                          [] k # i + 1 /\ k <= Len(c) -> x[k]
                                          [] OTHER -> Zero(typed)
  BY ONLY <1>1, <1>3, <1>4, <1>5, <1>6 DEF PutAt, Shown
<1>9. ValueOf(heap, p) = [k \in 1..n |-> Shown(heap, p[k])]
  BY <1>3 DEF ValueOf
<1>10. Put(x, i, typed, e) = [k \in 1..n |-> CASE k = i + 1 -> e
                                          [] k # i + 1 /\ k <= Len(c) -> x[k]
                                          [] OTHER -> Zero(typed)]
  BY <1>4 DEF Put, n
<1>11. ValueOf(heap, p) = Put(x, i, typed, e)
  BY ONLY <1>8, <1>9, <1>10
<1> QED BY <1>7, <1>11 DEF x

LEMMA setMeans ==
  ASSUME NEW st, Ready(st), set(st), st.op = "set", ~IntoItself(st)
  PROVE  Means(st)
<1> DEFINE s == w(st)  c == Cells(s)  x == Value(s)  e == Number(st.n)  i == st.i  ty == Typed(s)
           p == Put(c, i, ty, e)
<1>1. Reads(Target(st), s, c, x)
  BY ReadsW
<1>2. Does(st, s.array, p)
  BY setDoes DEF Writers
<1>3. Meaning(st) = Put(x, i, ty, e)
  BY DEF Meaning
<1>4. e \in Cell /\ IsNumber(e) /\ i \in Nat
  BY Operands, CellParts
<1>5. /\ Safe(Target(st), c) /\ ty \in BOOLEAN /\ CellsOK(heap, c, ty) /\ x = ValueOf(heap, c)
      /\ p = Put(c, i, ty, e)
  BY <1>1 DEF Reads
<1> HIDE DEF s, c, x, e, i, ty, p
<1>6. Safe(Target(st), p) /\ ValueOf(heap, p) = Put(ValueOf(heap, c), i, ty, e)
  BY ONLY <1>4, <1>5, PutValue
<1>7. Value(lists[st.v])' = ValueOf(heap, p)
  BY ONLY Ready(st), <1>2, <1>6, DoesMeans
<1> QED BY <1>3, <1>5, <1>6, <1>7 DEF Means

(* What the list holds that v[i][j] = n makes: the value at i is another.  *)
InnerShown(st, k) ==
  LET old == Cells(w(st))
  IN  IF IsList(old[k]) THEN <<"list", InnerCells(st, k)>> ELSE old[k]

LEMMA InnerMeaning ==
  ASSUME NEW st, Ready(st), inner(st), st.op = "inner"
  PROVE  Meaning(st) = [k \in 1..LenOf(w(st)) |-> InnerShown(st, k)]
<1> DEFINE s == w(st)  old == Cells(s)  x == Value(s)  n == LenOf(s)  m == st.i + 1  e == Number(st.n)
           put == [x[m] EXCEPT ![2] = Put(x[m][2], st.j, TRUE, e)]
<1>1. ~IntoItself(st)
  BY DEF IntoItself, Writers
<1>2. Reads(Target(st), s, old, x)
  BY <1>1, ReadsW
<1>3. /\ st.i < n /\ IsList(old[m])
      /\ st.j < LenOf(old[m][2]) \/ Typed(old[m][2])
      /\ st.i \in Nat /\ st.j \in Nat /\ HeapOK(heap)
  BY Operands DEF inner
<1>4. Meaning(st) = [x EXCEPT ![m] = put]
  BY DEF Meaning
<1>5. /\ n \in Nat /\ old \in Seq(Cell) /\ Len(old) = n /\ x = [k \in 1..n |-> Shown(heap, old[k])]
      /\ m \in 1..n
  BY <1>2, <1>3 DEF Reads, ValueOf
<1>6. \A k \in 1..n : x[k] = Shown(heap, old[k])
  BY ONLY <1>5
<1>7. \A t : CellsIn(heap, t) = Cells(t)
  BY DEF CellsIn, Cells
<1>8. put = InnerShown(st, m)
  <2> DEFINE t == old[m][2]  c == Cells(t)
  <2>1. x[m] = <<"list", c>>
    BY ONLY <1>3, <1>5, <1>6, <1>7 DEF Shown
  <2>2. SliceIn(heap, t)
    <3>1. CellsOK(heap, old, Typed(s))
      BY <1>2 DEF Reads
    <3> QED BY ONLY <3>1, <1>3, <1>5 DEF CellsOK, CellIn
  <2>3. Typed(t) \in BOOLEAN /\ Len(c) = LenOf(t)
    BY <1>3, <2>2, ListIs
  <2>4. InnerShown(st, m) = <<"list", Put(c, st.j, Typed(t), e)>>
    BY <1>3 DEF InnerShown, InnerCells
  <2>5. st.j < Len(c) \/ Typed(t) = TRUE
    BY <1>3, <2>3
  <2> HIDE DEF t, c, e
  <2>6. Put(c, st.j, TRUE, e) = Put(c, st.j, Typed(t), e)
    <3>1. CASE Typed(t) = TRUE
      BY <3>1
    <3>2. CASE st.j < Len(c)
      <4> DEFINE j == st.j  size == Len(c)
      <4>1. j \in Nat /\ size \in Nat /\ j < size
        BY <1>3, <2>2, <2>3, <3>2, ListIs
      <4>2. ASSUME NEW yes PROVE Put(c, j, yes, e) = [k \in 1..size |-> IF k = j + 1 THEN e ELSE c[k]]
        <5> HIDE DEF j
        <5> QED BY ONLY <4>1 DEF Put
      <4> QED BY ONLY <4>2
    <3> QED BY <2>5, <3>1, <3>2
  <2> DEFINE q == Put(c, st.j, TRUE, e)
  <2>7. put = [x[m] EXCEPT ![2] = Put(x[m][2], st.j, TRUE, e)]
    OBVIOUS
  <2>8. x[m][2] = c
    BY ONLY <2>1
  <2>9. put = [<<"list", c>> EXCEPT ![2] = q]
    BY ONLY <2>1, <2>7, <2>8
  <2> HIDE DEF q
  <2>10. [<<"list", c>> EXCEPT ![2] = q] = <<"list", q>>
    OBVIOUS
  <2> QED BY ONLY <2>4, <2>6, <2>9, <2>10 DEF q
<1>9. ASSUME NEW k \in 1..n, k # m PROVE x[k] = InnerShown(st, k)
  <2>1. InnerCells(st, k) = Cells(old[k][2])
    BY <1>9 DEF InnerCells
  <2>2. InnerShown(st, k) = IF IsList(old[k]) THEN <<"list", InnerCells(st, k)>> ELSE old[k]
    BY DEF InnerShown
  <2> HIDE DEF old
  <2> QED BY ONLY <1>6, <1>7, <1>9, <2>1, <2>2 DEF Shown
<1> HIDE DEF put, x, n, m
<1>10. [x EXCEPT ![m] = put] = [k \in 1..n |-> InnerShown(st, k)]
  BY ONLY <1>5, <1>8, <1>9
<1> QED BY <1>4, <1>10 DEF n

LEMMA innerMeans ==
  ASSUME NEW st, Ready(st), inner(st), st.op = "inner"
  PROVE  Means(st)
<1> DEFINE s == w(st)  old == Cells(s)  n == LenOf(s)
<1>1. PICK r, new :
         /\ Gives(st, r) /\ Gets(r, 0, 0, new) /\ ~AllFlat(heap) /\ Len(new) = LenOf(w(st))
         /\ \A k \in 1..LenOf(w(st)) :
              IF IsList(Cells(w(st))[k])
              THEN IsList(new[k]) /\ CellsIn(r.heap, new[k][2]) = InnerCells(st, k)
              ELSE new[k] = Cells(w(st))[k]
  BY innerDoes
<1>2. Does(st, 0, new)
  <2>1. Target(st) = 0
    BY DEF Target, Writers
  <2> QED BY ONLY <1>1, <2>1 DEF Does
<1>3. /\ HeapOK(heap') /\ SliceIn(heap', lists'[st.v]) /\ CellsIn(heap', lists'[st.v]) = new
  BY ONLY Ready(st), <1>2, DoesGives
<1>4. heap' = r.heap /\ st.v \in Vars
  BY <1>1, Operands DEF Gives
<1>5. Value(lists[st.v])' = ValueOf(r.heap, new)
  BY <1>3, <1>4, ValueAfter
<1>6. \A k \in 1..n : Shown(r.heap, new[k]) = InnerShown(st, k)
  BY <1>1 DEF Shown, InnerShown
<1>7. ValueOf(r.heap, new) = [k \in 1..n |-> InnerShown(st, k)]
  BY <1>1, <1>6 DEF ValueOf
<1>8. Meaning(st) = [k \in 1..n |-> InnerShown(st, k)]
  BY InnerMeaning
<1> QED BY <1>5, <1>7, <1>8 DEF Means

(* A part of a list, in the same array. *)
LEMMA PartValue ==
  ASSUME HeapOK(heap), NEW s, SliceIn(heap, s), NEW i \in Nat, NEW j \in Nat, i <= j, j <= LenOf(s),
         NEW t, t = Slice(s.array, s.from + i, s.from + j)
  PROVE  SliceIn(heap, t) /\ ValueOf(heap, CellsIn(heap, t)) = SubSeq(Value(s), i + 1, j)
<1>1. SliceIn(heap, t) /\ CellsIn(heap, t) = SubSeq(CellsIn(heap, s), i + 1, j)
  BY PartCells
<1> DEFINE c == CellsIn(heap, s)  m == i + 1
<1>2. c \in Seq(Cell) /\ Len(c) = LenOf(s) /\ Value(s) = ValueOf(heap, c)
  BY ListIs, ValueIs
<1>3. m \in Nat /\ m >= 1 /\ j \in Int
  OBVIOUS
<1>4. CellsIn(heap, t) = SubSeq(c, m, j) /\ j <= Len(c)
  BY <1>1, <1>2
<1> HIDE DEF c, m
<1>5. ValueOf(heap, SubSeq(c, m, j)) = SubSeq(ValueOf(heap, c), m, j)
  BY ONLY <1>2, <1>3, <1>4, ValueOfPart
<1> QED BY <1>1, <1>2, <1>4, <1>5 DEF m

LEMMA esplitMeans ==
  ASSUME NEW st, Ready(st), esplit(st), st.op = "esplit"
  PROVE  Means(st)
<1> DEFINE s == w(st)  zero == 0  m == st.i - 1  n == LenOf(s)  mid == s.from + st.i - 1
           f == [s EXCEPT !.to = mid]  t == [s EXCEPT !.from = mid]  x == Value(s)
<1>1. /\ HeapOK(heap) /\ SliceIn(heap, s) /\ st.i \in Nat /\ st.v \in Vars /\ st.x \in Vars
      /\ lists \in [Vars -> Slices \cup {None}]
  BY Operands DEF Ready, TypeOK
<1>2. /\ heap' = heap /\ lists' = [[lists EXCEPT ![st.v] = f] EXCEPT ![st.x] = t]
      /\ st.i \in 1..n
  BY DEF esplit
<1>3. lists'[st.v] = IF st.v = st.x THEN t ELSE f
  BY <1>1, <1>2
<1>4. SliceIn(heap', lists'[st.v]) /\ HeapOK(heap')
  <2>1. UNCHANGED heap /\ \A v \in Vars : SliceIn(heap, lists'[v])
    BY ONLY Ready(st), esplit(st), esplitKeeps
  <2> QED BY <1>1, <2>1
<1>5. Value(lists[st.v])' = ValueOf(heap, CellsIn(heap, lists'[st.v]))
  BY <1>1, <1>2, <1>4, ValueAfter
<1>6. Meaning(st) = SubSeq(x, IF st.v = st.x THEN st.i ELSE 1, IF st.v = st.x THEN Len(x) ELSE m)
  BY DEF Meaning
<1> HIDE DEF s
<1>7. s \in Slices /\ s.from \in Nat /\ s.to \in Nat /\ s.from <= s.to /\ n \in Nat /\ n = s.to - s.from
  BY <1>1, SliceParts, ListIs DEF LenOf
<1>8. Len(x) = n
  <2>1. Len(CellsIn(heap, s)) = n /\ CellsIn(heap, s) \in Seq(Cell) /\ x = ValueOf(heap, CellsIn(heap, s))
    BY <1>1, ListIs, ValueIs
  <2> HIDE DEF x, n
  <2> QED BY ONLY <2>1, ValueSeq
<1>9. zero \in Nat /\ m \in Nat /\ zero <= m /\ m <= n /\ n <= LenOf(s) /\ m <= LenOf(s) /\ zero + 1 = 1 /\ m + 1 = st.i
  BY <1>1, <1>2, <1>7
<1>10. mid = s.from + m /\ s.from + zero = s.from /\ s.from + n = s.to
  BY <1>1, <1>7
<1> HIDE DEF mid
<1>11. f = Slice(s.array, s.from + zero, s.from + m)
  BY <1>7, <1>10 DEF Slice, Slices
<1>12. t = Slice(s.array, s.from + m, s.from + n)
  BY <1>7, <1>10 DEF Slice, Slices
<1> HIDE DEF f, t, x, m, n, zero
<1>13. ValueOf(heap, CellsIn(heap, f)) = SubSeq(x, zero + 1, m)
  BY ONLY <1>1, <1>9, <1>11, PartValue DEF x
<1>14. ValueOf(heap, CellsIn(heap, t)) = SubSeq(x, m + 1, n)
  <2>1. HeapOK(heap) /\ SliceIn(heap, s) /\ m \in Nat /\ n \in Nat /\ m <= n /\ n <= LenOf(s)
    BY ONLY <1>1, <1>7, <1>9
  <2> QED BY ONLY <2>1, <1>12, PartValue DEF x
<1>15. CASE st.v = st.x
  BY <1>3, <1>5, <1>6, <1>8, <1>9, <1>14, <1>15 DEF Means
<1>16. CASE st.v # st.x
  BY <1>3, <1>5, <1>6, <1>9, <1>13, <1>16 DEF Means
<1> QED BY <1>15, <1>16

LEMMA StatementMeans ==
  ASSUME IInv, NEW st \in Statements, Statement(st), ~(st.op = "range" /\ RangeSpoilt), ~IntoItself(st),
         st.op = "element" => Flat(lists[st.v])'
  PROVE  Means(st)
<1>1. Ready(st) /\ Do(st)
  BY DEF Statement, Ready, IInv
<1>2. CASE st.op = "literal" /\ literal(st)
  BY <1>1, <1>2, literalMeans
<1>3. CASE st.op = "range" /\ range(st)
  BY <1>1, <1>3, rangeMeans
<1>4. CASE st.op = "nest" /\ nest(st)
  BY <1>1, <1>4, nestMeans
<1>5. CASE st.op = "assign" /\ assign(st)
  BY <1>1, <1>5, assignMeans
<1>6. CASE st.op = "element" /\ element(st)
  BY <1>1, <1>6, elementMeans
<1>7. CASE st.op = "slice" /\ slice(st)
  BY <1>1, <1>7, sliceMeans
<1>8. CASE st.op = "tail" /\ tail(st)
  BY <1>1, <1>8, tailMeans
<1>9. CASE st.op = "pop" /\ pop(st)
  BY <1>1, <1>9, popMeans
<1>10. CASE st.op = "esplit" /\ esplit(st)
  BY <1>1, <1>10, esplitMeans
<1>11. CASE (st.op = "append" /\ append(st)) \/ (st.op = "append_to" /\ append_to(st))
  BY <1>1, <1>11, appendMeans
<1>12. CASE st.op = "concat" /\ concat(st)
  BY <1>1, <1>12, concatMeans
<1>13. CASE st.op = "push_front" /\ push_front(st)
  BY <1>1, <1>13, push_frontMeans
<1>14. CASE st.op = "insert" /\ insert(st)
  BY <1>1, <1>14, insertMeans
<1>15. CASE st.op = "remove" /\ remove(st)
  BY <1>1, <1>15, removeMeans
<1>16. CASE st.op = "list_fill" /\ list_fill(st)
  BY <1>1, <1>16, list_fillMeans
<1>17. CASE st.op = "add" /\ add(st)
  BY <1>1, <1>17, addMeans
<1>18. CASE st.op = "sort" /\ sort(st)
  BY <1>1, <1>18, sortMeans
<1>19. CASE st.op = "uniq" /\ uniq(st)
  BY <1>1, <1>19, uniqMeans
<1>20. CASE st.op = "set" /\ set(st)
  BY <1>1, <1>20, setMeans
<1>21. CASE st.op = "inner" /\ inner(st)
  BY <1>1, <1>21, innerMeans
<1> QED BY <1>1, <1>2, <1>3, <1>4, <1>5, <1>6, <1>7, <1>8, <1>9, <1>10, <1>11, <1>12, <1>13, <1>14,
           <1>15, <1>16, <1>17, <1>18, <1>19, <1>20, <1>21 DEF Do

LEMMA AtLast ==
  ASSUME NEW st, last' = st
  PROVE  Value(lists[last.v])' = Value(lists[st.v])' /\ Flat(lists[last.v])' = Flat(lists[st.v])'
<1> DEFINE C(s) == CellsIn(heap', s)
           V(s) == [k \in 1..LenOf(s) |-> IF IsList(C(s)[k]) THEN <<"list", C(C(s)[k][2])>> ELSE C(s)[k]]
           F(s) == \A k \in DOMAIN C(s) : ~IsList(C(s)[k])
<1>1. Value(lists[last.v])' = V(lists'[(last').v]) /\ Value(lists[st.v])' = V(lists'[st.v])
  BY DEF Value, Cells, CellsIn, LenOf
<1>2. Flat(lists[last.v])' = F(lists'[(last').v]) /\ Flat(lists[st.v])' = F(lists'[st.v])
  BY DEF Flat, Cells, CellsIn
<1>3. lists'[(last').v] = lists'[st.v]
  OBVIOUS
<1> HIDE DEF V, F
<1> QED BY ONLY <1>1, <1>2, <1>3

(* What AsMeant says of a step. *)
Meant ==
  \/ last'.op = "range" /\ RangeSpoilt
  \/ IntoItself(last')
  \/ last'.op = "element" /\ ~Flat(lists[last.v])'
  \/ Value(lists[last.v])' = Meaning(last')

(* Every statement gives its variable the list it means, whatever shares   *)
(* arrays with what, unless it writes into an element of the list it makes *)
(* or the list of 1..RangeEnd was written to before.                       *)
THEOREM StatementsMean == Spec => AsMeant
<1>1. ASSUME IInv, [Next]_vars, steps' # steps PROVE Meant
  <2>1. PICK st \in Statements : Statement(st)
    BY <1>1 DEF Next, vars, Declare
  <2>2. last' = st
    BY <2>1 DEF Statement
  <2>3. Means(st) => Value(lists[last.v])' = Meaning(last')
    BY <2>2, AtLast DEF Means
  <2>4. ~(st.op = "element" => Flat(lists[st.v])') => last'.op = "element" /\ ~Flat(lists[last.v])'
    BY <2>2, AtLast
  <2>5. \/ st.op = "range" /\ RangeSpoilt
        \/ IntoItself(st)
        \/ ~(st.op = "element" => Flat(lists[st.v])')
        \/ Means(st)
    BY <1>1, <2>1, StatementMeans
  <2> QED BY <2>2, <2>3, <2>4, <2>5 DEF Meant
<1>2. IInv /\ [Next]_vars => [steps' # steps => Meant]_vars
  BY <1>1
<1>3. Spec => [][steps' # steps => Meant]_vars
  BY <1>2, Invariant, PTL DEF Spec
<1> QED BY <1>3 DEF AsMeant, Meant

=============================================================================

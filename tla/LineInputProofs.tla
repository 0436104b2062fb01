-------------------------- MODULE LineInputProofs --------------------------
(***************************************************************************)
(* Lines of any length, any keys, options, directories and screens: what   *)
(* a key does to the line, to the draft and to the lines of the editor,    *)
(* though they are parts of arrays that other slices may be parts of too.  *)
(***************************************************************************)
EXTENDS LineInput, FiniteSetTheorems, SequenceTheorems, WellFoundedInduction, TLAPS

-----------------------------------------------------------------------------
(* Sets of numbers *)

(* A set of naturals has a least member, which is what induction over the  *)
(* naturals comes to below.                                                *)
LEMMA Least ==
  ASSUME NEW T, T \subseteq Nat, T # {}
  PROVE  \E x \in T : \A y \in T : x <= y
<1> DEFINE R == OpToRel(<, Nat)
<1>1. IsWellFoundedOn(R, Nat)
  BY NatLessThanWellFounded
<1>2. \A x, y \in Nat : y < x => <<y, x>> \in R
  BY DEF OpToRel
<1> HIDE DEF R
<1>3. PICK x \in T : \A y \in T : ~(<<y, x>> \in R)
  BY ONLY <1>1, WFMin, T \subseteq Nat, T # {}
<1>4. \A y \in T : ~(y < x)
  BY <1>2, <1>3
<1>5. \A y \in T : x \in Nat /\ y \in Nat
  BY <1>3
<1> QED BY <1>4, <1>5

LEMMA MinIs ==
  ASSUME NEW T, T \subseteq Nat, T # {}
  PROVE  Min(T) \in T /\ \A y \in T : Min(T) <= y
<1>1. \E x \in T : \A y \in T : x <= y
  BY Least
<1> QED BY <1>1 DEF Min

LEMMA MaxIs ==
  ASSUME NEW n \in Nat, NEW T, T \subseteq 0..n, T # {}
  PROVE  Max(T) \in T /\ \A y \in T : Max(T) >= y
<1> DEFINE D == {n - y : y \in T}
<1>1. D \subseteq Nat /\ D # {}
  OBVIOUS
<1>2. PICK d \in D : \A e \in D : d <= e
  BY <1>1, Least
<1>3. PICK x \in T : d = n - x
  OBVIOUS
<1>4. \A y \in T : n - x <= n - y
  BY <1>2, <1>3
<1>5. \A y \in T : x >= y
  BY <1>4
<1>6. \E w \in T : \A y \in T : w >= y
  BY <1>5
<1> QED BY <1>6 DEF Max

(* The member of a finite set of naturals with k - 1 members below it. *)
LEMMA NthIs ==
  ASSUME NEW n \in Nat, NEW T, T \subseteq 0..n, NEW k \in 1..Cardinality(T)
  PROVE  Nth(T, k) \in T
<1> DEFINE B(m) == {x \in T : x < m}
           C(m) == Cardinality(B(m))
           D == {m \in Nat : C(m) >= k}
<1>1. IsFiniteSet(T) /\ Cardinality(T) \in Nat
  <2>1. IsFiniteSet(0..n)
    BY FS_Interval
  <2> QED BY <2>1, FS_Subset, FS_CardinalityType
<1>2. \A m \in Nat : IsFiniteSet(B(m))
  BY <1>1, FS_Subset
<1>3. \A m \in Nat : C(m) \in Nat
  BY <1>2, FS_CardinalityType
<1>4. C(n + 1) >= k /\ C(0) = 0 /\ k \in Nat \ {0}
  <2>1. \A x \in T : x \in Nat /\ x < n + 1 /\ ~(x < 0)
    OBVIOUS
  <2>2. B(n + 1) = T /\ B(0) = {}
    BY ONLY <2>1
  <2> HIDE DEF B
  <2> QED BY <1>1, <2>2, FS_EmptySet
<1>5. \A m \in Nat : m \in T => C(m + 1) = C(m) + 1
  <2> SUFFICES ASSUME NEW m \in Nat, m \in T PROVE C(m + 1) = C(m) + 1
    OBVIOUS
  <2>1. \A x \in T : ~(m < m) /\ (x < m + 1 <=> x < m \/ x = m)
    OBVIOUS
  <2>2. B(m + 1) = B(m) \union {m} /\ ~(m \in B(m))
    BY ONLY <2>1, m \in T
  <2> HIDE DEF B
  <2> QED BY <1>2, <2>2, FS_AddElement
<1>6. \A m \in Nat : ~(m \in T) => C(m + 1) = C(m)
  <2> SUFFICES ASSUME NEW m \in Nat, ~(m \in T) PROVE C(m + 1) = C(m)
    OBVIOUS
  <2>1. \A x \in T : x < m + 1 <=> x < m
    OBVIOUS
  <2>2. B(m + 1) = B(m)
    BY ONLY <2>1
  <2> QED BY <2>2
<1> HIDE DEF C
<1>7. D \subseteq Nat /\ n + 1 \in D /\ ~(0 \in D)
  BY <1>4
<1>8. PICK m \in D : \A e \in D : m <= e
  <2> HIDE DEF D
  <2> QED BY <1>7, Least
<1>9. m - 1 \in Nat /\ C(m) >= k /\ C(m - 1) < k
  <2>1. m \in Nat /\ m # 0 /\ C(m) >= k
    BY <1>7, <1>8
  <2>2. m - 1 \in Nat /\ ~(m <= m - 1)
    BY <2>1
  <2>3. ~(m - 1 \in D)
    BY <1>8, <2>2
  <2>4. C(m - 1) \in Nat
    BY <1>3, <2>2
  <2> QED BY <1>4, <2>1, <2>2, <2>3, <2>4
<1> DEFINE p == m - 1
<1>10. p \in Nat /\ m = p + 1
  BY <1>7, <1>8, <1>9
<1>11. C(p + 1) >= k /\ C(p) < k /\ C(p) \in Nat
  BY <1>3, <1>9, <1>10
<1> HIDE DEF p, D
<1>12. p \in T /\ C(p) = k - 1
  BY <1>4, <1>5, <1>6, <1>10, <1>11
<1>13. \E x \in T : Cardinality({y \in T : y < x}) = k - 1
  BY <1>12 DEF C
<1> QED BY <1>13 DEF Nth

-----------------------------------------------------------------------------
(* Sequences *)

LEMMA SeqIs ==
  ASSUME NEW T, NEW n \in Nat, NEW f \in [1..n -> T]
  PROVE  f \in Seq(T) /\ Len(f) = n /\ DOMAIN f = 1..n
OBVIOUS

LEMMA SeqParts ==
  ASSUME NEW T, NEW s \in Seq(T)
  PROVE  Len(s) \in Nat /\ DOMAIN s = 1..Len(s) /\ \A k \in 1..Len(s) : s[k] \in T
OBVIOUS

LEMMA OneItem ==
  ASSUME NEW T, NEW e \in T
  PROVE  <<e>> \in Seq(T) /\ Len(<<e>>) = 1 /\ <<e>>[1] = e
OBVIOUS

(* SubSeq, also where it is empty. *)
LEMMA PartOf ==
  ASSUME NEW T, NEW s \in Seq(T), NEW m \in Nat, NEW n \in Nat, m >= 1, n <= Len(s)
  PROVE  /\ SubSeq(s, m, n) \in Seq(T)
         /\ Len(SubSeq(s, m, n)) = IF m <= n THEN n - m + 1 ELSE 0
         /\ \A k \in 1..Len(SubSeq(s, m, n)) : SubSeq(s, m, n)[k] = s[m + k - 1] /\ m + k - 1 \in 1..Len(s)
<1>1. \A k \in m..n : s[k] \in T
  BY ElementOfSeq
<1>2. /\ SubSeq(s, m, n) \in Seq(T)
      /\ Len(SubSeq(s, m, n)) = IF m <= n THEN n - m + 1 ELSE 0
      /\ \A k \in 1..n - m + 1 : SubSeq(s, m, n)[k] = s[m + k - 1]
  BY <1>1, SubSeqProperties
<1>3. \A k \in 1..n - m + 1 : m + k - 1 \in 1..Len(s)
  BY LenProperties
<1> QED BY <1>2, <1>3

LEMMA PickedIs ==
  ASSUME NEW T, NEW t \in Seq(T), NEW S \in SUBSET (DOMAIN t)
  PROVE  Picked(t, S) \in Seq(T)
<1>1. Len(t) \in Nat /\ DOMAIN t = 1..Len(t)
  BY SeqParts
<1>2. S \subseteq 0..Len(t)
  BY <1>1
<1>3. \A k \in 1..Cardinality(S) : Nth(S, k) \in S
  BY <1>1, <1>2, NthIs
<1>4. Cardinality(S) \in Nat
  <2>1. IsFiniteSet(0..Len(t))
    BY <1>1, FS_Interval
  <2> QED BY <1>2, <2>1, FS_Subset, FS_CardinalityType
<1>5. Picked(t, S) \in [1..Cardinality(S) -> T]
  BY <1>1, <1>3, SeqParts DEF Picked
<1> QED BY <1>4, <1>5, SeqIs

LEMMA InOrderIs ==
  ASSUME NEW n \in Nat, NEW S \in SUBSET (0..n)
  PROVE  InOrder(S) \in Seq(S)
<1>1. \A k \in 1..Cardinality(S) : Nth(S, k) \in S
  BY NthIs
<1>2. Cardinality(S) \in Nat
  <2>1. IsFiniteSet(0..n)
    BY FS_Interval
  <2> QED BY <2>1, FS_Subset, FS_CardinalityType
<1>3. InOrder(S) \in [1..Cardinality(S) -> S]
  BY <1>1 DEF InOrder
<1> QED BY <1>2, <1>3, SeqIs

LEMMA ReverseIs ==
  ASSUME NEW T, NEW s \in Seq(T)
  PROVE  Reverse(s) \in Seq(T)
<1>1. Len(s) \in Nat /\ \A k \in 1..Len(s) : s[k] \in T
  BY SeqParts
<1>2. \A i \in 1..Len(s) : Len(s) - i + 1 \in 1..Len(s)
  BY <1>1
<1>3. Reverse(s) \in [1..Len(s) -> T]
  BY <1>1, <1>2 DEF Reverse
<1> QED BY <1>1, <1>3, SeqIs

-----------------------------------------------------------------------------
(* Slices of the arrays g, and what operations on them write *)

Slices(g) ==
  {s \in [array : 1..Len(g), from : Nat, to : Nat] : s.from <= s.to /\ s.to <= Len(g[s.array])}

LEMMA SliceParts ==
  ASSUME NEW g \in Seq(Runes), NEW s \in Slices(g)
  PROVE  /\ s \in [array : Nat, from : Nat, to : Nat] /\ s = Slice(s.array, s.from, s.to)
         /\ s.array \in 1..Len(g) /\ s.array \in Nat \ {0} /\ s.from \in Nat /\ s.to \in Nat
         /\ Len(g) \in Nat /\ g[s.array] \in Seq(Rune) /\ Len(g[s.array]) \in Nat
         /\ s.from <= s.to /\ s.to <= Len(g[s.array])
         /\ LenOf(s) \in Nat /\ CapOf(g, s) \in Nat /\ LenOf(s) <= CapOf(g, s)
<1>1. /\ s \in [array : 1..Len(g), from : Nat, to : Nat] /\ s.from <= s.to /\ s.to <= Len(g[s.array])
  BY DEF Slices
<1>2. Len(g) \in Nat /\ g[s.array] \in Seq(Rune)
  BY <1>1, SeqParts DEF Runes
<1>3. Len(g[s.array]) \in Nat
  BY <1>2, SeqParts
<1>4. s = Slice(s.array, s.from, s.to)
  BY <1>1 DEF Slice
<1> QED BY <1>1, <1>2, <1>3, <1>4 DEF LenOf, CapOf

LEMMA SliceIs ==
  ASSUME NEW g \in Seq(Runes), NEW a \in 1..Len(g), NEW m \in Nat, NEW n \in Nat, m <= n, n <= Len(g[a])
  PROVE  /\ Slice(a, m, n) \in Slices(g) /\ Slice(a, m, n).array = a
         /\ Slice(a, m, n).from = m /\ Slice(a, m, n).to = n
BY DEF Slices, Slice

LEMMA CellsIs ==
  ASSUME NEW g \in Seq(Runes), NEW s \in Slices(g)
  PROVE  /\ Cells(g, s) \in Runes /\ Cells(g, s) \in Seq(Rune) /\ Len(Cells(g, s)) = LenOf(s)
         /\ LenOf(s) \in Nat
         /\ \A k \in 1..LenOf(s) : Cells(g, s)[k] = g[s.array][s.from + k]
<1> DEFINE c == g[s.array]  m == s.from + 1  t == Cells(g, s)
<1>1. /\ c \in Seq(Rune) /\ m \in Nat /\ s.to \in Nat /\ m >= 1 /\ s.to <= Len(c) /\ s.from \in Nat
      /\ s.from <= s.to
  BY SliceParts
<1>2. t = SubSeq(c, m, s.to)
  BY DEF Cells
<1> HIDE DEF c, m, t
<1>3. /\ t \in Seq(Rune) /\ Len(t) = IF m <= s.to THEN s.to - m + 1 ELSE 0
      /\ \A k \in 1..Len(t) : t[k] = c[m + k - 1]
  BY ONLY <1>1, <1>2, PartOf
<1>4. Len(t) \in Nat
  BY <1>3, SeqParts
<1>5. Len(t) = s.to - s.from /\ \A k \in 1..Len(t) : t[k] = c[s.from + k]
  <2>1. Len(t) = s.to - s.from
    BY <1>1, <1>3 DEF m
  <2>2. \A k \in 1..Len(t) : m + k - 1 = s.from + k
    BY <1>1, <1>4 DEF m
  <2> QED BY <1>3, <2>1, <2>2
<1> QED BY <1>3, <1>4, <1>5 DEF LenOf, Runes, c, t

(* The text between two places of a text, which may be empty. *)
LEMMA TextPart ==
  ASSUME NEW t \in Runes, NEW m \in Nat, NEW n \in Nat, n <= Len(t)
  PROVE  /\ SubSeq(t, m + 1, n) \in Runes
         /\ Len(SubSeq(t, m + 1, n)) = IF m < n THEN n - m ELSE 0
         /\ \A k \in 1..Len(SubSeq(t, m + 1, n)) : SubSeq(t, m + 1, n)[k] = t[m + k] /\ m + k \in 1..Len(t)
<1> DEFINE p == m + 1  u == SubSeq(t, p, n)
<1>1. p \in Nat /\ p >= 1 /\ t \in Seq(Rune)
  BY DEF Runes
<1> HIDE DEF p, u
<1>2. /\ u \in Seq(Rune) /\ Len(u) = IF p <= n THEN n - p + 1 ELSE 0
      /\ \A k \in 1..Len(u) : u[k] = t[p + k - 1] /\ p + k - 1 \in 1..Len(t)
  BY <1>1, PartOf DEF u
<1>3. Len(u) = IF m < n THEN n - m ELSE 0
  BY <1>2 DEF p
<1>4. \A k \in 1..Len(u) : u[k] = t[m + k] /\ m + k \in 1..Len(t)
  <2>1. Len(u) \in Nat
    BY <1>2, SeqParts
  <2>2. \A k \in 1..Len(u) : p + k - 1 = m + k
    BY <2>1 DEF p
  <2> QED BY <1>2, <2>2
<1> QED BY <1>2, <1>3, <1>4 DEF Runes, u, p

(* An operation on slices of g, that may write in the array a or a new one *)
(* and gives a slice that has these cells.                                 *)
Writes(g, r, a, cells) ==
  /\ r.h \in Seq(Runes) /\ Slices(g) \subseteq Slices(r.h)
  /\ r.s \in Slices(r.h) /\ Cells(r.h, r.s) = cells
  /\ \A s \in Slices(g) : s.array # a => Cells(r.h, s) = Cells(g, s)

LEMMA SlicesGrow ==
  ASSUME NEW g \in Seq(Runes), NEW g2 \in Seq(Runes), Len(g) <= Len(g2),
         \A a \in 1..Len(g) : Len(g2[a]) >= Len(g[a])
  PROVE  Slices(g) \subseteq Slices(g2)
<1> SUFFICES ASSUME NEW s \in Slices(g) PROVE s \in Slices(g2)
  OBVIOUS
<1>1. /\ s.array \in 1..Len(g) /\ s.from \in Nat /\ s.to \in Nat /\ s.from <= s.to /\ s.to <= Len(g[s.array])
      /\ Len(g) \in Nat /\ Len(g[s.array]) \in Nat /\ s = Slice(s.array, s.from, s.to)
  BY SliceParts
<1>2. Len(g2) \in Nat /\ s.array \in 1..Len(g2)
  BY <1>1, SeqParts
<1>3. Len(g2[s.array]) \in Nat
  BY <1>2, SeqParts DEF Runes
<1>4. s.to <= Len(g2[s.array])
  BY <1>1, <1>3
<1> QED BY <1>1, <1>2, <1>4, SliceIs

LEMMA CapIs ==
  ASSUME NEW cells \in Runes, NEW cap \in Nat, cap >= Len(cells)
  PROVE  /\ Cap(cells, cap) \in Runes /\ Len(Cap(cells, cap)) = cap
         /\ \A k \in 1..Len(cells) : Cap(cells, cap)[k] = cells[k]
<1> DEFINE n == cap - Len(cells)  f == [i \in 1..n |-> Junk]
<1>1. cells \in Seq(Rune) /\ Len(cells) \in Nat
  BY SeqParts DEF Runes
<1>2. n \in Nat /\ Len(cells) + n = cap
  BY <1>1
<1>3. f \in [1..n -> Rune]
  BY LineInputAssumption
<1>4. Cap(cells, cap) = cells \o f
  BY DEF Cap
<1> HIDE DEF n, f
<1>5. f \in Seq(Rune) /\ Len(f) = n
  BY <1>2, <1>3, SeqIs
<1>6. /\ cells \o f \in Seq(Rune) /\ Len(cells \o f) = Len(cells) + n
      /\ \A k \in 1..Len(cells) + n : (cells \o f)[k] = IF k <= Len(cells) THEN cells[k] ELSE f[k - Len(cells)]
  BY <1>1, <1>5, ConcatProperties
<1> QED BY <1>1, <1>2, <1>4, <1>6 DEF Runes

LEMMA PairedIs ==
  ASSUME NEW n \in Nat
  PROVE  Paired(n) \in Nat /\ Paired(n) >= n
BY DEF Paired

LEMMA AllocatedIs ==
  ASSUME NEW g \in Seq(Runes), NEW cells \in Runes, NEW cap \in Nat, cap >= Len(cells), NEW a
  PROVE  Writes(g, Allocated(g, cells, cap), a, cells)
<1> DEFINE c == Cap(cells, cap)  g2 == Append(g, c)  s == Slice(Len(g) + 1, 0, Len(cells))
<1>1. Allocated(g, cells, cap) = [h |-> g2, s |-> s]
  BY DEF Allocated
<1>2. /\ c \in Runes /\ Len(c) = cap /\ \A k \in 1..Len(cells) : c[k] = cells[k]
      /\ cells \in Seq(Rune) /\ Len(cells) \in Nat /\ Len(g) \in Nat
  BY CapIs, SeqParts DEF Runes
<1> HIDE DEF c
<1>3. /\ g2 \in Seq(Runes) /\ Len(g2) = Len(g) + 1 /\ g2[Len(g) + 1] = c
      /\ \A k \in 1..Len(g) : g2[k] = g[k]
  BY <1>2, AppendProperties
<1> HIDE DEF g2
<1>4. \A k \in 1..Len(g) : Len(g2[k]) \in Nat /\ Len(g2[k]) >= Len(g[k])
  <2>1. \A k \in 1..Len(g) : g[k] \in Seq(Rune)
    BY SeqParts DEF Runes
  <2>2. \A k \in 1..Len(g) : Len(g[k]) \in Nat
    BY <2>1, SeqParts
  <2> QED BY <1>3, <2>2
<1>5. Slices(g) \subseteq Slices(g2)
  BY <1>2, <1>3, <1>4, SlicesGrow
<1>6. s \in Slices(g2) /\ s.array = Len(g) + 1 /\ s.from = 0 /\ s.to = Len(cells)
  BY <1>2, <1>3, SliceIs
<1> HIDE DEF s
<1>7. Cells(g2, s) = cells
  <2> DEFINE t == Cells(g2, s)
  <2>1. /\ t \in Seq(Rune) /\ Len(t) = LenOf(s) /\ \A k \in 1..LenOf(s) : t[k] = g2[s.array][s.from + k]
    BY <1>3, <1>6, CellsIs
  <2> HIDE DEF t
  <2>2. Len(t) = Len(cells) /\ \A k \in 1..Len(t) : t[k] = cells[k]
    BY <2>1, <1>2, <1>3, <1>6 DEF LenOf
  <2>3. t = cells
    BY <2>1, <2>2, <1>2, SeqEqual
  <2> QED BY <2>3 DEF t
<1>8. \A z \in Slices(g) : Cells(g2, z) = Cells(g, z)
  BY <1>3, SliceParts DEF Cells
<1> QED BY <1>1, <1>3, <1>5, <1>6, <1>7, <1>8 DEF Writes

LEMMA FromTextIs ==
  ASSUME NEW g \in Seq(Runes), NEW text \in Runes, NEW a
  PROVE  Writes(g, FromText(g, text), a, text)
<1>1. Len(text) \in Nat
  BY SeqParts DEF Runes
<1> QED BY <1>1, PairedIs, AllocatedIs DEF FromText

(* append within the capacity *)
LEMMA OverIs ==
  ASSUME NEW g \in Seq(Runes), NEW s \in Slices(g), NEW cells \in Runes,
         LenOf(s) + Len(cells) <= CapOf(g, s),
         NEW c, c = [i \in DOMAIN g[s.array] |-> IF i \in s.to + 1..s.to + Len(cells) THEN cells[i - s.to]
                                                 ELSE g[s.array][i]]
  PROVE  /\ c \in Runes /\ Len(c) = Len(g[s.array]) /\ s.to + Len(cells) <= Len(c)
         /\ \A i \in 1..Len(c) : i > s.to /\ i <= s.to + Len(cells) => c[i] = cells[i - s.to]
         /\ \A i \in 1..Len(c) : ~(i > s.to /\ i <= s.to + Len(cells)) => c[i] = g[s.array][i]
<1> DEFINE b == g[s.array]
<1>1. /\ b \in Seq(Rune) /\ Len(b) \in Nat /\ DOMAIN b = 1..Len(b) /\ s.from \in Nat /\ s.to \in Nat
      /\ s.from <= s.to /\ s.to <= Len(b)
  BY SliceParts, SeqParts
<1>2. cells \in Seq(Rune) /\ Len(cells) \in Nat
  BY SeqParts DEF Runes
<1>3. s.to + Len(cells) <= Len(b)
  BY <1>1, <1>2 DEF LenOf, CapOf
<1>4. c = [i \in 1..Len(b) |-> IF i \in s.to + 1..s.to + Len(cells) THEN cells[i - s.to] ELSE b[i]]
  BY <1>1
<1> HIDE DEF b
<1>5. /\ \A i \in 1..Len(b) : i > s.to /\ i <= s.to + Len(cells) => c[i] = cells[i - s.to]
      /\ \A i \in 1..Len(b) : ~(i > s.to /\ i <= s.to + Len(cells)) => c[i] = b[i]
  BY ONLY <1>1, <1>2, <1>4
<1>6. \A i \in 1..Len(b) : c[i] \in Rune
  <2> SUFFICES ASSUME NEW i \in 1..Len(b) PROVE c[i] \in Rune
    OBVIOUS
  <2>1. CASE i > s.to /\ i <= s.to + Len(cells)
    <3>1. i - s.to \in 1..Len(cells)
      BY <1>1, <1>2, <2>1
    <3> QED BY <2>1, <3>1, <1>2, <1>5, SeqParts
  <2>2. CASE ~(i > s.to /\ i <= s.to + Len(cells))
    BY <2>2, <1>1, <1>5, SeqParts
  <2> QED BY <2>1, <2>2
<1>7. c \in [1..Len(b) -> Rune]
  BY <1>4, <1>6
<1>8. c \in Seq(Rune) /\ Len(c) = Len(b)
  BY <1>1, <1>7, SeqIs
<1> QED BY <1>3, <1>5, <1>8 DEF Runes, b

LEMMA AppendedIs ==
  ASSUME NEW g \in Seq(Runes), NEW s \in Slices(g), NEW cells \in Runes
  PROVE  Writes(g, Appended(g, s, cells), s.array, Cells(g, s) \o cells)
<1> DEFINE len == LenOf(s) + Len(cells)  old == Cells(g, s)  r == Appended(g, s, cells)
<1>1. /\ cells \in Seq(Rune) /\ Len(cells) \in Nat
      /\ old \in Seq(Rune) /\ Len(old) = LenOf(s) /\ LenOf(s) \in Nat
      /\ \A k \in 1..LenOf(s) : old[k] = g[s.array][s.from + k]
  BY CellsIs, SeqParts DEF Runes
<1> HIDE DEF r
<1>0. /\ len = LenOf(s) + Len(cells) /\ LenOf(s) = s.to - s.from
      /\ CapOf(g, s) = Len(g[s.array]) - s.from /\ old = Cells(g, s) /\ r = Appended(g, s, cells)
  BY DEF LenOf, CapOf, r
<1> HIDE DEF len, old
<1>2. /\ old \o cells \in Runes /\ Len(old \o cells) = len /\ len \in Nat
      /\ \A k \in 1..len : (old \o cells)[k] = IF k <= LenOf(s) THEN old[k] ELSE cells[k - LenOf(s)]
  BY <1>0, <1>1, ConcatProperties DEF Runes
<1>3. /\ s.array \in 1..Len(g) /\ s.from \in Nat /\ s.to \in Nat /\ Len(g) \in Nat /\ g[s.array] \in Seq(Rune)
      /\ Len(g[s.array]) \in Nat /\ s.from <= s.to /\ s.to <= Len(g[s.array]) /\ CapOf(g, s) \in Nat
  BY SliceParts
<1> DEFINE n == Len(cells)  from == s.from  to == s.to
<1>6. /\ n \in Nat /\ from \in Nat /\ to \in Nat /\ len \in Nat /\ from <= to /\ len = (to - from) + n
      /\ LenOf(s) = to - from
  BY ONLY <1>0, <1>1, <1>2, <1>3
<1> HIDE DEF n, from, to
<1>4. CASE len <= CapOf(g, s)
  <2> DEFINE c == [i \in DOMAIN g[s.array] |-> IF i \in s.to + 1..s.to + Len(cells) THEN cells[i - s.to]
                                               ELSE g[s.array][i]]
             g2 == [g EXCEPT ![s.array] = c]
             p == Slice(s.array, s.from, s.from + len)
             t == Cells(g2, p)
  <2>1. r = [h |-> g2, s |-> p]
    <3>1. r = [h |-> [g EXCEPT ![s.array] = c], s |-> Prefix(s, len)]
      BY <1>0, <1>3, <1>4 DEF Appended
    <3>2. Prefix(s, len) = p
      BY SliceParts DEF Prefix, Slice
    <3> QED BY <3>1, <3>2
  <2>2. /\ c \in Runes /\ Len(c) = Len(g[s.array]) /\ s.to + Len(cells) <= Len(c)
        /\ \A i \in 1..Len(c) : i > s.to /\ i <= s.to + Len(cells) => c[i] = cells[i - s.to]
        /\ \A i \in 1..Len(c) : ~(i > s.to /\ i <= s.to + Len(cells)) => c[i] = g[s.array][i]
    BY <1>0, <1>4, OverIs
  <2> HIDE DEF c
  <2>3. /\ g2 \in Seq(Runes) /\ Len(g2) = Len(g)
        /\ \A k \in 1..Len(g) : g2[k] = IF k = s.array THEN c ELSE g[k]
    BY <1>3, <2>2, ExceptSeq
  <2> HIDE DEF g2
  <2>4. \A k \in 1..Len(g) : Len(g2[k]) \in Nat /\ Len(g2[k]) >= Len(g[k])
    <3>1. \A k \in 1..Len(g) : g[k] \in Seq(Rune)
      BY SeqParts DEF Runes
    <3>2. \A k \in 1..Len(g) : Len(g[k]) \in Nat
      BY <3>1, SeqParts
    <3> QED BY <1>3, <2>2, <2>3, <3>2
  <2>5. Slices(g) \subseteq Slices(g2)
    BY <1>3, <2>3, <2>4, SlicesGrow
  <2>6. s.from + len = s.to + Len(cells) /\ s.from + len \in Nat /\ s.from <= s.from + len
    <3>1. from + len = to + n /\ from + len \in Nat /\ from <= from + len
      BY ONLY <1>6
    <3> QED BY <3>1 DEF from, to, n
  <2>7. p \in Slices(g2) /\ p.array = s.array /\ p.from = s.from /\ p.to = s.from + len
    <3>1. s.array \in 1..Len(g2) /\ g2[s.array] = c /\ s.from + len <= Len(c)
      BY <1>3, <2>2, <2>3, <2>6
    <3> DEFINE top == s.from + len
    <3>2. /\ g2 \in Seq(Runes) /\ s.array \in 1..Len(g2) /\ s.from \in Nat /\ top \in Nat
          /\ s.from <= top /\ top <= Len(g2[s.array])
      BY <1>3, <2>3, <2>6, <3>1
    <3>3. p = Slice(s.array, s.from, top)
      OBVIOUS
    <3> HIDE DEF top, p
    <3>4. p \in Slices(g2) /\ p.array = s.array /\ p.from = s.from /\ p.to = top
      BY ONLY <3>2, <3>3, SliceIs
    <3> QED BY <3>4 DEF top
  <2> HIDE DEF p
  <2>8. t \in Seq(Rune) /\ Len(t) = len /\ \A k \in 1..len : t[k] = c[s.from + k]
    <3>1. LenOf(p) = len
      BY <1>2, <1>3, <2>7 DEF LenOf
    <3>2. /\ t \in Seq(Rune) /\ Len(t) = LenOf(p) /\ \A k \in 1..LenOf(p) : t[k] = g2[p.array][p.from + k]
      BY <2>3, <2>7, CellsIs
    <3> QED BY <1>3, <2>3, <2>7, <3>1, <3>2
  <2> HIDE DEF t
  <2>9. \A k \in 1..len : t[k] = (old \o cells)[k]
    <3> SUFFICES ASSUME NEW k \in 1..len PROVE t[k] = (old \o cells)[k]
      OBVIOUS
    <3>0. k \in 1..len
      OBVIOUS
    <3>1. k \in Nat \ {0} /\ s.from + k \in 1..Len(c) /\ s.to = s.from + LenOf(s)
      <4>1. k \in Nat \ {0} /\ from + k >= 1 /\ from + k <= from + len /\ to = from + LenOf(s)
        BY ONLY <1>6, <3>0
      <4>2. Len(c) \in Nat /\ from + len <= Len(c) /\ from \in Nat
        BY ONLY <1>3, <1>6, <2>2, <2>6 DEF from
      <4> QED BY ONLY <1>6, <4>1, <4>2 DEF from, to
    <3>2. CASE k <= LenOf(s)
      <4>1. k \in 1..LenOf(s) /\ ~(s.from + k > s.to)
        BY ONLY <1>6, <3>1, <3>2 DEF from, to
      <4>2. t[k] = g[s.array][s.from + k]
        BY <2>2, <2>8, <3>1, <4>1
      <4> QED BY <1>1, <1>2, <3>2, <4>1, <4>2
    <3>3. CASE k > LenOf(s)
      <4>1. s.from + k > s.to /\ s.from + k <= s.to + Len(cells) /\ (s.from + k) - s.to = k - LenOf(s)
        BY ONLY <1>6, <3>0, <3>1, <3>3 DEF from, to, n
      <4>2. t[k] = c[s.from + k]
        BY ONLY <2>8, <3>0
      <4>3. c[s.from + k] = cells[(s.from + k) - s.to]
        <5> DEFINE i == s.from + k
        <5>1. i \in 1..Len(c) /\ i > s.to /\ i <= s.to + Len(cells)
          BY ONLY <3>1, <4>1
        <5> HIDE DEF i
        <5>2. c[i] = cells[i - s.to]
          BY ONLY <2>2, <5>1, Zenon
        <5> QED BY <5>2 DEF i
      <4>4. ~(k <= LenOf(s))
        BY ONLY <1>6, <3>1, <3>3
      <4>5. (old \o cells)[k] = cells[k - LenOf(s)]
        BY ONLY <1>2, <3>0, <4>4
      <4> QED BY ONLY <4>1, <4>2, <4>3, <4>5
    <3>4. k <= LenOf(s) \/ k > LenOf(s)
      BY ONLY <1>6, <3>1
    <3> QED BY ONLY <3>2, <3>3, <3>4, Zenon
  <2>10. t = old \o cells
    BY <1>2, <2>8, <2>9, SeqEqual DEF Runes
  <2>11. \A z \in Slices(g) : z.array # s.array => Cells(g2, z) = Cells(g, z)
    BY <2>3, SliceParts DEF Cells
  <2>12. r.h = g2 /\ r.s = p
    BY <2>1
  <2> QED BY <1>0, <2>3, <2>5, <2>7, <2>10, <2>11, <2>12 DEF Writes, t
<1>5. CASE ~(len <= CapOf(g, s))
  <2> DEFINE want == IF len > 2 * CapOf(g, s) THEN len ELSE 2 * CapOf(g, s)
  <2>1. want \in Nat /\ want >= len
    BY <1>2, <1>3
  <2>2. r = Allocated(g, old \o cells, Paired(want))
    BY <1>0, <1>5 DEF Appended
  <2> HIDE DEF want
  <2>3. Paired(want) \in Nat /\ Paired(want) >= len
    BY <1>2, <2>1, PairedIs
  <2>4. Writes(g, Allocated(g, old \o cells, Paired(want)), s.array, old \o cells)
    BY <1>2, <2>3, AllocatedIs
  <2> QED BY <1>0, <2>2, <2>4
<1> QED BY <1>4, <1>5

(* A slice of a slice. *)
SlicePart(g, s, a, b) ==
  /\ Slice(s.array, a, b) \in Slices(g) /\ Slice(s.array, a, b).array = s.array
  /\ LenOf(Slice(s.array, a, b)) = b - a
  /\ Cells(g, Slice(s.array, a, b)) = SubSeq(Cells(g, s), (a - s.from) + 1, b - s.from)

LEMMA SubSlice ==
  ASSUME NEW g \in Seq(Runes), NEW s \in Slices(g), NEW a \in Nat, NEW b \in Nat,
         s.from <= a, a <= b, b <= s.to
  PROVE  SlicePart(g, s, a, b)
<1> DEFINE z == Slice(s.array, a, b)  t == Cells(g, s)  u == Cells(g, z)  c == g[s.array]
           m == a - s.from  n == b - s.from  v == SubSeq(t, m + 1, n)
<1>1. /\ s.array \in 1..Len(g) /\ s.from \in Nat /\ s.to \in Nat /\ s.from <= s.to /\ s.to <= Len(c)
      /\ Len(c) \in Nat
  BY SliceParts
<1>2. LenOf(s) = s.to - s.from
  BY DEF LenOf
<1> HIDE DEF c
<1>3. m \in Nat /\ n \in Nat /\ m <= n /\ n <= LenOf(s) /\ s.from + m = a /\ b <= Len(c) /\ b - a = n - m
  <2>1. m \in Nat /\ n \in Nat
    BY <1>1
  <2>2. m <= n
    BY <1>1
  <2>3. n <= LenOf(s)
    BY <1>1, <1>2
  <2>4. s.from + m = a
    BY <1>1
  <2>5. b <= Len(c)
    BY <1>1
  <2>6. b - a = n - m
    BY <1>1
  <2> QED BY <2>1, <2>2, <2>3, <2>4, <2>5, <2>6
<1> HIDE DEF m, n
<1>4. z \in Slices(g) /\ z.array = s.array /\ z.from = a /\ z.to = b
  BY <1>1, <1>3, SliceIs DEF c
<1> HIDE DEF z
<1>5. LenOf(z) = b - a /\ LenOf(z) = n - m /\ n - m \in Nat
  BY <1>3, <1>4 DEF LenOf
<1>6. /\ t \in Runes /\ Len(t) = LenOf(s) /\ \A k \in 1..LenOf(s) : t[k] = c[s.from + k]
      /\ u \in Runes /\ Len(u) = n - m /\ \A k \in 1..n - m : u[k] = c[a + k]
  <2>1. t \in Runes /\ Len(t) = LenOf(s) /\ \A k \in 1..LenOf(s) : t[k] = c[s.from + k]
    BY CellsIs DEF c
  <2>2. u \in Runes /\ Len(u) = LenOf(z) /\ \A k \in 1..LenOf(z) : u[k] = g[z.array][z.from + k]
    BY <1>4, CellsIs
  <2>3. g[z.array] = c
    BY <1>4 DEF c
  <2> HIDE DEF t, u, c
  <2> QED BY ONLY <1>4, <1>5, <2>1, <2>2, <2>3
<1> HIDE DEF t, u
<1>7. /\ v \in Runes /\ Len(v) = IF m < n THEN n - m ELSE 0
      /\ \A k \in 1..Len(v) : v[k] = t[m + k] /\ m + k \in 1..Len(t)
  BY <1>3, <1>6, TextPart
<1> HIDE DEF v
<1>8. Len(v) = n - m
  BY <1>3, <1>7
<1>9. \A k \in 1..n - m : u[k] = v[k]
  <2> SUFFICES ASSUME NEW k \in 1..n - m PROVE u[k] = v[k]
    OBVIOUS
  <2>1. k \in Nat
    BY <1>5
  <2>2. a + k = s.from + (m + k)
    BY ONLY <1>1, <1>3, <2>1
  <2>3. v[k] = c[s.from + (m + k)]
    BY <1>6, <1>7, <1>8
  <2> QED BY <1>6, <2>2, <2>3
<1>10. u = v
  BY <1>6, <1>7, <1>8, <1>9, SeqEqual DEF Runes
<1> QED BY <1>4, <1>5, <1>10 DEF SlicePart, u, v, t, m, n, z

LEMMA PrefixIs ==
  ASSUME NEW g \in Seq(Runes), NEW s \in Slices(g), NEW n \in Nat, n <= CapOf(g, s)
  PROVE  /\ Prefix(s, n) \in Slices(g) /\ Prefix(s, n).array = s.array /\ LenOf(Prefix(s, n)) = n
         /\ n <= LenOf(s) => Cells(g, Prefix(s, n)) = SubSeq(Cells(g, s), 1, n)
<1>0. s = Slice(s.array, s.from, s.to)
  BY SliceParts
<1>1. /\ s.array \in 1..Len(g) /\ s.from \in Nat /\ s.to \in Nat
      /\ s.from <= s.to /\ s.to <= Len(g[s.array]) /\ Len(g[s.array]) \in Nat
  BY SliceParts
<1>2. Prefix(s, n) = Slice(s.array, s.from, s.from + n)
  BY <1>0, <1>1 DEF Prefix, Slice
<1>3. s.from + n \in Nat /\ s.from <= s.from + n /\ s.from + n <= Len(g[s.array]) /\ s.from = s.from + 0
  BY <1>1 DEF CapOf
<1>4. /\ Prefix(s, n) \in Slices(g) /\ Prefix(s, n).array = s.array
      /\ Prefix(s, n).from = s.from /\ Prefix(s, n).to = s.from + n
  BY <1>1, <1>2, <1>3, SliceIs
<1>5. LenOf(Prefix(s, n)) = n
  BY <1>1, <1>4 DEF LenOf
<1>6. ASSUME n <= LenOf(s) PROVE Cells(g, Prefix(s, n)) = SubSeq(Cells(g, s), 1, n)
  <2> DEFINE to == s.from + n
  <2>1. to \in Nat /\ s.from <= s.from /\ s.from <= to /\ to <= s.to /\ s.from - s.from = 0 /\ to - s.from = n
    BY <1>1, <1>6 DEF LenOf
  <2>2. Prefix(s, n) = Slice(s.array, s.from, to)
    BY <1>2
  <2> HIDE DEF to
  <2>3. Cells(g, Prefix(s, n)) = SubSeq(Cells(g, s), (s.from - s.from) + 1, to - s.from)
    <3>1. SlicePart(g, s, s.from, to)
      BY <1>1, <2>1, SubSlice
    <3> QED BY <2>2, <3>1 DEF SlicePart
  <2> QED BY <2>1, <2>3
<1> QED BY <1>4, <1>5, <1>6

LEMMA SuffixIs ==
  ASSUME NEW g \in Seq(Runes), NEW s \in Slices(g), NEW n \in Nat, n <= LenOf(s)
  PROVE  /\ Suffix(s, n) \in Slices(g) /\ Suffix(s, n).array = s.array
         /\ LenOf(Suffix(s, n)) = LenOf(s) - n
         /\ Cells(g, Suffix(s, n)) = SubSeq(Cells(g, s), n + 1, Len(Cells(g, s)))
<1>0. s = Slice(s.array, s.from, s.to)
  BY SliceParts
<1>1. /\ s.from \in Nat /\ s.to \in Nat /\ s.from <= s.to
      /\ LenOf(s) \in Nat /\ LenOf(s) = s.to - s.from
  BY SliceParts DEF LenOf
<1>2. s.from + LenOf(s) = s.to
  BY <1>1
<1> DEFINE z == Suffix(s, n)  from == s.from + n  t == Cells(g, s)
<1>3. z = Slice(s.array, from, s.to)
  BY <1>0, <1>1 DEF Suffix, Slice
<1>4. from \in Nat /\ s.from <= from /\ from <= s.to /\ from - s.from = n /\ s.to - s.from = LenOf(s)
  BY <1>1, <1>2
<1>5. Len(t) = LenOf(s)
  BY CellsIs
<1> HIDE DEF z, from, t
<1>6. /\ z \in Slices(g) /\ z.array = s.array /\ LenOf(z) = s.to - from
      /\ Cells(g, z) = SubSeq(Cells(g, s), (from - s.from) + 1, s.to - s.from)
  <2>1. SlicePart(g, s, from, s.to)
    BY <1>1, <1>4, SubSlice
  <2> QED BY <1>3, <2>1 DEF SlicePart
<1>7. LenOf(z) = LenOf(s) - n
  BY ONLY <1>1, <1>4, <1>6
<1>8. Cells(g, z) = SubSeq(t, n + 1, Len(t))
  BY <1>4, <1>5, <1>6 DEF t
<1> QED BY <1>6, <1>7, <1>8 DEF z, t

(* insertAt and insertWord *)
LEMMA InsertedIs ==
  ASSUME NEW g \in Seq(Runes), NEW s \in Slices(g), NEW pos \in Nat, pos <= LenOf(s), NEW cells \in Runes
  PROVE  Writes(g, Inserted(g, s, pos, cells), s.array, InText(Cells(g, s), pos, cells))
<1> DEFINE t == Cells(g, s)  p == Prefix(s, pos)  q == Suffix(s, pos)  m == pos + 1
           before == SubSeq(t, 1, pos)  after == SubSeq(t, m, Len(t))
<1>1. /\ t \in Runes /\ Len(t) = LenOf(s) /\ LenOf(s) \in Nat /\ pos <= CapOf(g, s)
      /\ LenOf(s) <= CapOf(g, s) /\ CapOf(g, s) \in Nat
  <2>1. /\ t \in Runes /\ Len(t) = LenOf(s) /\ LenOf(s) \in Nat
        /\ LenOf(s) <= CapOf(g, s) /\ CapOf(g, s) \in Nat
    BY CellsIs, SliceParts
  <2> QED BY <2>1
<1>2. p \in Slices(g) /\ p.array = s.array /\ Cells(g, p) = before
  BY <1>1, PrefixIs
<1>3. Cells(g, q) = after
  BY SuffixIs
<1>4. Inserted(g, s, pos, cells) = Appended(g, p, cells \o after)
  BY <1>3 DEF Inserted
<1>5. InText(t, pos, cells) = (before \o cells) \o after
  BY DEF InText
<1>6. before \in Seq(Rune) /\ after \in Seq(Rune) /\ cells \in Seq(Rune)
  <2>1. /\ 0 \in Nat /\ pos <= Len(t) /\ Len(t) \in Nat /\ Len(t) <= Len(t) /\ before = SubSeq(t, 0 + 1, pos)
    BY <1>1
  <2>2. before \in Runes /\ after \in Runes
    BY <1>1, <2>1, TextPart
  <2> QED BY <2>2 DEF Runes
<1> HIDE DEF t, p, before, after
<1>7. cells \o after \in Runes /\ (before \o cells) \o after = before \o (cells \o after)
  BY <1>6, ConcatAssociative, ConcatProperties DEF Runes
<1>8. Writes(g, Appended(g, p, cells \o after), p.array, Cells(g, p) \o (cells \o after))
  BY <1>2, <1>7, AppendedIs
<1>9. Writes(g, Inserted(g, s, pos, cells), s.array, InText(t, pos, cells))
  BY <1>2, <1>4, <1>5, <1>7, <1>8
<1> QED BY <1>9 DEF t

(* removeBefore *)
LEMMA RemovedBeforeIs ==
  ASSUME NEW g \in Seq(Runes), NEW s \in Slices(g), NEW pos \in Nat
  PROVE  Writes(g, RemovedBefore(g, s, pos), s.array,
                IF pos = 0 \/ pos > LenOf(s) THEN Cells(g, s) ELSE Cut(Cells(g, s), pos - 1, pos))
<1>1. CASE pos = 0 \/ pos > LenOf(s)
  BY <1>1 DEF RemovedBefore, Writes
<1>2. CASE ~(pos = 0 \/ pos > LenOf(s))
  <2> DEFINE t == Cells(g, s)  p == Prefix(s, pos - 1)  q == Suffix(s, pos)  m == pos + 1
             before == SubSeq(t, 1, pos - 1)  after == SubSeq(t, m, Len(t))
  <2>1. /\ t \in Runes /\ Len(t) = LenOf(s) /\ LenOf(s) \in Nat /\ LenOf(s) <= CapOf(g, s) /\ CapOf(g, s) \in Nat
    BY CellsIs, SliceParts
  <2>2. pos - 1 \in Nat /\ pos - 1 <= CapOf(g, s) /\ pos - 1 <= LenOf(s) /\ pos <= LenOf(s)
    BY <1>2, <2>1
  <2>3. p \in Slices(g) /\ p.array = s.array /\ Cells(g, p) = before
    BY <2>2, PrefixIs
  <2>4. Cells(g, q) = after
    BY <2>2, SuffixIs
  <2>5. RemovedBefore(g, s, pos) = Appended(g, p, after) /\ Cut(t, pos - 1, pos) = before \o after
    BY <1>2, <2>4 DEF RemovedBefore, Cut
  <2>6. after \in Runes
    <3>1. Len(t) \in Nat /\ Len(t) <= Len(t)
      BY <2>1
    <3> QED BY <2>1, <3>1, TextPart
  <2> HIDE DEF t, p, before, after
  <2>7. Writes(g, Appended(g, p, after), p.array, Cells(g, p) \o after)
    BY <2>3, <2>6, AppendedIs
  <2>8. Writes(g, RemovedBefore(g, s, pos), s.array, Cut(t, pos - 1, pos))
    BY <2>3, <2>5, <2>7
  <2> QED BY <1>2, <2>8 DEF t
<1> QED BY <1>1, <1>2

(* The places around a word *)
LEMMA StartIs ==
  ASSUME NEW t, NEW pos \in Nat, NEW seps
  PROVE  StartOf(t, pos, seps) \in Nat /\ StartOf(t, pos, seps) <= pos
<1> DEFINE S == {0} \union {p \in 1..pos : t[p] \in seps}
<1>1. S \subseteq 0..pos /\ S # {}
  OBVIOUS
<1>2. StartOf(t, pos, seps) = Max(S)
  BY DEF StartOf
<1> HIDE DEF S
<1>3. Max(S) \in S
  BY <1>1, MaxIs
<1>4. \A x \in S : x \in Nat /\ x <= pos
  BY <1>1
<1> QED BY <1>2, <1>3, <1>4

LEMMA EndIs ==
  ASSUME NEW t \in Runes, NEW pos \in Nat, pos <= Len(t), NEW seps
  PROVE  EndOf(t, pos, seps) \in Nat /\ pos <= EndOf(t, pos, seps) /\ EndOf(t, pos, seps) <= Len(t)
<1> DEFINE n == Len(t)  S == {n} \union {p \in pos..(n - 1) : t[p + 1] \in seps}
<1>1. n \in Nat
  BY SeqParts DEF Runes
<1>2. EndOf(t, pos, seps) = Min(S)
  BY DEF EndOf
<1>3. pos <= n
  OBVIOUS
<1> HIDE DEF n
<1>4. S \subseteq pos..n /\ S # {}
  BY <1>1, <1>3
<1> HIDE DEF S
<1>5. S \subseteq Nat
  BY <1>4
<1>6. Min(S) \in S
  BY <1>4, <1>5, MinIs
<1>7. \A x \in S : x \in Nat /\ pos <= x /\ x <= n
  BY <1>1, <1>4
<1> QED BY <1>2, <1>6, <1>7 DEF n

(* getWord *)
LEMMA WordIs ==
  ASSUME NEW g \in Seq(Runes), NEW s \in Slices(g), NEW pos \in Nat
  PROVE  Word(g, s, pos) \in Slices(g)
<1> DEFINE t == Cells(g, s)  p == IF pos > Len(t) THEN Len(t) ELSE pos
           b == StartOf(t, p, {" "})  e == EndOf(t, p, {" "})  from == s.from + b  to == s.from + e
<1>1. t \in Runes /\ Len(t) = LenOf(s) /\ Len(t) \in Nat
  BY CellsIs
<1>2. /\ s = Slice(s.array, s.from, s.to) /\ s.array \in 1..Len(g) /\ s.from \in Nat /\ s.to \in Nat
      /\ s.to <= Len(g[s.array]) /\ Len(g[s.array]) \in Nat
  BY SliceParts
<1>3. LenOf(s) = s.to - s.from
  BY DEF LenOf
<1>4. Word(g, s, pos) = [s EXCEPT !.from = from, !.to = to]
  BY DEF Word
<1> HIDE DEF t
<1>5. p \in Nat /\ p <= Len(t)
  BY <1>1
<1> HIDE DEF p
<1>6. b \in Nat /\ b <= p /\ e \in Nat /\ p <= e /\ e <= Len(t)
  BY <1>1, <1>5, StartIs, EndIs
<1> HIDE DEF b, e
<1>7. b <= e /\ e <= s.to - s.from
  BY <1>1, <1>3, <1>5, <1>6
<1>8. from \in Nat /\ to \in Nat /\ from <= to /\ to <= s.to
  <2>1. s.from \in Nat /\ s.to \in Nat
    BY <1>2
  <2> QED BY ONLY <1>6, <1>7, <2>1
<1>9. to <= Len(g[s.array])
  BY <1>2, <1>8
<1> HIDE DEF from, to
<1>10. Word(g, s, pos) = Slice(s.array, from, to)
  BY <1>2, <1>4 DEF Slice
<1> QED BY <1>2, <1>8, <1>9, <1>10, SliceIs

(* deleteWord: what is before the word stays. *)
DeletedAt(g, d, s, cells) ==
  /\ Writes(g, d, s.array, cells) /\ d.start \in Nat /\ cells \in Runes /\ d.start <= Len(cells)
  /\ SubSeq(cells, 1, d.start) = SubSeq(Cells(g, s), 1, d.start)

LEMMA ConcatStart ==
  ASSUME NEW a \in Runes, NEW b \in Runes
  PROVE  /\ a \o b \in Runes /\ Len(a \o b) = Len(a) + Len(b) /\ Len(a) \in Nat /\ Len(b) \in Nat
         /\ SubSeq(a \o b, 1, Len(a)) = a
<1> DEFINE c == a \o b  n == Len(a)  u == SubSeq(c, 1, n)
<1>1. a \in Seq(Rune) /\ b \in Seq(Rune) /\ n \in Nat /\ Len(b) \in Nat
  BY SeqParts DEF Runes
<1>2. /\ c \in Seq(Rune) /\ Len(c) = n + Len(b)
      /\ \A k \in 1..n + Len(b) : c[k] = IF k <= n THEN a[k] ELSE b[k - n]
  BY <1>1, ConcatProperties
<1> HIDE DEF c
<1>3. n <= Len(c) /\ Len(c) \in Nat
  BY <1>1, <1>2
<1>4. /\ u \in Seq(Rune) /\ Len(u) = IF 1 <= n THEN n - 1 + 1 ELSE 0
      /\ \A k \in 1..Len(u) : u[k] = c[1 + k - 1]
  BY <1>1, <1>2, <1>3, PartOf
<1>5. n = Len(a)
  OBVIOUS
<1> HIDE DEF u, n
<1>6. Len(u) = n /\ \A k \in 1..n : u[k] = a[k]
  <2>1. Len(u) = n
    BY <1>1, <1>4
  <2>2. \A k \in 1..n : 1 + k - 1 = k /\ k <= n /\ k \in 1..n + Len(b)
    BY <1>1
  <2> QED BY <1>2, <1>4, <2>1, <2>2
<1>7. u = a
  BY <1>1, <1>4, <1>5, <1>6, SeqEqual
<1> QED BY <1>1, <1>2, <1>7 DEF Runes, u, c, n

LEMMA DeletedIs ==
  ASSUME NEW g \in Seq(Runes), NEW s \in Slices(g), NEW pos \in Nat, NEW seps,
         NEW d, d = DeletedBetween(g, s, pos, seps)
  PROVE  /\ \E cells : DeletedAt(g, d, s, cells)
         /\ pos <= LenOf(s) => d.start = StartOf(Cells(g, s), pos, seps)
<1> DEFINE t == Cells(g, s)  start == StartOf(t, pos, seps)  end == EndOf(t, pos, seps)
           after == SubSeq(t, end + 2, Len(t))
           rest == IF end = Len(t) THEN <<>> ELSE (IF start = 0 THEN <<>> ELSE <<" ">>) \o after
           old == SubSeq(t, 1, start)
<1>1. t \in Runes /\ Len(t) = LenOf(s) /\ Len(t) \in Nat /\ LenOf(s) <= CapOf(g, s) /\ CapOf(g, s) \in Nat
  BY CellsIs, SliceParts
<1>2. CASE pos > Len(t)
  <2>1. d = [h |-> g, s |-> s, start |-> 0]
    BY <1>2 DEF DeletedBetween
  <2>2. Writes(g, d, s.array, t)
    BY <2>1 DEF Writes
  <2>3. DeletedAt(g, d, s, t)
    BY <1>1, <2>1, <2>2 DEF DeletedAt
  <2>4. ~(pos <= LenOf(s))
    BY <1>1, <1>2
  <2> QED BY <2>3, <2>4
<1>3. CASE ~(pos > Len(t))
  <2>0. pos <= Len(t)
    BY <1>1, <1>3
  <2>1. start \in Nat /\ start <= pos /\ end \in Nat /\ pos <= end /\ end <= Len(t)
    BY <1>1, <2>0, StartIs, EndIs
  <2> DEFINE r == IF start = 0 THEN Allocated(g, rest, Paired(Len(rest)))
                  ELSE Appended(g, Prefix(s, start), rest)
  <2>2. d = [h |-> r.h, s |-> r.s, start |-> start]
    BY <1>3, Zenon DEF DeletedBetween
  <2>3. d.h = r.h /\ d.s = r.s /\ d.start = start
    <3> HIDE DEF r, start
    <3> QED BY ONLY <2>2
  <2> HIDE DEF start, end
  <2>4. rest \in Runes
    <3>1. after \in Runes
      <4> DEFINE m == end + 1
      <4>1. m \in Nat /\ m + 1 = end + 2 /\ Len(t) <= Len(t)
        BY <1>1, <2>1
      <4> HIDE DEF m, t
      <4>2. SubSeq(t, m + 1, Len(t)) \in Runes
        BY <1>1, <4>1, TextPart
      <4> QED BY <4>1, <4>2 DEF t
    <3>2. <<>> \in Runes /\ <<" ">> \in Runes
      <4>1. " " \in Rune
        BY LineInputAssumption
      <4> QED BY ONLY <4>1, OneItem, EmptySeq DEF Runes
    <3> HIDE DEF after, t
    <3>3. \A a \in Runes : a \o after \in Runes
      BY <3>1, ConcatStart
    <3> QED BY <3>2, <3>3
  <2>5. old \in Runes /\ Len(old) = start
    <3>1. 0 \in Nat /\ start <= Len(t) /\ 0 + 1 = 1
      BY <1>1, <2>1
    <3> HIDE DEF t
    <3>2. SubSeq(t, 0 + 1, start) \in Runes /\ Len(SubSeq(t, 0 + 1, start)) = IF 0 < start THEN start - 0 ELSE 0
      BY <1>1, <2>1, <3>1, TextPart
    <3> QED BY <2>1, <3>1, <3>2 DEF t
  <2> HIDE DEF rest
  <2>6. CASE start = 0
    <3>1. Writes(g, r, s.array, rest)
      BY <2>4, <2>6, FromTextIs DEF FromText
    <3>2. Writes(g, d, s.array, rest)
      BY <2>3, <3>1 DEF Writes
    <3>3. SubSeq(rest, 1, 0) = <<>> /\ SubSeq(t, 1, 0) = <<>>
      BY SubSeqEmpty
    <3>4. Len(rest) \in Nat
      BY <2>4, SeqParts DEF Runes
    <3>5. DeletedAt(g, d, s, rest)
      BY <2>3, <2>4, <2>6, <3>2, <3>3, <3>4 DEF DeletedAt
    <3> QED BY <2>3, <3>5 DEF start
  <2>7. CASE start # 0
    <3> DEFINE p == Prefix(s, start)
    <3>1. p \in Slices(g) /\ p.array = s.array /\ Cells(g, p) = old
      <4>1. start \in Nat /\ start <= LenOf(s) /\ start <= CapOf(g, s)
        BY <1>1, <2>1
      <4> QED BY <4>1, PrefixIs
    <3>2. Writes(g, Appended(g, p, rest), p.array, Cells(g, p) \o rest)
      BY <2>4, <3>1, AppendedIs
    <3>3. r = Appended(g, p, rest)
      BY <2>7
    <3> HIDE DEF p, r, old
    <3>4. Writes(g, d, s.array, old \o rest)
      BY <2>3, <3>1, <3>2, <3>3 DEF Writes
    <3>5. /\ old \o rest \in Runes /\ Len(old \o rest) = start + Len(rest) /\ Len(rest) \in Nat
          /\ SubSeq(old \o rest, 1, start) = old
      BY <2>4, <2>5, ConcatStart
    <3>6. start <= Len(old \o rest)
      BY <2>1, <3>5
    <3>7. DeletedAt(g, d, s, old \o rest)
      BY <2>1, <2>3, <3>4, <3>5, <3>6 DEF DeletedAt, old
    <3> QED BY <2>3, <3>7 DEF start
  <2> QED BY <2>6, <2>7
<1> QED BY <1>2, <1>3

-----------------------------------------------------------------------------
(* The arrays that are reached *)

LEMMA PlaceIs ==
  ASSUME NEW g \in Seq(Runes), NEW held \in Seq(Slices(g)), NEW k \in 1..Len(held),
         NEW a, a = held[k].array
  PROVE  Place(held, a) \in 1..Len(held) /\ held[Place(held, a)].array = a
<1> DEFINE S == {j \in 1..Len(held) : held[j].array = a}
<1>1. Len(held) \in Nat /\ DOMAIN held = 1..Len(held)
  BY SeqParts
<1>2. S \subseteq Nat /\ S # {}
  BY <1>1
<1>3. PICK m \in S : \A j \in S : m <= j
  <2> HIDE DEF S
  <2> QED BY <1>2, Least
<1>4. \A j \in 1..(m - 1) : held[j].array # a
  <2> SUFFICES ASSUME NEW j \in 1..(m - 1), held[j].array = a PROVE FALSE
    OBVIOUS
  <2>1. m \in Nat /\ m <= Len(held)
    BY <1>1, <1>3
  <2>2. j \in 1..Len(held) /\ ~(m <= j)
    BY <1>1, <2>1
  <2> QED BY <1>3, <2>2
<1>5. \E i \in DOMAIN held : held[i].array = a /\ \A j \in 1..(i - 1) : held[j].array # a
  BY <1>1, <1>3, <1>4
<1>6. Place(held, a) \in DOMAIN held /\ held[Place(held, a)].array = a
  BY <1>5 DEF Place
<1> QED BY <1>1, <1>6

LEMMA BaseIs ==
  ASSUME NEW g \in Seq(Runes), NEW held \in Seq(Slices(g)), NEW k \in 1..Len(held),
         NEW a, a = held[k].array
  PROVE  /\ Base(held, a) \in Nat /\ Base(held, a) <= held[k].from
         /\ held[k] \in Of(held, a) /\ a \in 1..Len(g)
         /\ Base(held, a) <= Len(g[a]) /\ Len(g[a]) \in Nat /\ g[a] \in Seq(Rune)
<1> DEFINE S == {s.from : s \in Of(held, a)}
<1>1. Len(held) \in Nat /\ DOMAIN held = 1..Len(held) /\ \A j \in 1..Len(held) : held[j] \in Slices(g)
  BY SeqParts
<1>2. held[k] \in Of(held, a)
  BY <1>1 DEF Of
<1>3. \A s \in Of(held, a) : s \in Slices(g)
  BY <1>1 DEF Of
<1>4. \A s \in Of(held, a) : s.from \in Nat
  BY <1>3, SliceParts
<1>5. S \subseteq Nat /\ held[k].from \in S
  BY <1>2, <1>4
<1>6. Base(held, a) = Min(S)
  BY DEF Base
<1> HIDE DEF S
<1>7. Min(S) \in S /\ \A y \in S : Min(S) <= y
  <2>1. S # {}
    BY <1>5
  <2> QED BY <1>5, <2>1, MinIs
<1>8. Base(held, a) \in Nat /\ Base(held, a) <= held[k].from
  BY <1>5, <1>6, <1>7
<1>9. /\ a \in 1..Len(g) /\ held[k].from \in Nat /\ held[k].to \in Nat /\ held[k].from <= held[k].to
      /\ held[k].to <= Len(g[a]) /\ Len(g[a]) \in Nat /\ g[a] \in Seq(Rune)
  BY <1>1, SliceParts
<1>10. Base(held, a) <= Len(g[a])
  BY <1>8, <1>9
<1> QED BY <1>2, <1>8, <1>9, <1>10

LEMMA SharedIs ==
  ASSUME NEW c \in Seq(Rune), NEW of, NEW base \in Nat, base <= Len(c), NEW u, u = Shared(c, of, base)
  PROVE  /\ u \in Runes /\ Len(u) = Len(c) - base
         /\ \A p \in 1..Len(c) - base : (\E s \in of : p + base \in (s.from + 1)..s.to) => u[p] = c[p + base]
<1> DEFINE n == Len(c) - base  In(p) == \E s \in of : p + base \in (s.from + 1)..s.to
<1>1. n \in Nat /\ Len(c) \in Nat /\ n + base = Len(c)
  BY SeqParts
<1>2. u = [p \in 1..n |-> IF In(p) THEN c[p + base] ELSE Junk]
  BY DEF Shared
<1>3. Junk \in Rune
  BY LineInputAssumption
<1> HIDE DEF n, In
<1>4. \A p \in 1..n : p + base \in 1..Len(c)
  BY <1>1
<1>5. \A p \in 1..n : c[p + base] \in Rune
  BY <1>4, SeqParts
<1>6. u \in [1..n -> Rune]
  BY <1>2, <1>3, <1>5
<1>7. u \in Seq(Rune) /\ Len(u) = n
  BY <1>1, <1>6, SeqIs
<1>8. \A p \in 1..n : In(p) => u[p] = c[p + base]
  BY <1>2
<1> QED BY <1>7, <1>8 DEF Runes, n, In

SameSlice(g, s, g2, z) == z \in Slices(g2) /\ Cells(g2, z) = Cells(g, s)

LEMMA ReachedIs ==
  ASSUME NEW g \in Seq(Runes), NEW held \in Seq(Slices(g)), NEW g2, g2 = Reached(g, held)
  PROVE  /\ g2 \in Seq(Runes) /\ Len(g2) = Len(held)
         /\ \A k \in 1..Len(held) :
              Place(held, held[k].array) = k =>
                g2[k] = Shared(g[held[k].array], Of(held, held[k].array), Base(held, held[k].array))
<1> DEFINE A(k) == held[k].array
           Cut2(k) == Shared(g[A(k)], Of(held, A(k)), Base(held, A(k)))
<1>1. Len(held) \in Nat /\ DOMAIN held = 1..Len(held)
  BY SeqParts
<1>2. g2 = [k \in 1..Len(held) |-> IF Place(held, A(k)) = k THEN Cut2(k) ELSE <<>>]
  BY <1>1 DEF Reached
<1>3. \A k \in 1..Len(held) : Cut2(k) \in Runes
  <2> SUFFICES ASSUME NEW k \in 1..Len(held) PROVE Cut2(k) \in Runes
    OBVIOUS
  <2> DEFINE a == A(k)  base == Base(held, a)  of == Of(held, a)  c == g[a]
  <2>1. base \in Nat /\ base <= Len(c) /\ c \in Seq(Rune)
    BY BaseIs
  <2>2. Cut2(k) = Shared(c, of, base)
    OBVIOUS
  <2> HIDE DEF base, of, c, Cut2
  <2> QED BY <2>1, <2>2, SharedIs
<1> HIDE DEF Cut2
<1>4. <<>> \in Runes
  BY DEF Runes
<1>5. g2 \in [1..Len(held) -> Runes]
  BY <1>2, <1>3, <1>4
<1>6. g2 \in Seq(Runes) /\ Len(g2) = Len(held)
  BY <1>1, <1>5, SeqIs
<1>7. \A k \in 1..Len(held) : Place(held, A(k)) = k => g2[k] = Cut2(k)
  BY <1>2
<1> QED BY <1>6, <1>7 DEF Cut2

LEMMA RenumberedIs ==
  ASSUME NEW g \in Seq(Runes), NEW held \in Seq(Slices(g)), NEW g2, g2 = Reached(g, held),
         NEW k \in 1..Len(held)
  PROVE  SameSlice(g, held[k], g2, Renumbered(held, held[k]))
<1> DEFINE s == held[k]  a == s.array  base == Base(held, a)  q == Place(held, a)  of == Of(held, a)
           c == g[a]  c2 == g2[q]  from == s.from - base  to == s.to - base  z == Slice(q, from, to)
<1>1. s \in Slices(g)
  BY SeqParts
<1>2. /\ s.from \in Nat /\ s.to \in Nat /\ s.from <= s.to /\ s.to <= Len(c) /\ LenOf(s) \in Nat
      /\ LenOf(s) = s.to - s.from
  BY <1>1, SliceParts DEF LenOf
<1>3. base \in Nat /\ base <= s.from /\ s \in of /\ base <= Len(c) /\ Len(c) \in Nat /\ c \in Seq(Rune)
  BY BaseIs
<1>4. q \in 1..Len(held) /\ held[q].array = a
  BY PlaceIs
<1>5. Renumbered(held, s) = z
  BY DEF Renumbered
<1>6. g2 \in Seq(Runes) /\ Len(g2) = Len(held) /\ c2 = Shared(c, of, base)
  <2>1. Place(held, held[q].array) = q
    BY <1>4
  <2> HIDE DEF q, a
  <2>2. /\ g2 \in Seq(Runes) /\ Len(g2) = Len(held)
        /\ g2[q] = Shared(g[held[q].array], Of(held, held[q].array), Base(held, held[q].array))
    BY <1>4, <2>1, ReachedIs
  <2> QED BY <1>4, <2>2
<1> HIDE DEF s, a, base, q, of, c, c2
<1>7. /\ Len(c2) = Len(c) - base
      /\ \A p \in 1..Len(c) - base : (\E w \in of : p + base \in (w.from + 1)..w.to) => c2[p] = c[p + base]
  BY <1>3, <1>6, SharedIs
<1>8. from \in Nat /\ to \in Nat /\ from <= to /\ to <= Len(c2)
  <2>1. from \in Nat /\ to \in Nat
    BY <1>2, <1>3
  <2>2. from <= to
    BY <1>2, <1>3
  <2>3. to <= Len(c2)
    BY <1>2, <1>3, <1>7
  <2> QED BY <2>1, <2>2, <2>3
<1>9. to - from = LenOf(s) /\ from + base = s.from
  BY <1>2, <1>3
<1> HIDE DEF from, to
<1>10. z \in Slices(g2) /\ z.array = q /\ z.from = from /\ z.to = to
  BY <1>4, <1>6, <1>8, SliceIs DEF c2
<1>11. LenOf(z) = LenOf(s)
  BY <1>9, <1>10 DEF LenOf
<1> DEFINE t == Cells(g, s)  u == Cells(g2, z)
<1> HIDE DEF z
<1>12. /\ t \in Runes /\ Len(t) = LenOf(s) /\ \A i \in 1..LenOf(s) : t[i] = c[s.from + i]
       /\ u \in Runes /\ Len(u) = LenOf(s) /\ \A i \in 1..LenOf(s) : u[i] = c2[from + i]
  BY <1>1, <1>6, <1>10, <1>11, CellsIs DEF c, c2, a
<1> HIDE DEF t, u
<1>13. \A i \in 1..LenOf(s) : u[i] = t[i]
  <2> SUFFICES ASSUME NEW i \in 1..LenOf(s) PROVE u[i] = t[i]
    OBVIOUS
  <2> DEFINE p == from + i
  <2>1. p \in 1..Len(c) - base /\ p + base = s.from + i /\ p + base \in (s.from + 1)..s.to
    <3>1. i \in Nat /\ i >= 1 /\ i <= LenOf(s)
      BY <1>2
    <3>2. p \in Nat /\ p >= 1 /\ p + base = s.from + i
      BY <1>8, <1>9, <1>3, <3>1
    <3>3. p <= to /\ s.from + i <= s.to
      BY <1>2, <1>8, <1>9, <3>1
    <3>4. p <= Len(c) - base
      BY <1>3, <1>7, <1>8, <3>2, <3>3
    <3> HIDE DEF p
    <3> QED BY <1>2, <1>3, <3>1, <3>2, <3>3, <3>4
  <2> HIDE DEF p
  <2>2. c2[p] = c[p + base]
    BY <1>3, <1>7, <2>1
  <2> QED BY <1>12, <2>1, <2>2 DEF p
<1>14. u = t
  BY <1>12, <1>13, SeqEqual DEF Runes
<1> QED BY <1>5, <1>10, <1>14 DEF SameSlice, t, u, s, z

-----------------------------------------------------------------------------
(* How a key ends *)

LineIn(g)   == [s : Slices(g), orig : Slices(g), default : Slices(g), word : Slices(g), cpos : Nat]
Filters     == [on : BOOLEAN, query : Runes, index : Nat]
EditorIn(g) == [lines : Seq(Slices(g)), i : Nat, c : Nat, height : Int, filter : Filters]

(* The line l of the arrays g is l2 in the arrays g2; orig_s if it is kept. *)
SameLine(g, l, g2, l2, kept) ==
  /\ l2 \in LineIn(g2) /\ l2.cpos = l.cpos /\ Cells(g2, l2.s) = Cells(g, l.s)
  /\ kept => Cells(g2, l2.orig) = Cells(g, l.orig)

(* And so is the editor. *)
SameEditor(g, e, g2, e2) ==
  /\ e2 \in EditorIn(g2) /\ Len(e2.lines) = Len(e.lines)
  /\ e2.i = e.i /\ e2.c = e.c /\ e2.height = e.height /\ e2.filter = e.filter
  /\ \A k \in 1..Len(e.lines) : Cells(g2, e2.lines[k]) = Cells(g, e.lines[k])

LEMMA HeldIs ==
  ASSUME NEW g, NEW l \in LineIn(g), NEW e \in EditorIn(g), NEW held, held = Held(l, e)
  PROVE  /\ held \in Seq(Slices(g)) /\ Len(held) = 4 + Len(e.lines) /\ Len(e.lines) \in Nat
         /\ held[1] = l.s /\ held[2] = l.orig /\ held[3] = l.default /\ held[4] = l.word
         /\ \A k \in 1..Len(e.lines) : held[4 + k] = e.lines[k]
<1> DEFINE T == Slices(g)  four == <<l.s, l.orig, l.default, l.word>>
<1>1. /\ four \in Seq(T) /\ Len(four) = 4
      /\ four[1] = l.s /\ four[2] = l.orig /\ four[3] = l.default /\ four[4] = l.word
  <2> HIDE DEF T
  <2>1. l.s \in T /\ l.orig \in T /\ l.default \in T /\ l.word \in T
    BY DEF LineIn, T
  <2> QED BY ONLY <2>1
<1>2. e.lines \in Seq(T) /\ Len(e.lines) \in Nat
  BY SeqParts DEF EditorIn
<1>3. held = four \o e.lines
  BY DEF Held
<1> HIDE DEF four, T
<1>4. /\ held \in Seq(T) /\ Len(held) = 4 + Len(e.lines)
      /\ \A k \in 1..4 + Len(e.lines) : held[k] = IF k <= 4 THEN four[k] ELSE e.lines[k - 4]
  <2>1. /\ four \o e.lines \in Seq(T) /\ Len(four \o e.lines) = Len(four) + Len(e.lines)
        /\ \A k \in 1..Len(four) + Len(e.lines) :
             (four \o e.lines)[k] = IF k <= Len(four) THEN four[k] ELSE e.lines[k - Len(four)]
    BY ONLY <1>1, <1>2, ConcatProperties
  <2> QED BY ONLY <1>1, <1>3, <2>1
<1> DEFINE n == Len(e.lines)
<1>5. n \in Nat /\ \A k \in 1..4 + n : held[k] = IF k <= 4 THEN four[k] ELSE e.lines[k - 4]
  BY <1>2, <1>4
<1> HIDE DEF n
<1>6. held[1] = four[1] /\ held[2] = four[2] /\ held[3] = four[3] /\ held[4] = four[4]
  BY ONLY <1>5
<1>7. \A k \in 1..n : held[4 + k] = e.lines[k]
  <2> SUFFICES ASSUME NEW k \in 1..n PROVE held[4 + k] = e.lines[k]
    OBVIOUS
  <2>1. 4 + k \in 1..4 + n /\ ~(4 + k <= 4) /\ (4 + k) - 4 = k
    BY ONLY <1>5, k \in 1..n
  <2> QED BY <1>5, <2>1
<1> QED BY <1>1, <1>2, <1>4, <1>6, <1>7 DEF T, n

LEMMA SettledIs ==
  ASSUME NEW g, NEW l \in LineIn(g)
  PROVE  /\ Settled(l) \in LineIn(g) /\ Settled(l).s = l.s /\ Settled(l).cpos = l.cpos
         /\ Settled(l).default = l.default /\ Settled(l).word = l.word
         /\ nav'.on \/ search'.on => Settled(l).orig = l.orig
BY DEF Settled, LineIn

LEMMA EndsIs ==
  ASSUME NEW g \in Seq(Runes), NEW l \in LineIn(g), NEW e \in EditorIn(g), Ends(g, l, e)
  PROVE  /\ h' \in Seq(Runes)
         /\ SameLine(g, l, h', line', nav'.on \/ search'.on)
         /\ SameEditor(g, e, h', ed')
         /\ e.lines = <<>> => ed' = e
<1> DEFINE m == Settled(l)  held == Held(m, e)  R(s) == Renumbered(held, s)
<1>1. /\ h' = Reached(g, held)
      /\ line' = [m EXCEPT !.s = R(@), !.orig = R(@), !.default = R(@), !.word = R(@)]
      /\ ed' = [e EXCEPT !.lines = [n \in DOMAIN @ |-> R(@[n])]]
  BY DEF Ends
<1>2. /\ m \in LineIn(g) /\ m.s = l.s /\ m.cpos = l.cpos
      /\ nav'.on \/ search'.on => m.orig = l.orig
  BY SettledIs
<1> HIDE DEF m
<1>3. /\ held \in Seq(Slices(g)) /\ Len(held) = 4 + Len(e.lines) /\ Len(e.lines) \in Nat
      /\ held[1] = m.s /\ held[2] = m.orig /\ held[3] = m.default /\ held[4] = m.word
      /\ \A k \in 1..Len(e.lines) : held[4 + k] = e.lines[k]
  BY <1>2, HeldIs
<1> HIDE DEF held
<1>4. h' \in Seq(Runes)
  BY <1>1, <1>3, ReachedIs
<1>5. \A k \in 1..Len(held) : SameSlice(g, held[k], h', R(held[k]))
  BY <1>1, <1>3, RenumberedIs
<1> HIDE DEF R
<1>6. 1 \in 1..Len(held) /\ 2 \in 1..Len(held) /\ 3 \in 1..Len(held) /\ 4 \in 1..Len(held)
  BY ONLY <1>3
<1>7. /\ SameSlice(g, m.s, h', R(m.s)) /\ SameSlice(g, m.orig, h', R(m.orig))
      /\ SameSlice(g, m.default, h', R(m.default)) /\ SameSlice(g, m.word, h', R(m.word))
  BY <1>3, <1>5, <1>6
<1>8. /\ line' \in LineIn(h') /\ line'.cpos = m.cpos /\ line'.s = R(m.s) /\ line'.orig = R(m.orig)
  <2>1. /\ R(m.s) \in Slices(h') /\ R(m.orig) \in Slices(h') /\ R(m.default) \in Slices(h')
        /\ R(m.word) \in Slices(h')
    BY <1>7 DEF SameSlice
  <2>2. line' = [s |-> R(m.s), orig |-> R(m.orig), default |-> R(m.default), word |-> R(m.word), cpos |-> m.cpos]
    BY <1>1, <1>2 DEF LineIn
  <2>3. m.cpos \in Nat
    BY <1>2 DEF LineIn
  <2> QED BY ONLY <2>1, <2>2, <2>3 DEF LineIn
<1>9. SameLine(g, l, h', line', nav'.on \/ search'.on)
  BY <1>2, <1>7, <1>8 DEF SameLine, SameSlice
<1> DEFINE n == Len(e.lines)  lines == [k \in 1..n |-> R(e.lines[k])]
<1>10. n \in Nat /\ e.lines \in Seq(Slices(g)) /\ DOMAIN e.lines = 1..n
  BY SeqParts DEF EditorIn
<1>11. \A k \in 1..n : SameSlice(g, e.lines[k], h', R(e.lines[k]))
  <2> SUFFICES ASSUME NEW k \in 1..n PROVE SameSlice(g, e.lines[k], h', R(e.lines[k]))
    OBVIOUS
  <2>1. 4 + k \in 1..Len(held)
    BY <1>3
  <2> QED BY <1>3, <1>5, <2>1
<1>12. ed' = [lines |-> lines, i |-> e.i, c |-> e.c, height |-> e.height, filter |-> e.filter]
  BY <1>1, <1>10 DEF EditorIn
<1>13. lines \in Seq(Slices(h')) /\ Len(lines) = n /\ \A k \in 1..n : lines[k] = R(e.lines[k])
  <2>1. lines \in [1..n -> Slices(h')]
    BY <1>11 DEF SameSlice
  <2> QED BY <1>10, <2>1, SeqIs
<1>14. e.i \in Nat /\ e.c \in Nat /\ e.height \in Int /\ e.filter \in Filters
  BY DEF EditorIn
<1>15. SameEditor(g, e, h', ed')
  <2> HIDE DEF lines
  <2>1. /\ ed'.lines = lines /\ ed'.i = e.i /\ ed'.c = e.c /\ ed'.height = e.height /\ ed'.filter = e.filter
        /\ ed' \in EditorIn(h')
    BY ONLY <1>12, <1>13, <1>14 DEF EditorIn
  <2>2. \A k \in 1..n : Cells(h', lines[k]) = Cells(g, e.lines[k])
    BY <1>11, <1>13 DEF SameSlice
  <2> QED BY <1>13, <2>1, <2>2 DEF SameEditor
<1>16. ASSUME e.lines = <<>> PROVE ed' = e
  <2>1. n = 0
    BY <1>16
  <2>2. lines = <<>>
    BY <2>1
  <2>3. e = [lines |-> e.lines, i |-> e.i, c |-> e.c, height |-> e.height, filter |-> e.filter]
    BY DEF EditorIn
  <2> HIDE DEF lines
  <2> QED BY <1>12, <1>16, <2>2, <2>3
<1> QED BY <1>4, <1>9, <1>15, <1>16

LineOK == h \in Seq(Runes) /\ line \in LineIn(h)

(* The line is this text with the cursor in this place, and the draft is   *)
(* what it was.                                                            *)
Now(text, cpos) ==
  /\ h' \in Seq(Runes) /\ line' \in LineIn(h') /\ ed' = Closed /\ fate' = "edits"
  /\ Cells(h', line'.s) = text /\ line'.cpos = cpos
DraftIs(draft) == nav'.on => Cells(h', line'.orig) = draft

WithText(l, s, cpos) == [l EXCEPT !.s = s, !.cpos = cpos]

LEMMA LineWith ==
  ASSUME NEW g, NEW l \in LineIn(g), NEW s \in Slices(g), NEW c \in Nat
  PROVE  /\ WithText(l, s, c) \in LineIn(g) /\ WithText(l, s, c).s = s /\ WithText(l, s, c).cpos = c
         /\ WithText(l, s, c).orig = l.orig
BY DEF LineIn, WithText

LEMMA LineParts ==
  ASSUME NEW g, NEW l \in LineIn(g)
  PROVE  /\ l.s \in Slices(g) /\ l.orig \in Slices(g) /\ l.default \in Slices(g) /\ l.word \in Slices(g)
         /\ l.cpos \in Nat
BY DEF LineIn

LEMMA LineLater ==
  ASSUME NEW g, NEW g2, Slices(g) \subseteq Slices(g2), NEW l \in LineIn(g)
  PROVE  l \in LineIn(g2)
BY DEF LineIn

LEMMA LookIs ==
  ASSUME NEW g \in Seq(Runes), NEW l \in LineIn(g)
  PROVE  /\ Look(g, l) \in LineIn(g) /\ Look(g, l).s = l.s /\ Look(g, l).cpos = l.cpos
         /\ Look(g, l).orig = l.orig
<1>1. l.s \in Slices(g) /\ l.cpos \in Nat
  BY LineParts
<1>2. Word(g, l.s, l.cpos) \in Slices(g)
  BY <1>1, WordIs
<1> QED BY <1>2 DEF Look, LineIn

LEMMA ClosedIs ==
  ASSUME NEW g
  PROVE  Closed \in EditorIn(g) /\ Closed.lines = <<>> /\ NoFilter \in Filters
<1>1. NoFilter \in Filters
  BY DEF NoFilter, Filters, Runes
<1> DEFINE T == Slices(g)
<1> HIDE DEF T
<1>2. <<>> \in Seq(T)
  OBVIOUS
<1>3. Closed \in [lines : Seq(T), i : Nat, c : Nat, height : Int, filter : Filters]
  BY <1>1, <1>2 DEF Closed
<1> QED BY <1>1, <1>3 DEF Closed, EditorIn, T

LEMMA KeepIs ==
  ASSUME NEW g \in Seq(Runes), NEW l \in LineIn(g), Keep(g, l)
  PROVE  Now(Cells(g, l.s), l.cpos) /\ DraftIs(Cells(g, l.orig))
<1>1. Closed \in EditorIn(g) /\ Closed.lines = <<>>
  BY ClosedIs
<1>2. Ends(g, l, Closed) /\ fate' = "edits"
  BY DEF Keep
<1>3. h' \in Seq(Runes) /\ SameLine(g, l, h', line', nav'.on \/ search'.on) /\ ed' = Closed
  BY <1>1, <1>2, EndsIs
<1> QED BY <1>2, <1>3 DEF SameLine, Now, DraftIs

LEMMA BecomesIs ==
  ASSUME LineOK, NEW r, NEW a, NEW cells, Writes(h, r, a, cells), NEW cpos \in Nat, Becomes(r, cpos)
  PROVE  /\ Now(cells, cpos)
         /\ line.orig.array # a => DraftIs(Cells(h, line.orig))
<1> DEFINE l == WithText(line, r.s, cpos)
<1>1. /\ r.h \in Seq(Runes) /\ Slices(h) \subseteq Slices(r.h) /\ r.s \in Slices(r.h)
      /\ Cells(r.h, r.s) = cells
      /\ \A s \in Slices(h) : s.array # a => Cells(r.h, s) = Cells(h, s)
  BY DEF Writes
<1>2. line \in LineIn(r.h) /\ line.orig \in Slices(h)
  BY <1>1, LineLater, LineParts DEF LineOK
<1>3. l \in LineIn(r.h) /\ l.s = r.s /\ l.cpos = cpos /\ l.orig = line.orig
  <2>1. r.s \in Slices(r.h) /\ line \in LineIn(r.h)
    BY <1>1, <1>2
  <2> QED BY ONLY <2>1, cpos \in Nat, LineWith
<1>4. Keep(r.h, Look(r.h, l))
  BY DEF Becomes, WithText
<1> HIDE DEF l
<1>5. /\ Look(r.h, l) \in LineIn(r.h) /\ Look(r.h, l).s = l.s /\ Look(r.h, l).cpos = l.cpos
      /\ Look(r.h, l).orig = l.orig
  BY <1>1, <1>3, LookIs
<1>6. Now(Cells(r.h, l.s), l.cpos) /\ DraftIs(Cells(r.h, l.orig))
  <2>1. Now(Cells(r.h, Look(r.h, l).s), Look(r.h, l).cpos) /\ DraftIs(Cells(r.h, Look(r.h, l).orig))
    BY <1>1, <1>4, <1>5, KeepIs
  <2> QED BY <1>5, <2>1
<1>7. line.orig.array # a => Cells(r.h, line.orig) = Cells(h, line.orig)
  BY <1>1, <1>2
<1> QED BY <1>1, <1>3, <1>6, <1>7 DEF DraftIs

LEMMA MovesIs ==
  ASSUME LineOK, NEW cpos \in Nat, Moves(cpos)
  PROVE  Now(Text, cpos) /\ DraftIs(Cells(h, line.orig))
<1> DEFINE l == [line EXCEPT !.cpos = cpos]
<1>1. h \in Seq(Runes) /\ l \in LineIn(h) /\ l.s = line.s /\ l.cpos = cpos /\ l.orig = line.orig
  BY DEF LineOK, LineIn
<1>2. Keep(h, Look(h, l))
  BY DEF Moves
<1> HIDE DEF l
<1>3. Look(h, l) \in LineIn(h) /\ Look(h, l).s = l.s /\ Look(h, l).cpos = l.cpos /\ Look(h, l).orig = l.orig
  BY <1>1, LookIs
<1>4. Now(Cells(h, Look(h, l).s), Look(h, l).cpos) /\ DraftIs(Cells(h, Look(h, l).orig))
  BY <1>1, <1>2, <1>3, KeepIs
<1> QED BY <1>1, <1>3, <1>4 DEF Text

LEMMA StaysIs ==
  ASSUME LineOK, Stays
  PROVE  Now(Text, line.cpos) /\ DraftIs(Cells(h, line.orig))
BY KeepIs DEF Stays, LineOK, Text

LEMMA TextIs ==
  ASSUME LineOK
  PROVE  /\ Text \in Runes /\ Text \in Seq(Rune) /\ Len(Text) = LenOf(line.s) /\ Len(Text) \in Nat
         /\ line.s \in Slices(h) /\ line.cpos \in Nat /\ h \in Seq(Runes)
         /\ PastEnd <=> line.cpos > Len(Text)
<1>1. h \in Seq(Runes) /\ line.s \in Slices(h) /\ line.cpos \in Nat
  BY LineParts DEF LineOK
<1>2. Text \in Runes /\ Text \in Seq(Rune) /\ Len(Text) = LenOf(line.s) /\ LenOf(line.s) \in Nat
  BY <1>1, CellsIs DEF Text
<1> QED BY <1>1, <1>2 DEF PastEnd

-----------------------------------------------------------------------------
(* The keys that change the line *)

OrigApart == line.s.array # line.orig.array

(* What the text becomes, and that a draft in an array of its own stays. *)
Turns(text, cpos) == Now(text, cpos) /\ (OrigApart => DraftIs(Cells(h, line.orig)))

LEMMA TurnsIs ==
  ASSUME LineOK, NEW r, NEW cells, Writes(h, r, line.s.array, cells), NEW cpos \in Nat, Becomes(r, cpos)
  PROVE  Turns(cells, cpos)
BY BecomesIs DEF Turns, OrigApart

LEMMA MovesTurns ==
  ASSUME LineOK, NEW cpos \in Nat, Moves(cpos)
  PROVE  Turns(Text, cpos)
BY MovesIs DEF Turns

LEMMA StaysTurns ==
  ASSUME LineOK, Stays
  PROVE  Turns(Text, line.cpos)
BY StaysIs DEF Turns

LEMMA InsertIs ==
  ASSUME LineOK, NEW cells \in Runes, Insert(cells)
  PROVE  /\ PastEnd => Panics
         /\ ~PastEnd => Turns(InText(Text, line.cpos, cells), line.cpos + Len(cells))
<1>1. CASE PastEnd
  BY <1>1 DEF Insert
<1>2. CASE ~PastEnd
  <2> DEFINE r == Inserted(h, line.s, line.cpos, cells)  cpos == line.cpos + Len(cells)
  <2>1. Becomes(r, cpos)
    BY <1>2 DEF Insert
  <2>2. /\ line.s \in Slices(h) /\ line.cpos \in Nat /\ h \in Seq(Runes) /\ Len(cells) \in Nat
        /\ LenOf(line.s) \in Nat
    BY TextIs, SeqParts DEF Runes
  <2>3. line.cpos <= LenOf(line.s)
    BY <1>2, <2>2 DEF PastEnd
  <2>4. Writes(h, r, line.s.array, InText(Text, line.cpos, cells))
    BY <2>2, <2>3, InsertedIs DEF Text
  <2>5. cpos \in Nat
    BY <2>2
  <2> HIDE DEF r, cpos
  <2>6. Turns(InText(Text, line.cpos, cells), cpos)
    BY <2>1, <2>4, <2>5, TurnsIs
  <2> QED BY <1>2, <2>6 DEF cpos
<1> QED BY <1>1, <1>2

LEMMA BackspaceIs ==
  ASSUME LineOK, NEW k, Backspace(k)
  PROVE  /\ line.cpos > 0 /\ ~PastEnd => Turns(Cut(Text, line.cpos - 1, line.cpos), line.cpos - 1)
         /\ line.cpos > 0 /\ PastEnd => Turns(Text, line.cpos - 1)
         /\ line.cpos = 0 => Turns(Text, line.cpos)
<1>1. /\ line.s \in Slices(h) /\ line.cpos \in Nat /\ h \in Seq(Runes) /\ LenOf(line.s) \in Nat
  BY TextIs
<1>2. CASE line.cpos > 0
  <2> DEFINE r == RemovedBefore(h, line.s, line.cpos)
             text == IF line.cpos = 0 \/ line.cpos > LenOf(line.s) THEN Text
                     ELSE Cut(Text, line.cpos - 1, line.cpos)
  <2>1. Becomes(r, line.cpos - 1)
    BY <1>2 DEF Backspace
  <2>2. line.cpos - 1 \in Nat
    BY <1>1, <1>2
  <2>3. Writes(h, r, line.s.array, text)
    BY <1>1, RemovedBeforeIs DEF Text
  <2> HIDE DEF r, text
  <2>4. Turns(text, line.cpos - 1)
    BY <2>1, <2>2, <2>3, TurnsIs
  <2>5. line.cpos # 0
    BY <1>1, <1>2
  <2> QED BY <1>2, <2>4, <2>5 DEF PastEnd, text
<1>3. CASE line.cpos = 0
  <2>1. Stays
    BY <1>3 DEF Backspace
  <2>2. ~(line.cpos > 0)
    BY <1>3
  <2> QED BY <2>1, <2>2, StaysTurns
<1> QED BY <1>1, <1>2, <1>3

LEMMA DeleteIs ==
  ASSUME LineOK, NEW k, Delete(k)
  PROVE  /\ line.cpos < Len(Text) => Turns(Cut(Text, line.cpos, line.cpos + 1), line.cpos)
         /\ ~(line.cpos < Len(Text)) => Turns(Text, line.cpos)
<1>1. /\ line.s \in Slices(h) /\ line.cpos \in Nat /\ h \in Seq(Runes) /\ LenOf(line.s) \in Nat
      /\ Len(Text) = LenOf(line.s) /\ line \in LineIn(h)
  BY TextIs DEF LineOK
<1>2. CASE line.cpos < LenOf(line.s)
  <2> DEFINE n == line.cpos + 1  r == RemovedBefore(h, line.s, n)
             text == IF n = 0 \/ n > LenOf(line.s) THEN Text ELSE Cut(Text, n - 1, n)
  <2>1. Becomes(r, line.cpos)
    BY <1>2 DEF Delete
  <2>2. n \in Nat /\ ~(n = 0) /\ ~(n > LenOf(line.s)) /\ n - 1 = line.cpos
    BY <1>1, <1>2
  <2> HIDE DEF n
  <2>3. Writes(h, r, line.s.array, text)
    BY <1>1, <2>2, RemovedBeforeIs DEF Text
  <2> HIDE DEF r
  <2>4. text = Cut(Text, line.cpos, n)
    BY <2>2
  <2> HIDE DEF text
  <2>5. Turns(text, line.cpos)
    BY <1>1, <2>1, <2>3, TurnsIs
  <2> QED BY <1>1, <1>2, <2>4, <2>5 DEF n
<1>3. CASE ~(line.cpos < LenOf(line.s)) /\ LenOf(line.s) = 0
  <2> DEFINE none == FromText(h, <<>>)  l == [line EXCEPT !.default = none.s]
  <2>1. Keep(none.h, l)
    BY <1>3 DEF Delete
  <2>2. Writes(h, none, 0, <<>>)
    <3>1. <<>> \in Runes
      BY DEF Runes
    <3> QED BY <1>1, <3>1, FromTextIs
  <2>3. /\ none.h \in Seq(Runes) /\ Slices(h) \subseteq Slices(none.h) /\ none.s \in Slices(none.h)
        /\ \A s \in Slices(h) : s.array # 0 => Cells(none.h, s) = Cells(h, s)
    BY <2>2 DEF Writes
  <2> HIDE DEF none
  <2>4. line \in LineIn(none.h)
    BY <1>1, <2>3, LineLater
  <2>5. l \in LineIn(none.h) /\ l.s = line.s /\ l.cpos = line.cpos /\ l.orig = line.orig
    BY <2>3, <2>4 DEF LineIn
  <2> HIDE DEF l
  <2>6. Now(Cells(none.h, l.s), l.cpos) /\ DraftIs(Cells(none.h, l.orig))
    BY <2>1, <2>3, <2>5, KeepIs
  <2>7. line.orig \in Slices(h) /\ line.s.array # 0 /\ line.orig.array # 0
    BY <1>1, LineParts, SliceParts
  <2>8. Cells(none.h, line.s) = Text /\ Cells(none.h, line.orig) = Cells(h, line.orig)
    BY <1>1, <2>3, <2>7 DEF Text
  <2> QED BY <1>1, <1>3, <2>5, <2>6, <2>8 DEF Turns
<1>4. CASE ~(line.cpos < LenOf(line.s)) /\ LenOf(line.s) # 0
  <2>1. Stays
    BY <1>4 DEF Delete
  <2> QED BY <1>1, <1>4, <2>1, StaysTurns
<1> QED BY <1>2, <1>3, <1>4

LEMMA KillAfterIs ==
  ASSUME LineOK, NEW k, KillAfter(k)
  PROVE  /\ ~PastEnd => Turns(SubSeq(Text, 1, line.cpos), line.cpos)
         /\ Panics \/ \E text : Turns(text, line.cpos)
<1>1. /\ line.s \in Slices(h) /\ line.cpos \in Nat /\ h \in Seq(Runes) /\ LenOf(line.s) \in Nat
      /\ Len(Text) = LenOf(line.s) /\ CapOf(h, line.s) \in Nat /\ LenOf(line.s) <= CapOf(h, line.s)
  BY TextIs, SliceParts
<1>2. CASE line.cpos > CapOf(h, line.s)
  <2>1. PastEnd /\ Panics
    BY <1>1, <1>2 DEF PastEnd, KillAfter
  <2> QED BY <2>1
<1>3. CASE ~(line.cpos > CapOf(h, line.s))
  <2> DEFINE p == Prefix(line.s, line.cpos)  r == [h |-> h, s |-> p]
  <2>1. Becomes(r, line.cpos)
    BY <1>3 DEF KillAfter
  <2>2. line.cpos <= CapOf(h, line.s)
    BY <1>1, <1>3
  <2>3. /\ p \in Slices(h)
        /\ line.cpos <= LenOf(line.s) => Cells(h, p) = SubSeq(Text, 1, line.cpos)
    BY <1>1, <2>2, PrefixIs DEF Text
  <2> HIDE DEF p
  <2>4. Writes(h, r, line.s.array, Cells(h, p))
    BY <1>1, <2>3 DEF Writes
  <2>5. Turns(Cells(h, p), line.cpos)
    BY <1>1, <2>1, <2>4, TurnsIs
  <2>6. ~PastEnd => line.cpos <= LenOf(line.s)
    BY <1>1 DEF PastEnd
  <2> QED BY <2>3, <2>5, <2>6
<1> QED BY <1>2, <1>3

LEMMA KillBeforeIs ==
  ASSUME LineOK, NEW k, KillBefore(k)
  PROVE  /\ ~PastEnd => Turns(SubSeq(Text, line.cpos + 1, Len(Text)), 0)
         /\ PastEnd => Turns(Text, 0)
<1>1. /\ line.s \in Slices(h) /\ line.cpos \in Nat /\ h \in Seq(Runes) /\ LenOf(line.s) \in Nat
  BY TextIs
<1> DEFINE s == IF PastEnd THEN line.s ELSE Suffix(line.s, line.cpos)  r == [h |-> h, s |-> s]
           text == IF PastEnd THEN Text ELSE SubSeq(Text, line.cpos + 1, Len(Text))
<1>2. Becomes(r, 0)
  BY DEF KillBefore
<1>3. s \in Slices(h) /\ Cells(h, s) = text
  <2>1. CASE PastEnd
    BY <1>1, <2>1 DEF Text
  <2>2. CASE ~PastEnd
    <3>1. line.cpos <= LenOf(line.s)
      BY <1>1, <2>2 DEF PastEnd
    <3> QED BY <1>1, <2>2, <3>1, SuffixIs DEF Text
  <2> QED BY <2>1, <2>2
<1> HIDE DEF s, text
<1>4. Writes(h, r, line.s.array, text)
  BY <1>1, <1>3 DEF Writes
<1>5. Turns(text, 0)
  BY <1>2, <1>4, TurnsIs
<1> QED BY <1>5 DEF text

-----------------------------------------------------------------------------
(* What every key leaves *)

EditorOK ==
  /\ ed \in EditorIn(h)
  /\ ed # Closed => ed.i \in 1..Len(ed.lines) /\ ed.c <= LenOf(ed.lines[ed.i])

Sound == LineOK /\ EditorOK

LEMMA NowSound ==
  ASSUME NEW text, NEW cpos, Now(text, cpos)
  PROVE  Sound'
<1>1. h' \in Seq(Runes) /\ line' \in LineIn(h') /\ ed' = Closed
  BY DEF Now
<1>2. ed' \in EditorIn(h')
  BY <1>1, ClosedIs
<1> QED BY <1>1, <1>2 DEF Sound, LineOK, EditorOK

LEMMA LostSound ==
  ASSUME Sound, UNCHANGED <<h, line, ed>>
  PROVE  Sound'
BY DEF Sound, LineOK, EditorOK

-----------------------------------------------------------------------------
(* The options *)

LEMMA EntriesIs ==
  ASSUME NEW word
  PROVE  Entries(word) \in Seq(Option)
<1> DEFINE base == StartOf(word, Len(word), {"/"})
           name == SubSeq(word, base + 1, Len(word))
           path == SubSeq(word, 1, base)
           all  == Dirents(path)
           S    == {n \in DOMAIN all : name = <<>> \/ Contains(name, "(") \/ Within(name, all[n].text)}
<1>1. Entries(word) = Picked(all, S)
  BY DEF Entries
<1>2. all \in Seq(Option)
  <2>1. <<>> \in Seq(Option)
    OBVIOUS
  <2> HIDE DEF path
  <2> QED BY <2>1, LineInputAssumption DEF Dirents
<1>3. S \in SUBSET (DOMAIN all)
  OBVIOUS
<1> HIDE DEF all, S
<1> QED BY <1>1, <1>2, <1>3, PickedIs

LEMMA CandidatesIs ==
  ASSUME NEW word
  PROVE  Candidates(word) \in Seq(Option)
<1>1. PICK S : S \in SUBSET (DOMAIN Options) /\ Candidates(word) = Picked(Options, S) \o Entries(word)
  BY Zenon DEF Candidates
<1>2. Options \in Seq(Option)
  BY LineInputAssumption
<1>3. Picked(Options, S) \in Seq(Option)
  BY <1>1, <1>2, PickedIs
<1>4. Entries(word) \in Seq(Option)
  BY EntriesIs
<1> QED BY <1>1, <1>3, <1>4

LEMMA OfferedIs ==
  /\ Offered \in Seq(Option) /\ AtKey \in Seq(Option)
  /\ Len(Offered) \in Nat /\ Len(AtKey) \in Nat /\ Len(Offered) <= Len(AtKey)
  /\ \A k \in 1..Len(Offered) : AtKey[k] = Offered[k] /\ Offered[k] \in Option
  /\ \A k \in 1..Len(AtKey) : AtKey[k] \in Option
<1> DEFINE e == Entries(Cells(h, line.word))  o == Offered
<1>1. o \in Seq(Option) /\ e \in Seq(Option)
  BY EntriesIs, CandidatesIs DEF Offered
<1>2. AtKey = o \o e
  BY DEF AtKey
<1> HIDE DEF o, e
<1>3. /\ o \o e \in Seq(Option) /\ Len(o \o e) = Len(o) + Len(e)
      /\ \A k \in 1..Len(o) : (o \o e)[k] = o[k]
  BY <1>1
<1>4. /\ Len(o) \in Nat /\ Len(e) \in Nat /\ Len(o \o e) \in Nat
      /\ (\A k \in 1..Len(o) : o[k] \in Option) /\ (\A k \in 1..Len(o \o e) : (o \o e)[k] \in Option)
  BY <1>1, <1>3, SeqParts
<1> QED BY <1>1, <1>2, <1>3, <1>4 DEF o

-----------------------------------------------------------------------------
(* One change after the other *)

Gives(g, r, cells) ==
  /\ r.h \in Seq(Runes) /\ Slices(g) \subseteq Slices(r.h)
  /\ r.s \in Slices(r.h) /\ Cells(r.h, r.s) = cells

LEMMA WritesGives ==
  ASSUME NEW g, NEW r, NEW a, NEW cells, Writes(g, r, a, cells)
  PROVE  Gives(g, r, cells)
BY DEF Writes, Gives

LEMMA GivesGives ==
  ASSUME NEW g, NEW d, NEW r, NEW a, NEW b, Gives(g, d, a), Gives(d.h, r, b)
  PROVE  Gives(g, r, b)
BY DEF Gives

LEMMA KeepGives ==
  ASSUME LineOK, NEW r, NEW cells, Gives(h, r, cells), NEW cpos \in Nat, Keep(r.h, WithText(line, r.s, cpos))
  PROVE  Now(cells, cpos)
<1>1. line \in LineIn(r.h)
  BY LineLater DEF LineOK, Gives
<1> DEFINE l == WithText(line, r.s, cpos)
<1>2. l \in LineIn(r.h) /\ l.s = r.s /\ l.cpos = cpos
  BY <1>1, LineWith DEF Gives
<1> HIDE DEF l
<1>3. Now(Cells(r.h, l.s), l.cpos)
  BY <1>2, KeepIs DEF Gives, l
<1> QED BY <1>2, <1>3 DEF Gives

LEMMA BecomesGives ==
  ASSUME LineOK, NEW r, NEW cells, Gives(h, r, cells), NEW cpos \in Nat, Becomes(r, cpos)
  PROVE  Now(cells, cpos)
<1>1. line \in LineIn(r.h)
  BY LineLater DEF LineOK, Gives
<1> DEFINE l == WithText(line, r.s, cpos)
<1>2. l \in LineIn(r.h) /\ l.s = r.s /\ l.cpos = cpos
  BY <1>1, LineWith DEF Gives
<1>3. Keep(r.h, Look(r.h, l))
  BY DEF Becomes, WithText
<1> HIDE DEF l
<1>4. Look(r.h, l) \in LineIn(r.h) /\ Look(r.h, l).s = l.s /\ Look(r.h, l).cpos = l.cpos
  BY <1>2, LookIs DEF Gives
<1>5. Now(Cells(r.h, Look(r.h, l).s), Look(r.h, l).cpos)
  BY <1>3, <1>4, KeepIs DEF Gives
<1> QED BY <1>2, <1>4, <1>5 DEF Gives

(* A word is taken out and a text put in its place. *)
ReplacedAt(g, s, d, r, add, cells) ==
  /\ Gives(g, d, cells) /\ d.start \in Nat /\ d.start <= Len(cells)
  /\ SubSeq(cells, 1, d.start) = SubSeq(Cells(g, s), 1, d.start)
  /\ Gives(g, r, InText(cells, d.start, add))

LEMMA ReplacedIs ==
  ASSUME NEW g \in Seq(Runes), NEW s \in Slices(g), NEW pos \in Nat, NEW seps, NEW add \in Runes,
         NEW d, d = DeletedBetween(g, s, pos, seps), NEW r, r = Inserted(d.h, d.s, d.start, add)
  PROVE  \E cells \in Runes : ReplacedAt(g, s, d, r, add, cells)
<1>1. PICK cells : DeletedAt(g, d, s, cells)
  BY DeletedIs
<1>2. /\ Gives(g, d, cells) /\ d.start \in Nat /\ d.start <= Len(cells) /\ cells \in Runes
      /\ SubSeq(cells, 1, d.start) = SubSeq(Cells(g, s), 1, d.start)
  BY <1>1, WritesGives DEF DeletedAt
<1>3. d.h \in Seq(Runes) /\ d.s \in Slices(d.h) /\ Cells(d.h, d.s) = cells
  BY <1>2 DEF Gives
<1>4. d.start <= LenOf(d.s)
  BY <1>2, <1>3, CellsIs
<1>5. Writes(d.h, r, d.s.array, InText(cells, d.start, add))
  BY <1>2, <1>3, <1>4, InsertedIs
<1>6. Gives(d.h, r, InText(cells, d.start, add))
  BY <1>5, WritesGives
<1>7. Gives(g, r, InText(cells, d.start, add))
  BY <1>2, <1>6, GivesGives
<1> QED BY <1>2, <1>7 DEF ReplacedAt

LEMMA InTextIs ==
  ASSUME NEW t \in Runes, NEW at \in Nat, at <= Len(t), NEW u \in Runes
  PROVE  /\ InText(t, at, u) \in Runes /\ Len(InText(t, at, u)) = Len(t) + Len(u)
         /\ InText(t, at, u) = (SubSeq(t, 1, at) \o u) \o SubSeq(t, at + 1, Len(t))
         /\ SubSeq(t, 1, at) \o u \in Runes /\ Len(SubSeq(t, 1, at) \o u) = at + Len(u)
<1> DEFINE a == SubSeq(t, 1, at)  b == SubSeq(t, at + 1, Len(t))
<1>1. a \in Runes /\ Len(a) = at
  <2>1. 0 \in Nat /\ SubSeq(t, 1, at) = SubSeq(t, 0 + 1, at)
    OBVIOUS
  <2> QED BY <2>1, TextPart
<1>2. b \in Runes /\ Len(b) = Len(t) - at
  <2>1. Len(t) \in Nat
    BY SeqParts DEF Runes
  <2>2. b \in Runes /\ Len(b) = IF at < Len(t) THEN Len(t) - at ELSE 0
    BY ONLY t \in Runes, at \in Nat, <2>1, TextPart
  <2> QED BY ONLY <2>1, <2>2, at \in Nat, at <= Len(t)
<1> HIDE DEF a, b
<1>3. (a \o u) \o b = a \o (u \o b)
  BY <1>1, <1>2, ConcatAssociative DEF Runes
<1>4. a \o u \in Runes /\ Len(a \o u) = Len(a) + Len(u)
  BY <1>1, ConcatStart
<1>5. (a \o u) \o b \in Runes /\ Len((a \o u) \o b) = Len(a \o u) + Len(b)
  BY <1>2, <1>4, ConcatStart
<1>6. Len(t) \in Nat /\ Len(u) \in Nat
  BY SeqParts DEF Runes
<1>7. InText(t, at, u) = (a \o u) \o b
  BY <1>3 DEF InText, a, b
<1>8. Len((a \o u) \o b) = Len(t) + Len(u) /\ Len(a \o u) = at + Len(u)
  BY <1>1, <1>2, <1>4, <1>5, <1>6
<1> QED BY <1>4, <1>5, <1>7, <1>8 DEF a, b

-----------------------------------------------------------------------------
(* The space and the options *)

LEMMA OneRune ==
  ASSUME NEW r \in Rune
  PROVE  <<r>> \in Runes /\ Len(<<r>>) = 1
BY OneItem DEF Runes

LEMMA SpaceIs ==
  ASSUME Sound, NEW k, Space(k)
  PROVE  /\ Sound'
         /\ ~help.on /\ ~PastEnd => Turns(InText(Text, line.cpos, <<k.r>>), line.cpos + 1)
<1> DEFINE sp   == <<" ">>
           word == Word(h, line.s, line.cpos)
           d    == DeletedWord(h, line.s, line.cpos)
           add  == (IF LenOf(d.s) > 0 THEN sp ELSE <<>>) \o AtKey[1].text \o sp
           done == Inserted(d.h, d.s, d.start, add)
           took == help.on /\ Len(AtKey) = 1 /\ ~Contains(Cells(h, word), "(")
           r    == IF took THEN done ELSE [h |-> h, s |-> line.s]
           at   == IF took THEN LenOf(done.s) - 1 ELSE line.cpos
           new  == Inserted(r.h, r.s, at, sp)
<1>1. sp = <<k.r>> /\ sp \in Runes /\ Len(sp) = 1 /\ <<>> \in Runes
  <2>1. k.r = " "
    BY Zenon DEF Space
  <2>2. " " \in Rune
    BY LineInputAssumption
  <2>3. <<" ">> \in Runes /\ Len(<<" ">>) = 1
    BY ONLY <2>2, OneRune
  <2>4. <<>> \in Runes
    BY DEF Runes
  <2> QED BY <2>1, <2>3, <2>4
<1>2. \/ at > LenOf(r.s) /\ Panics
      \/ ~(at > LenOf(r.s)) /\ Becomes(new, at + 1)
  BY DEF Space
<1> HIDE DEF sp
<1>3. LineOK /\ line.s \in Slices(h) /\ line.cpos \in Nat /\ h \in Seq(Runes) /\ LenOf(line.s) \in Nat
  BY TextIs DEF Sound
<1>4. ~took => at = line.cpos /\ r.h = h /\ r.s = line.s
  OBVIOUS
<1>5. took => r = done /\ at = LenOf(done.s) - 1 /\ help.on /\ Len(AtKey) = 1
  OBVIOUS
<1>6. new = Inserted(r.h, r.s, at, sp) /\ done = Inserted(d.h, d.s, d.start, add)
  OBVIOUS
<1>7. Len(AtKey) = 1 => add \in Runes /\ Len(add) >= 1
  <2> SUFFICES ASSUME Len(AtKey) = 1 PROVE add \in Runes /\ Len(add) >= 1
    OBVIOUS
  <2>1. AtKey[1].text \in Runes
    <3>1. 1 \in 1..Len(AtKey)
      OBVIOUS
    <3> QED BY <3>1, OfferedIs DEF Option
  <2> DEFINE head == IF LenOf(d.s) > 0 THEN sp ELSE <<>>
  <2>2. head \in Runes
    BY <1>1
  <2> HIDE DEF head
  <2>3. head \o AtKey[1].text \in Runes /\ Len(head \o AtKey[1].text) \in Nat
    BY <2>1, <2>2, ConcatStart DEF Runes
  <2>4. (head \o AtKey[1].text) \o sp \in Runes
        /\ Len((head \o AtKey[1].text) \o sp) = Len(head \o AtKey[1].text) + 1
    BY <1>1, <2>3, ConcatStart
  <2>5. add = (head \o AtKey[1].text) \o sp
    BY DEF head
  <2> HIDE DEF add
  <2> QED BY <2>3, <2>4, <2>5
<1>8. d = DeletedBetween(h, line.s, line.cpos, Separators)
  BY DEF DeletedWord
<1> HIDE DEF word, d, add, done, took, r, at, new
<1>9. CASE Panics
  <2>1. Sound'
    BY <1>9, LostSound DEF Panics, Lost
  <2>2. fate' # "edits"
    BY <1>9 DEF Panics, Lost
  <2>3. at > LenOf(r.s)
    BY <1>2, <2>2 DEF Becomes, Keep
  <2>4. took => help.on
    BY <1>5
  <2> QED BY <1>4, <2>1, <2>3, <2>4 DEF PastEnd
<1>10. CASE took /\ Becomes(new, at + 1) /\ ~(at > LenOf(r.s))
  <2>0. PICK cells \in Runes : ReplacedAt(h, line.s, d, done, add, cells)
    BY <1>3, <1>5, <1>6, <1>7, <1>8, <1>10, ReplacedIs
  <2>1. Gives(h, done, InText(cells, d.start, add)) /\ d.start \in Nat /\ d.start <= Len(cells)
    BY <2>0 DEF ReplacedAt
  <2>2. InText(cells, d.start, add) \in Runes /\ Len(InText(cells, d.start, add)) = Len(cells) + Len(add)
    BY <1>5, <1>7, <1>10, <2>1, InTextIs
  <2>3. /\ done.h \in Seq(Runes) /\ done.s \in Slices(done.h) /\ LenOf(done.s) = Len(cells) + Len(add)
        /\ Len(cells) \in Nat /\ Len(add) \in Nat
    BY <1>5, <1>7, <1>10, <2>1, <2>2, CellsIs, SeqParts DEF Gives, Runes
  <2>4. at \in Nat /\ at <= LenOf(r.s)
    BY <1>5, <1>7, <1>10, <2>3
  <2>5. Writes(r.h, new, r.s.array, InText(Cells(r.h, r.s), at, sp))
    <3>1. r.h \in Seq(Runes) /\ r.s \in Slices(r.h)
      BY <1>5, <1>10, <2>3
    <3> QED BY ONLY <1>1, <1>6, <2>4, <3>1, InsertedIs
  <2>6. Gives(h, new, InText(Cells(r.h, r.s), at, sp))
    BY <1>5, <1>10, <2>1, <2>5, WritesGives, GivesGives
  <2>7. at + 1 \in Nat
    BY <2>4
  <2>8. \E text, cpos : Now(text, cpos)
    BY <1>3, <1>10, <2>6, <2>7, BecomesGives
  <2> QED BY <1>5, <1>10, <2>8, NowSound
<1>11. CASE ~took /\ Becomes(new, at + 1) /\ ~(at > LenOf(r.s))
  <2>1. at = line.cpos /\ at \in Nat /\ at + 1 \in Nat /\ at <= LenOf(line.s)
    BY <1>3, <1>4, <1>11
  <2>2. Writes(h, new, line.s.array, InText(Text, line.cpos, sp))
    BY <1>1, <1>3, <1>4, <1>6, <1>11, <2>1, InsertedIs DEF Text
  <2>3. Turns(InText(Text, line.cpos, sp), line.cpos + 1)
    BY <1>3, <1>11, <2>1, <2>2, TurnsIs
  <2>4. Sound'
    BY <2>3, NowSound DEF Turns
  <2> QED BY <1>1, <2>3, <2>4
<1> QED BY <1>2, <1>9, <1>10, <1>11

(* The text is where the word began, after what was before it. *)
Replaces(text) ==
  \E cells \in Runes, start \in Nat :
    /\ start <= Len(cells) /\ SubSeq(cells, 1, start) = SubSeq(Text, 1, start)
    /\ ~PastEnd => start = StartOf(Text, line.cpos, Separators)
    /\ \E cpos : Now(InText(cells, start, text), cpos)

LEMMA FrontIs ==
  ASSUME NEW t \in Runes, t # <<>>
  PROVE  Front(t) \in Runes /\ Len(Front(t)) = Len(t) - 1 /\ Front(t) = SubSeq(t, 1, Len(t) - 1)
<1>1. Len(t) \in Nat /\ Len(t) >= 1 /\ Len(t) - 1 \in Nat
  BY DEF Runes
<1>2. Front(t) = SubSeq(t, 1, Len(t) - 1)
  BY DEF Front
<1>3. t \in Seq(Rune)
  BY DEF Runes
<1>4. SubSeq(t, 1, Len(t) - 1) \in Seq(Rune) /\ Len(SubSeq(t, 1, Len(t) - 1)) = Len(t) - 1
  <2> DEFINE n == Len(t) - 1  p == SubSeq(t, 1, n)
  <2>1. n \in Nat /\ n <= Len(t) /\ 1 \in Nat
    BY <1>1
  <2> HIDE DEF n
  <2>2. p \in Seq(Rune) /\ Len(p) = IF 1 <= n THEN (n - 1) + 1 ELSE 0
    BY ONLY <1>3, <2>1, PartOf
  <2> HIDE DEF p
  <2>3. p \in Seq(Rune) /\ Len(p) = n
    BY ONLY <2>1, <2>2
  <2> QED BY <2>3 DEF n, p
<1> QED BY <1>2, <1>4 DEF Runes

LEMMA TakeIs ==
  ASSUME LineOK, NEW o \in Option, Take(o)
  PROVE  Replaces(o.text) \/ (Contains(o.text, "(") /\ Replaces(Front(o.text)))
<1> DEFINE d    == DeletedWord(h, line.s, line.cpos)
           at   == IF d.start > 0 THEN d.start ELSE 1
           left == Cells(d.h, d.s)
           dot  == at <= Len(left) /\ left[at] = "."
           text == IF Contains(o.text, "(") /\ dot THEN Front(o.text) ELSE o.text
           r    == Inserted(d.h, d.s, d.start, text)
<1>1. Keep(r.h, [line EXCEPT !.s = r.s, !.cpos = d.start + Len(text)])
  BY Zenon DEF Take
<1>2. o.text \in Runes
  BY DEF Option
<1>3. text = o.text \/ (Contains(o.text, "(") /\ text = Front(o.text))
  BY Zenon
<1>4. text \in Runes
  <2>1. CASE text = o.text
    BY <1>2, <2>1
  <2>2. CASE Contains(o.text, "(") /\ text = Front(o.text)
    <3>1. \E n \in 1..Len(o.text) : TRUE
      BY <2>2, Zenon DEF Contains
    <3>2. o.text # <<>>
      BY <3>1
    <3> HIDE DEF text
    <3>3. text = Front(o.text)
      BY <2>2, Zenon
    <3> QED BY ONLY <1>2, <3>2, <3>3, FrontIs
  <2> QED BY <1>3, <2>1, <2>2, Zenon
<1>5. d = DeletedBetween(h, line.s, line.cpos, Separators) /\ r = Inserted(d.h, d.s, d.start, text)
  BY Zenon DEF DeletedWord
<1> HIDE DEF d, at, left, dot, text, r
<1>6. line.s \in Slices(h) /\ line.cpos \in Nat /\ h \in Seq(Runes) /\ Len(text) \in Nat
  BY <1>4, TextIs, SeqParts DEF Runes
<1>12. PICK cells \in Runes : ReplacedAt(h, line.s, d, r, text, cells)
  BY ONLY <1>4, <1>5, <1>6, ReplacedIs
<1>7. /\ Gives(h, r, InText(cells, d.start, text)) /\ d.start \in Nat /\ d.start <= Len(cells)
      /\ SubSeq(cells, 1, d.start) = SubSeq(Text, 1, d.start)
  BY ONLY <1>12 DEF ReplacedAt, Text
<1>8. d.start + Len(text) \in Nat
  BY <1>6, <1>7
<1>9. Now(InText(cells, d.start, text), d.start + Len(text))
  BY ONLY LineOK, <1>1, <1>7, <1>8, KeepGives DEF WithText
<1>10. ~PastEnd => d.start = StartOf(Text, line.cpos, Separators)
  <2>1. line.cpos <= LenOf(line.s) => d.start = StartOf(Text, line.cpos, Separators)
    BY ONLY <1>5, <1>6, DeletedIs DEF Text
  <2>2. LenOf(line.s) \in Nat
    BY ONLY LineOK, TextIs
  <2> QED BY ONLY <1>6, <2>1, <2>2 DEF PastEnd
<1>11. Replaces(text)
  BY ONLY <1>7, <1>9, <1>10, Zenon DEF Replaces
<1> QED BY ONLY <1>3, <1>11, Zenon

LEMMA IntoDirectoryIs ==
  ASSUME LineOK, NEW k, IntoDirectory(k), help.star \in Int
  PROVE  /\ Replaces(Append(AtKey[help.star + 1].text, "/"))
         /\ help.star \in Nat /\ help.star + 1 \in 1..Len(AtKey)
<1> DEFINE text == Append(AtKey[help.star + 1].text, "/")
           d    == DeletedWord(h, line.s, line.cpos)
           r    == Inserted(d.h, d.s, d.start, text)
<1>1. Becomes(r, LenOf(r.s)) /\ Starred /\ help.star < Len(AtKey)
  BY Zenon DEF IntoDirectory
<1>2. help.star \in Nat /\ help.star + 1 \in 1..Len(AtKey)
  BY <1>1, OfferedIs DEF Starred
<1>3. text \in Runes
  <2> DEFINE t == AtKey[help.star + 1].text  slash == "/"
  <2>1. t \in Runes
    BY <1>2, OfferedIs DEF Option
  <2>2. slash \in Rune
    BY LineInputAssumption
  <2> HIDE DEF t, slash
  <2>3. Append(t, slash) \in Runes
    BY ONLY <2>1, <2>2 DEF Runes
  <2> QED BY <2>3, Zenon DEF t, slash
<1>4. d = DeletedBetween(h, line.s, line.cpos, Separators) /\ r = Inserted(d.h, d.s, d.start, text)
  BY Zenon DEF DeletedWord
<1> HIDE DEF d, text, r
<1>6. line.s \in Slices(h) /\ line.cpos \in Nat /\ h \in Seq(Runes)
  BY ONLY LineOK, TextIs
<1>5. PICK cells \in Runes : ReplacedAt(h, line.s, d, r, text, cells)
  BY ONLY <1>3, <1>4, <1>6, ReplacedIs
<1>7. /\ Gives(h, r, InText(cells, d.start, text)) /\ d.start \in Nat /\ d.start <= Len(cells)
      /\ SubSeq(cells, 1, d.start) = SubSeq(Text, 1, d.start)
  BY ONLY <1>5 DEF ReplacedAt, Text
<1>8. LenOf(r.s) \in Nat
  BY ONLY <1>7, SliceParts DEF Gives
<1>9. Now(InText(cells, d.start, text), LenOf(r.s))
  BY ONLY LineOK, <1>1, <1>7, <1>8, BecomesGives
<1>10. ~PastEnd => d.start = StartOf(Text, line.cpos, Separators)
  <2>1. line.cpos <= LenOf(line.s) => d.start = StartOf(Text, line.cpos, Separators)
    BY ONLY <1>4, <1>6, DeletedIs DEF Text
  <2>2. LenOf(line.s) \in Nat
    BY ONLY LineOK, TextIs
  <2> QED BY ONLY <1>6, <2>1, <2>2 DEF PastEnd
<1>11. Replaces(text)
  BY ONLY <1>7, <1>9, <1>10, Zenon DEF Replaces
<1> QED BY <1>2, <1>11, Zenon DEF text

-----------------------------------------------------------------------------
(* The history *)

(* Of a new array, whatever else there was stays. *)
LEMMA NewTextIs ==
  ASSUME NEW g \in Seq(Runes), NEW text \in Runes, NEW r, r = FromText(g, text)
  PROVE  Gives(g, r, text) /\ \A s \in Slices(g) : Cells(r.h, s) = Cells(g, s)
<1>1. Writes(g, r, 0, text)
  BY FromTextIs
<1>2. \A s \in Slices(g) : s.array # 0
  BY SliceParts
<1> QED BY <1>1, <1>2 DEF Writes, Gives

LEMMA RecallIs ==
  ASSUME LineOK, NEW l \in LineIn(h), NEW text \in Runes, Recall(text, l)
  PROVE  Now(text, Len(text)) /\ DraftIs(Cells(h, l.orig))
<1> DEFINE r == FromText(h, text)  m == WithText(l, r.s, Len(text))
<1>1. Keep(r.h, Look(r.h, m))
  BY DEF Recall, WithText
<1>2. h \in Seq(Runes)
  BY DEF LineOK
<1>3. Gives(h, r, text) /\ \A s \in Slices(h) : Cells(r.h, s) = Cells(h, s)
  BY <1>2, NewTextIs
<1>4. Len(text) \in Nat
  BY SeqParts DEF Runes
<1> HIDE DEF r
<1>5. l \in LineIn(r.h) /\ l.orig \in Slices(h)
  BY <1>3, LineLater, LineParts DEF Gives
<1>6. m \in LineIn(r.h) /\ m.s = r.s /\ m.cpos = Len(text) /\ m.orig = l.orig
  <2>1. r.s \in Slices(r.h)
    BY <1>3 DEF Gives
  <2> QED BY ONLY <1>4, <1>5, <2>1, LineWith
<1> HIDE DEF m
<1>7. Look(r.h, m) \in LineIn(r.h) /\ Look(r.h, m).s = m.s /\ Look(r.h, m).cpos = m.cpos
      /\ Look(r.h, m).orig = m.orig
  BY <1>3, <1>6, LookIs DEF Gives
<1>8. Now(Cells(r.h, Look(r.h, m).s), Look(r.h, m).cpos) /\ DraftIs(Cells(r.h, Look(r.h, m).orig))
  BY <1>1, <1>3, <1>7, KeepIs DEF Gives
<1>9. Cells(r.h, Look(r.h, m).s) = text /\ Cells(r.h, Look(r.h, m).orig) = Cells(h, l.orig)
  BY <1>3, <1>5, <1>6, <1>7 DEF Gives
<1>10. Look(r.h, m).cpos = Len(text)
  BY <1>6, <1>7
<1> QED BY ONLY <1>8, <1>9, <1>10

LEMMA DraftLine ==
  ASSUME LineOK
  PROVE  /\ Draft(line) \in LineIn(h) /\ Draft(line).s = line.s /\ Draft(line).cpos = line.cpos
         /\ nav.on => Draft(line) = line /\ Draft(line).orig = line.orig
         /\ ~nav.on => Draft(line).orig = line.s
<1>1. line \in LineIn(h)
  BY DEF LineOK
<1>2. CASE nav.on
  BY <1>1, <1>2 DEF Draft
<1>3. CASE ~nav.on
  BY <1>1, <1>3 DEF Draft, LineIn
<1> QED BY <1>2, <1>3

(* The cursor somewhere else, in the line or in the history. *)
LEMMA CursorIs ==
  ASSUME NEW g \in Seq(Runes), NEW l \in LineIn(g), NEW c \in Nat, NEW m, m = [l EXCEPT !.cpos = c],
         Keep(g, m) \/ Keep(g, Look(g, m))
  PROVE  Now(Cells(g, l.s), c) /\ DraftIs(Cells(g, l.orig))
<1>1. m \in LineIn(g) /\ m.s = l.s /\ m.cpos = c /\ m.orig = l.orig
  BY DEF LineIn
<1>2. Look(g, m) \in LineIn(g) /\ Look(g, m).s = m.s /\ Look(g, m).cpos = m.cpos /\ Look(g, m).orig = m.orig
  BY <1>1, LookIs
<1>3. CASE Keep(g, m)
  BY <1>1, <1>3, KeepIs
<1>4. CASE Keep(g, Look(g, m))
  <2>1. Now(Cells(g, Look(g, m).s), Look(g, m).cpos) /\ DraftIs(Cells(g, Look(g, m).orig))
    BY <1>2, <1>4, KeepIs
  <2> QED BY <1>1, <1>2, <2>1
<1> QED BY <1>3, <1>4

HistOK == hist \in Seq(Runes)

NavOK ==
  /\ nav \in [on : BOOLEAN, cur : Nat]
  /\ nav.on => mode = "session" /\ nav.cur \in 1..Len(hist)

LEMMA HistParts ==
  ASSUME HistOK
  PROVE  /\ Len(hist) \in Nat /\ \A n \in 1..Len(hist) : hist[n] \in Runes
         /\ hist # <<>> <=> Len(hist) > 0
BY SeqParts DEF HistOK

-----------------------------------------------------------------------------
(* What the keys mean *)

LEMMA ViewIs ==
  ASSUME NEW text, NEW cpos, NEW draft, Now(text, cpos), DraftIs(draft), hist' = hist
  PROVE  View' = [text |-> text, cpos |-> cpos, at |-> IF nav'.on THEN nav'.cur ELSE Len(hist) + 1,
                  draft |-> IF nav'.on THEN draft ELSE <<>>]
BY DEF Now, DraftIs, View, Text

Views(T) == [text : T, cpos : T, at : T, draft : T]

LEMMA ViewWith ==
  ASSUME NEW v, v = [text |-> v.text, cpos |-> v.cpos, at |-> v.at, draft |-> v.draft], NEW t, NEW c, NEW w,
         \/ w = [v EXCEPT !.text = t, !.cpos = c]
         \/ w = [v EXCEPT !.text = t] /\ c = v.cpos
         \/ w = [v EXCEPT !.cpos = c] /\ t = v.text
  PROVE  w = [text |-> t, cpos |-> c, at |-> v.at, draft |-> v.draft]
<1> DEFINE T == {v.text, v.cpos, v.at, v.draft, t, c}
<1>1. v \in Views(T) /\ t \in T /\ c \in T
  BY DEF Views
<1> HIDE DEF T
<1>2. w \in Views(T) /\ w.text = t /\ w.cpos = c /\ w.at = v.at /\ w.draft = v.draft
  <2>1. CASE w = [v EXCEPT !.text = t, !.cpos = c]
    BY ONLY <1>1, <2>1 DEF Views
  <2>2. CASE w = [v EXCEPT !.text = t] /\ c = v.cpos
    BY ONLY <1>1, <2>2 DEF Views
  <2>3. CASE w = [v EXCEPT !.cpos = c] /\ t = v.text
    BY ONLY <1>1, <2>3 DEF Views
  <2> QED BY <2>1, <2>2, <2>3
<1>3. w = [text |-> w.text, cpos |-> w.cpos, at |-> w.at, draft |-> w.draft]
  BY ONLY <1>2 DEF Views
<1> QED BY ONLY <1>2, <1>3

Viewing(text, cpos) == [text |-> text, cpos |-> cpos, at |-> View.at, draft |-> View.draft]

LEMMA ViewParts ==
  /\ View = [text |-> View.text, cpos |-> View.cpos, at |-> View.at, draft |-> View.draft]
  /\ View.text = Text /\ View.cpos = line.cpos
  /\ View.at = (IF nav.on THEN nav.cur ELSE Len(hist) + 1)
  /\ View.draft = (IF nav.on THEN Cells(h, line.orig) ELSE <<>>)
<1> DEFINE at    == IF nav.on THEN nav.cur ELSE Len(hist) + 1
           draft == IF nav.on THEN Cells(h, line.orig) ELSE <<>>
<1>1. View = [text |-> Text, cpos |-> line.cpos, at |-> at, draft |-> draft]
  BY Zenon DEF View
<1> HIDE DEF at, draft
<1>2. View.text = Text /\ View.cpos = line.cpos /\ View.at = at /\ View.draft = draft
  BY <1>1
<1> QED BY <1>1, <1>2, Zenon DEF at, draft

LEMMA ViewTurns ==
  ASSUME NEW text, NEW cpos, Turns(text, cpos), nav' = nav, hist' = hist, DraftApart
  PROVE  View' = Viewing(text, cpos)
<1> DEFINE at2    == IF nav'.on THEN nav'.cur ELSE Len(hist) + 1
           draft2 == IF nav'.on THEN View.draft ELSE <<>>
<1>1. DraftIs(View.draft)
  BY ViewParts DEF Turns, DraftApart, OrigApart, DraftIs
<1>2. at2 = View.at /\ draft2 = View.draft
  BY ViewParts
<1>3. View' = [text |-> text, cpos |-> cpos, at |-> at2, draft |-> draft2]
  BY <1>1, ViewIs DEF Turns
<1> HIDE DEF at2, draft2
<1> QED BY ONLY <1>2, <1>3 DEF Viewing

LEMMA EndsOfText ==
  ASSUME NEW t \in Runes, NEW c \in Nat, c <= Len(t)
  PROVE  /\ c > 0 <=> SubSeq(t, 1, c) # <<>>
         /\ c < Len(t) <=> SubSeq(t, c + 1, Len(t)) # <<>>
         /\ c > 0 => Front(SubSeq(t, 1, c)) \o SubSeq(t, c + 1, Len(t)) = Cut(t, c - 1, c)
         /\ c < Len(t) => SubSeq(t, 1, c) \o Tail(SubSeq(t, c + 1, Len(t))) = Cut(t, c, c + 1)
<1> DEFINE a == SubSeq(t, 1, c)  b == SubSeq(t, c + 1, Len(t))
<1>1. Len(t) \in Nat /\ t \in Seq(Rune) /\ Len(t) <= Len(t)
  BY SeqParts DEF Runes
<1>2. a \in Runes /\ Len(a) = IF 1 <= c THEN (c - 1) + 1 ELSE 0
  BY ONLY c \in Nat, 1 \in Nat, c <= Len(t), <1>1, PartOf DEF Runes
<1>3. b \in Runes /\ Len(b) = IF c < Len(t) THEN Len(t) - c ELSE 0
  BY ONLY c \in Nat, t \in Runes, <1>1, TextPart
<1>4. \A k \in 1..Len(a) : a[k] = t[k]
  <2>1. \A k \in 1..Len(a) : a[k] = t[(1 + k) - 1] /\ k \in Nat
    BY <1>1, <1>2, PartOf
  <2> QED BY ONLY <2>1
<1>5. \A k \in 1..Len(b) : b[k] = t[c + k]
  BY ONLY c \in Nat, t \in Runes, <1>1, TextPart
<1> HIDE DEF a, b
<1>6. Len(a) = c /\ Len(b) = Len(t) - c
  BY ONLY <1>1, <1>2, <1>3, c \in Nat, c <= Len(t)
<1>7. (a # <<>> <=> Len(a) > 0) /\ (b # <<>> <=> Len(b) > 0)
  BY ONLY <1>2, <1>3 DEF Runes
<1>8. ASSUME c > 0 PROVE Front(a) = SubSeq(t, 1, c - 1)
  <2> DEFINE n == c - 1  p == SubSeq(t, 1, n)  q == SubSeq(a, 1, n)
  <2>1. n \in Nat /\ n <= Len(t) /\ n <= Len(a) /\ a # <<>> /\ 1 \in Nat /\ n = Len(a) - 1
    BY ONLY <1>1, <1>6, <1>7, <1>8, c \in Nat, c <= Len(t)
  <2>2. Front(a) = q
    BY ONLY <1>2, <2>1, FrontIs
  <2> HIDE DEF n
  <2>3. /\ p \in Seq(Rune) /\ Len(p) = IF 1 <= n THEN (n - 1) + 1 ELSE 0
        /\ \A k \in 1..Len(p) : p[k] = t[(1 + k) - 1]
    BY ONLY <1>1, <2>1, PartOf
  <2>4. /\ q \in Seq(Rune) /\ Len(q) = IF 1 <= n THEN (n - 1) + 1 ELSE 0
        /\ \A k \in 1..Len(q) : q[k] = a[(1 + k) - 1]
    BY ONLY <1>2, <2>1, PartOf DEF Runes
  <2> HIDE DEF p, q
  <2>5. Len(p) = n /\ Len(q) = n
    BY ONLY <2>1, <2>3, <2>4
  <2>6. \A k \in 1..Len(p) : p[k] = q[k]
    BY ONLY <1>1, <1>4, <1>6, <2>1, <2>3, <2>4, <2>5, c \in Nat
  <2>7. p = q
    BY ONLY <2>3, <2>4, <2>5, <2>6, SeqEqual
  <2> QED BY <2>2, <2>7 DEF n, p
<1>9. ASSUME c < Len(t) PROVE Tail(b) = SubSeq(t, (c + 1) + 1, Len(t))
  <2> DEFINE n == c + 1  p == SubSeq(t, n + 1, Len(t))
  <2>1. n \in Nat /\ n <= Len(t)
    BY ONLY <1>1, <1>9, c \in Nat
  <2>2. b \in Seq(Rune) /\ b # <<>>
    BY ONLY <1>1, <1>3, <1>6, <1>7, <1>9, c \in Nat DEF Runes
  <2>3. /\ Tail(b) \in Seq(Rune) /\ Len(Tail(b)) = Len(b) - 1
        /\ \A k \in 1..Len(b) - 1 : Tail(b)[k] = b[k + 1]
    BY ONLY <2>2
  <2> HIDE DEF n
  <2>4. /\ p \in Seq(Rune) /\ Len(p) = IF n < Len(t) THEN Len(t) - n ELSE 0
        /\ \A k \in 1..Len(p) : p[k] = t[n + k]
    BY ONLY t \in Runes, <1>1, <2>1, TextPart DEF Runes
  <2> HIDE DEF p
  <2>5. Len(p) = Len(b) - 1 /\ n = c + 1
    BY ONLY <1>1, <1>6, <2>1, <2>4, c \in Nat DEF n
  <2>6. \A k \in 1..Len(p) : p[k] = Tail(b)[k]
    BY ONLY <1>1, <1>5, <1>6, <2>1, <2>3, <2>4, <2>5, c \in Nat
  <2>7. p = Tail(b)
    BY ONLY <2>3, <2>4, <2>5, <2>6, SeqEqual
  <2> QED BY <2>7 DEF n, p
<1>10. (c > 0 <=> a # <<>>) /\ (c < Len(t) <=> b # <<>>)
  BY ONLY <1>1, <1>6, <1>7, c \in Nat, c <= Len(t)
<1>11. c > 0 => Front(a) \o b = Cut(t, c - 1, c)
  BY <1>8 DEF Cut, a, b
<1>12. c < Len(t) => a \o Tail(b) = Cut(t, c, c + 1)
  BY <1>9 DEF Cut, a, b
<1> QED BY <1>10, <1>11, <1>12 DEF a, b
(* What each key means, by its name. *)
LEMMA MeansIs ==
  ASSUME LineOK, ~PastEnd, NEW k
  PROVE  /\ k.op = "type" =>
              LineMeans(View, k) = Viewing(InText(Text, line.cpos, <<k.r>>), line.cpos + Len(<<k.r>>))
         /\ k.op = "paste" =>
              LineMeans(View, k) = Viewing(InText(Text, line.cpos, k.lines[1]), line.cpos + Len(k.lines[1]))
         /\ k.op = "bs" /\ line.cpos > 0 =>
              LineMeans(View, k) = Viewing(Cut(Text, line.cpos - 1, line.cpos), line.cpos - 1)
         /\ k.op = "bs" /\ ~(line.cpos > 0) =>
              LineMeans(View, k) = Viewing(Text, line.cpos)
         /\ k.op = "del" /\ line.cpos < Len(Text) =>
              LineMeans(View, k) = Viewing(Cut(Text, line.cpos, line.cpos + 1), line.cpos)
         /\ k.op = "del" /\ ~(line.cpos < Len(Text)) =>
              LineMeans(View, k) = Viewing(Text, line.cpos)
         /\ k.op = "ctrl-k" =>
              LineMeans(View, k) = Viewing(SubSeq(Text, 1, line.cpos), line.cpos)
         /\ k.op = "ctrl-u" =>
              LineMeans(View, k) = Viewing(SubSeq(Text, line.cpos + 1, Len(Text)), 0)
         /\ k.op = "ctrl-a" =>
              LineMeans(View, k) = Viewing(Text, 0)
         /\ k.op = "ctrl-e" =>
              LineMeans(View, k) = Viewing(Text, Len(Text))
         /\ k.op = "left" /\ line.cpos > 0 =>
              LineMeans(View, k) = Viewing(Text, line.cpos - 1)
         /\ k.op = "left" /\ ~(line.cpos > 0) =>
              LineMeans(View, k) = Viewing(Text, line.cpos)
         /\ k.op = "right" /\ line.cpos < Len(Text) =>
              LineMeans(View, k) = Viewing(Text, line.cpos + 1)
         /\ k.op = "right" /\ ~(line.cpos < Len(Text)) =>
              LineMeans(View, k) = Viewing(Text, line.cpos)
         /\ k.op = "esc" =>
              LineMeans(View, k) = Viewing(Text, line.cpos)
<1> DEFINE before == SubSeq(View.text, 1, View.cpos)
           after  == SubSeq(View.text, View.cpos + 1, Len(View.text))
<1>0. /\ View = [text |-> View.text, cpos |-> View.cpos, at |-> View.at, draft |-> View.draft]
      /\ View.text = Text /\ View.cpos = line.cpos
  BY ViewParts
<1>16. Text \in Runes /\ line.cpos \in Nat /\ line.cpos <= Len(Text)
  BY TextIs
<1>17. (line.cpos > 0 <=> before # <<>>) /\ (line.cpos < Len(Text) <=> after # <<>>)
  BY <1>0, <1>16, EndsOfText
<1>20. /\ line.cpos > 0 => Front(before) \o after = Cut(Text, line.cpos - 1, line.cpos)
       /\ line.cpos < Len(Text) => before \o Tail(after) = Cut(Text, line.cpos, line.cpos + 1)
  BY <1>0, <1>16, EndsOfText
<1>18. before = SubSeq(Text, 1, line.cpos) /\ after = SubSeq(Text, line.cpos + 1, Len(Text))
  BY <1>0
<1>19. View = Viewing(Text, line.cpos)
  BY <1>0 DEF Viewing
<1>1. ASSUME k.op = "type" PROVE LineMeans(View, k) = Viewing(InText(Text, line.cpos, <<k.r>>), line.cpos + Len(<<k.r>>))
  <2> DEFINE t == InText(Text, line.cpos, <<k.r>>)  c == line.cpos + Len(<<k.r>>)
  <2>1. LineMeans(View, k) = [View EXCEPT !.text = before \o <<k.r>> \o after, !.cpos = View.cpos + Len(<<k.r>>)]
    BY <1>17, <1>1 DEF LineMeans
  <2>2. before \o <<k.r>> \o after = t /\ View.cpos + Len(<<k.r>>) = c
    BY <1>0, <1>17, <1>18, <1>1 DEF InText
  <2> HIDE DEF t, c
  <2>3. LineMeans(View, k) = [View EXCEPT !.text = t, !.cpos = c]
    BY <2>1, <2>2
  <2>4. LineMeans(View, k) = [text |-> t, cpos |-> c, at |-> View.at, draft |-> View.draft]
    BY ONLY <1>0, <2>2, <2>3, ViewWith
  <2> QED BY <2>4 DEF t, c, Viewing
<1>2. ASSUME k.op = "paste" PROVE LineMeans(View, k) = Viewing(InText(Text, line.cpos, k.lines[1]), line.cpos + Len(k.lines[1]))
  <2> DEFINE t == InText(Text, line.cpos, k.lines[1])  c == line.cpos + Len(k.lines[1])
  <2>1. LineMeans(View, k) = [View EXCEPT !.text = before \o k.lines[1] \o after, !.cpos = View.cpos + Len(k.lines[1])]
    BY <1>17, <1>2 DEF LineMeans
  <2>2. before \o k.lines[1] \o after = t /\ View.cpos + Len(k.lines[1]) = c
    BY <1>0, <1>17, <1>18, <1>2 DEF InText
  <2> HIDE DEF t, c
  <2>3. LineMeans(View, k) = [View EXCEPT !.text = t, !.cpos = c]
    BY <2>1, <2>2
  <2>4. LineMeans(View, k) = [text |-> t, cpos |-> c, at |-> View.at, draft |-> View.draft]
    BY ONLY <1>0, <2>2, <2>3, ViewWith
  <2> QED BY <2>4 DEF t, c, Viewing
<1>3. ASSUME k.op = "bs" /\ line.cpos > 0 PROVE LineMeans(View, k) = Viewing(Cut(Text, line.cpos - 1, line.cpos), line.cpos - 1)
  <2> DEFINE t == Cut(Text, line.cpos - 1, line.cpos)  c == line.cpos - 1
  <2>1. LineMeans(View, k) = [View EXCEPT !.text = Front(before) \o after, !.cpos = View.cpos - 1]
    BY <1>17, <1>3 DEF LineMeans
  <2>2. Front(before) \o after = t /\ View.cpos - 1 = c
    BY <1>0, <1>18, <1>20, <1>3
  <2> HIDE DEF t, c
  <2>3. LineMeans(View, k) = [View EXCEPT !.text = t, !.cpos = c]
    BY <2>1, <2>2
  <2>4. LineMeans(View, k) = [text |-> t, cpos |-> c, at |-> View.at, draft |-> View.draft]
    BY ONLY <1>0, <2>2, <2>3, ViewWith
  <2> QED BY <2>4 DEF t, c, Viewing
<1>4. ASSUME k.op = "bs" /\ ~(line.cpos > 0) PROVE LineMeans(View, k) = Viewing(Text, line.cpos)
  <2>1. LineMeans(View, k) = View
    BY <1>17, <1>4 DEF LineMeans
  <2> QED BY <1>19, <2>1
<1>5. ASSUME k.op = "del" /\ line.cpos < Len(Text) PROVE LineMeans(View, k) = Viewing(Cut(Text, line.cpos, line.cpos + 1), line.cpos)
  <2> DEFINE t == Cut(Text, line.cpos, line.cpos + 1)  c == line.cpos
  <2>1. LineMeans(View, k) = [View EXCEPT !.text = before \o Tail(after)]
    BY <1>17, <1>5 DEF LineMeans
  <2>2. before \o Tail(after) = t /\ c = View.cpos
    BY <1>0, <1>18, <1>20, <1>5
  <2> HIDE DEF t, c
  <2>3. LineMeans(View, k) = [View EXCEPT !.text = t]
    BY <2>1, <2>2
  <2>4. LineMeans(View, k) = [text |-> t, cpos |-> c, at |-> View.at, draft |-> View.draft]
    BY ONLY <1>0, <2>2, <2>3, ViewWith
  <2> QED BY <2>4 DEF t, c, Viewing
<1>6. ASSUME k.op = "del" /\ ~(line.cpos < Len(Text)) PROVE LineMeans(View, k) = Viewing(Text, line.cpos)
  <2>1. LineMeans(View, k) = View
    BY <1>17, <1>6 DEF LineMeans
  <2> QED BY <1>19, <2>1
<1>7. ASSUME k.op = "ctrl-k" PROVE LineMeans(View, k) = Viewing(SubSeq(Text, 1, line.cpos), line.cpos)
  <2> DEFINE t == SubSeq(Text, 1, line.cpos)  c == line.cpos
  <2>1. LineMeans(View, k) = [View EXCEPT !.text = before]
    BY <1>17, <1>7 DEF LineMeans
  <2>2. before = t /\ c = View.cpos
    BY <1>0, <1>17, <1>18, <1>7
  <2> HIDE DEF t, c
  <2>3. LineMeans(View, k) = [View EXCEPT !.text = t]
    BY <2>1, <2>2
  <2>4. LineMeans(View, k) = [text |-> t, cpos |-> c, at |-> View.at, draft |-> View.draft]
    BY ONLY <1>0, <2>2, <2>3, ViewWith
  <2> QED BY <2>4 DEF t, c, Viewing
<1>8. ASSUME k.op = "ctrl-u" PROVE LineMeans(View, k) = Viewing(SubSeq(Text, line.cpos + 1, Len(Text)), 0)
  <2> DEFINE t == SubSeq(Text, line.cpos + 1, Len(Text))  c == 0
  <2>1. LineMeans(View, k) = [View EXCEPT !.text = after, !.cpos = 0]
    BY <1>17, <1>8 DEF LineMeans
  <2>2. after = t /\ 0 = c
    BY <1>0, <1>17, <1>18, <1>8
  <2> HIDE DEF t, c
  <2>3. LineMeans(View, k) = [View EXCEPT !.text = t, !.cpos = c]
    BY <2>1, <2>2
  <2>4. LineMeans(View, k) = [text |-> t, cpos |-> c, at |-> View.at, draft |-> View.draft]
    BY ONLY <1>0, <2>2, <2>3, ViewWith
  <2> QED BY <2>4 DEF t, c, Viewing
<1>9. ASSUME k.op = "ctrl-a" PROVE LineMeans(View, k) = Viewing(Text, 0)
  <2> DEFINE t == Text  c == 0
  <2>1. LineMeans(View, k) = [View EXCEPT !.cpos = 0]
    BY <1>17, <1>9 DEF LineMeans
  <2>2. 0 = c /\ t = View.text
    BY <1>0, <1>17, <1>18, <1>9
  <2> HIDE DEF t, c
  <2>3. LineMeans(View, k) = [View EXCEPT !.cpos = c]
    BY <2>1, <2>2
  <2>4. LineMeans(View, k) = [text |-> t, cpos |-> c, at |-> View.at, draft |-> View.draft]
    BY ONLY <1>0, <2>2, <2>3, ViewWith
  <2> QED BY <2>4 DEF t, c, Viewing
<1>10. ASSUME k.op = "ctrl-e" PROVE LineMeans(View, k) = Viewing(Text, Len(Text))
  <2> DEFINE t == Text  c == Len(Text)
  <2>1. LineMeans(View, k) = [View EXCEPT !.cpos = Len(View.text)]
    BY <1>17, <1>10 DEF LineMeans
  <2>2. Len(View.text) = c /\ t = View.text
    BY <1>0, <1>17, <1>18, <1>10
  <2> HIDE DEF t, c
  <2>3. LineMeans(View, k) = [View EXCEPT !.cpos = c]
    BY <2>1, <2>2
  <2>4. LineMeans(View, k) = [text |-> t, cpos |-> c, at |-> View.at, draft |-> View.draft]
    BY ONLY <1>0, <2>2, <2>3, ViewWith
  <2> QED BY <2>4 DEF t, c, Viewing
<1>11. ASSUME k.op = "left" /\ line.cpos > 0 PROVE LineMeans(View, k) = Viewing(Text, line.cpos - 1)
  <2> DEFINE t == Text  c == line.cpos - 1
  <2>1. LineMeans(View, k) = [View EXCEPT !.cpos = View.cpos - 1]
    BY <1>17, <1>11 DEF LineMeans
  <2>2. View.cpos - 1 = c /\ t = View.text
    BY <1>0, <1>17, <1>18, <1>11
  <2> HIDE DEF t, c
  <2>3. LineMeans(View, k) = [View EXCEPT !.cpos = c]
    BY <2>1, <2>2
  <2>4. LineMeans(View, k) = [text |-> t, cpos |-> c, at |-> View.at, draft |-> View.draft]
    BY ONLY <1>0, <2>2, <2>3, ViewWith
  <2> QED BY <2>4 DEF t, c, Viewing
<1>12. ASSUME k.op = "left" /\ ~(line.cpos > 0) PROVE LineMeans(View, k) = Viewing(Text, line.cpos)
  <2>1. LineMeans(View, k) = View
    BY <1>17, <1>12 DEF LineMeans
  <2> QED BY <1>19, <2>1
<1>13. ASSUME k.op = "right" /\ line.cpos < Len(Text) PROVE LineMeans(View, k) = Viewing(Text, line.cpos + 1)
  <2> DEFINE t == Text  c == line.cpos + 1
  <2>1. LineMeans(View, k) = [View EXCEPT !.cpos = View.cpos + 1]
    BY <1>17, <1>13 DEF LineMeans
  <2>2. View.cpos + 1 = c /\ t = View.text
    BY <1>0, <1>17, <1>18, <1>13
  <2> HIDE DEF t, c
  <2>3. LineMeans(View, k) = [View EXCEPT !.cpos = c]
    BY <2>1, <2>2
  <2>4. LineMeans(View, k) = [text |-> t, cpos |-> c, at |-> View.at, draft |-> View.draft]
    BY ONLY <1>0, <2>2, <2>3, ViewWith
  <2> QED BY <2>4 DEF t, c, Viewing
<1>14. ASSUME k.op = "right" /\ ~(line.cpos < Len(Text)) PROVE LineMeans(View, k) = Viewing(Text, line.cpos)
  <2>1. LineMeans(View, k) = View
    BY <1>17, <1>14 DEF LineMeans
  <2> QED BY <1>19, <2>1
<1>15. ASSUME k.op = "esc" PROVE LineMeans(View, k) = Viewing(Text, line.cpos)
  <2>1. LineMeans(View, k) = View
    BY <1>17, <1>15 DEF LineMeans
  <2> QED BY <1>19, <2>1
<1> QED BY <1>1, <1>2, <1>3, <1>4, <1>5, <1>6, <1>7, <1>8, <1>9, <1>10, <1>11, <1>12, <1>13, <1>14, <1>15

LEMMA ViewKeeps ==
  ASSUME NEW text, NEW cpos, Now(text, cpos), DraftIs(Cells(h, line.orig)), nav' = nav, hist' = hist
  PROVE  View' = Viewing(text, cpos)
<1> DEFINE at2    == IF nav'.on THEN nav'.cur ELSE Len(hist) + 1
           draft2 == IF nav'.on THEN View.draft ELSE <<>>
<1>1. DraftIs(View.draft)
  BY ViewParts DEF DraftIs
<1>2. at2 = View.at /\ draft2 = View.draft
  BY ViewParts
<1>3. View' = [text |-> text, cpos |-> cpos, at |-> at2, draft |-> draft2]
  BY <1>1, ViewIs
<1> HIDE DEF at2, draft2
<1> QED BY ONLY <1>2, <1>3 DEF Viewing

LEMMA ViewShows ==
  ASSUME NEW text, NEW draft, NEW at, Now(text, Len(text)), DraftIs(draft), hist' = hist,
         nav'.on => nav'.cur = at,
         ~nav'.on => at = Len(hist) + 1 /\ draft = <<>>
  PROVE  View' = Shows(View, text, at, draft)
<1> DEFINE at2    == IF nav'.on THEN nav'.cur ELSE Len(hist) + 1
           draft2 == IF nav'.on THEN draft ELSE <<>>
<1>1. at2 = at /\ draft2 = draft
  OBVIOUS
<1>2. View' = [text |-> text, cpos |-> Len(text), at |-> at2, draft |-> draft2]
  BY ViewIs
<1> HIDE DEF at2, draft2
<1> QED BY ONLY <1>1, <1>2 DEF Shows

(* What UP and DOWN mean. *)
LEMMA HistoryMeans ==
  ASSUME LineOK, HistOK, NavOK, MW \in Nat, NEW k
  PROVE  /\ k.op = "up" /\ Wraps(Text) /\ line.cpos > MW => LineMeans(View, k) = Viewing(Text, line.cpos - MW)
         /\ k.op = "down" /\ Wraps(Text) /\ line.cpos < MW => LineMeans(View, k) = Viewing(Text, line.cpos + MW)
         /\ k.op = "up" /\ ~(Wraps(Text) /\ line.cpos > MW) /\ HasHist /\ View.at > 1 =>
              LineMeans(View, k) = Shows(View, hist[View.at - 1], View.at - 1,
                                         IF nav.on THEN View.draft ELSE Text)
         /\ k.op = "up" /\ ~(Wraps(Text) /\ line.cpos > MW) /\ HasHist /\ View.at = 1 /\ hist # <<>> =>
              LineMeans(View, k) = Viewing(Text, Len(Text))
         /\ k.op = "up" /\ ~(Wraps(Text) /\ line.cpos > MW) /\ (~HasHist \/ hist = <<>>) =>
              LineMeans(View, k) = Viewing(Text, line.cpos)
         /\ k.op = "down" /\ ~(Wraps(Text) /\ line.cpos < MW) /\ nav.on /\ nav.cur < Len(hist) =>
              LineMeans(View, k) = Shows(View, hist[nav.cur + 1], nav.cur + 1, View.draft)
         /\ k.op = "down" /\ ~(Wraps(Text) /\ line.cpos < MW) /\ nav.on /\ ~(nav.cur < Len(hist)) =>
              LineMeans(View, k) = Shows(View, View.draft, Len(hist) + 1, <<>>)
         /\ k.op = "down" /\ ~(Wraps(Text) /\ line.cpos < MW) /\ ~nav.on =>
              LineMeans(View, k) = Viewing(Text, line.cpos)
<1>1. /\ View = [text |-> View.text, cpos |-> View.cpos, at |-> View.at, draft |-> View.draft]
      /\ View.text = Text /\ View.cpos = line.cpos
  BY ViewParts
<1>2. View = Viewing(Text, line.cpos)
  BY <1>1 DEF Viewing
<1>3. /\ Len(hist) \in Nat /\ (hist = <<>> <=> Len(hist) = 0)
      /\ nav.on => View.at = nav.cur /\ nav.cur \in Nat /\ nav.cur >= 1 /\ nav.cur <= Len(hist) /\ HasHist
      /\ ~nav.on => View.at = Len(hist) + 1
  BY ViewParts, HistParts DEF NavOK, HasHist
<1>4. (View.at > Len(hist) <=> ~nav.on) /\ View.at \in Nat
  BY ONLY <1>3
<1>5. ASSUME k.op = "up" /\ Wraps(Text) /\ line.cpos > MW PROVE LineMeans(View, k) = Viewing(Text, line.cpos - MW)
  <2>1. LineMeans(View, k) = [View EXCEPT !.cpos = line.cpos - MW]
    BY <1>1, <1>5 DEF LineMeans
  <2> QED BY ONLY <1>1, <2>1, ViewWith, Zenon DEF Viewing
<1>6. ASSUME k.op = "down" /\ Wraps(Text) /\ line.cpos < MW PROVE LineMeans(View, k) = Viewing(Text, line.cpos + MW)
  <2>1. LineMeans(View, k) = [View EXCEPT !.cpos = line.cpos + MW]
    BY <1>1, <1>6 DEF LineMeans
  <2> QED BY ONLY <1>1, <2>1, ViewWith, Zenon DEF Viewing
<1>7. ASSUME k.op = "up", ~(Wraps(Text) /\ line.cpos > MW), HasHist, View.at > 1
      PROVE  LineMeans(View, k) = Shows(View, hist[View.at - 1], View.at - 1, IF nav.on THEN View.draft ELSE Text)
  <2>1. LineMeans(View, k) = Shows(View, hist[View.at - 1], View.at - 1,
                                   IF View.at > Len(hist) THEN View.text ELSE View.draft)
    BY <1>1, <1>7 DEF LineMeans
  <2>2. (IF View.at > Len(hist) THEN View.text ELSE View.draft) = IF nav.on THEN View.draft ELSE Text
    BY <1>1, <1>4
  <2> QED BY <2>1, <2>2, Zenon
<1>8. ASSUME k.op = "up", ~(Wraps(Text) /\ line.cpos > MW), HasHist, View.at = 1, hist # <<>>
      PROVE  LineMeans(View, k) = Viewing(Text, Len(Text))
  <2>1. LineMeans(View, k) = [View EXCEPT !.cpos = Len(Text)]
    BY <1>1, <1>8 DEF LineMeans
  <2> QED BY ONLY <1>1, <2>1, ViewWith, Zenon DEF Viewing
<1>9. ASSUME k.op = "up", ~(Wraps(Text) /\ line.cpos > MW), ~HasHist \/ hist = <<>>
      PROVE  LineMeans(View, k) = Viewing(Text, line.cpos)
  <2>1. ~(HasHist /\ View.at > 1) /\ ~(HasHist /\ View.at = 1 /\ hist # <<>>)
    BY <1>3, <1>9
  <2>2. LineMeans(View, k) = View
    BY <1>1, <1>9, <2>1 DEF LineMeans
  <2> QED BY <1>2, <2>2
<1>10. ASSUME k.op = "down", ~(Wraps(Text) /\ line.cpos < MW), nav.on, nav.cur < Len(hist)
       PROVE  LineMeans(View, k) = Shows(View, hist[nav.cur + 1], nav.cur + 1, View.draft)
  BY <1>1, <1>3, <1>10 DEF LineMeans
<1>11. ASSUME k.op = "down", ~(Wraps(Text) /\ line.cpos < MW), nav.on, ~(nav.cur < Len(hist))
       PROVE  LineMeans(View, k) = Shows(View, View.draft, Len(hist) + 1, <<>>)
  <2>1. View.at = Len(hist) /\ ~(View.at < Len(hist))
    BY <1>3, <1>11
  <2> QED BY <1>1, <1>11, <2>1 DEF LineMeans
<1>12. ASSUME k.op = "down", ~(Wraps(Text) /\ line.cpos < MW), ~nav.on
       PROVE  LineMeans(View, k) = Viewing(Text, line.cpos)
  <2>1. ~(View.at < Len(hist)) /\ View.at # Len(hist)
    BY <1>3, <1>12
  <2>2. LineMeans(View, k) = View
    BY <1>1, <1>12, <2>1 DEF LineMeans
  <2> QED BY <1>2, <2>2
<1> QED BY <1>5, <1>6, <1>7, <1>8, <1>9, <1>10, <1>11, <1>12

LEMMA UpIs ==
  ASSUME LineOK, HistOK, NavOK, NEW k, Up(k), hist' = hist, mode' = mode
  PROVE  Sound' /\ NavOK' /\ View' = LineMeans(View, k)
<1> DEFINE cur == IF nav.on THEN nav.cur ELSE Len(hist) + 1
           l   == Draft(line)
<1>1. /\ LineOK /\ line \in LineIn(h) /\ h \in Seq(Runes) /\ line.cpos \in Nat /\ LenOf(line.s) \in Nat
      /\ Len(Text) = LenOf(line.s) /\ Text \in Runes /\ MW \in Nat
  BY TextIs, LineInputAssumption DEF LineOK
<1>2. /\ l \in LineIn(h) /\ l.s = line.s /\ l.cpos = line.cpos
      /\ nav.on => l.orig = line.orig
      /\ ~nav.on => l.orig = line.s
  BY DraftLine
<1>3. /\ Len(hist) \in Nat /\ (hist = <<>> <=> Len(hist) = 0) /\ \A n \in 1..Len(hist) : hist[n] \in Runes
      /\ nav.on => HasHist /\ nav.cur \in Nat /\ nav.cur >= 1 /\ nav.cur <= Len(hist)
  BY HistParts DEF NavOK, HasHist
<1>4. cur \in Nat /\ cur >= 1 /\ cur <= Len(hist) + 1 /\ cur = View.at /\ k.op = "up"
      /\ (~nav.on => cur = Len(hist) + 1)
  BY <1>3, ViewParts DEF Up
<1>5. \/ (LenOf(line.s) > MW /\ line.cpos > MW) /\ nav' = nav /\ Keep(h, [line EXCEPT !.cpos = line.cpos - MW])
      \/ /\ ~(LenOf(line.s) > MW /\ line.cpos > MW)
         /\ \/ (~HasHist \/ hist = <<>>) /\ nav' = nav /\ Stays
            \/ HasHist /\ hist # <<>> /\ cur > 1 /\ nav' = [on |-> TRUE, cur |-> cur - 1] /\ Recall(hist[cur - 1], l)
            \/ HasHist /\ hist # <<>> /\ ~(cur > 1) /\ nav' = [on |-> TRUE, cur |-> cur]
               /\ Keep(h, Look(h, [l EXCEPT !.cpos = LenOf(line.s)]))
  BY DEF Up
<1>6. Wraps(Text) <=> LenOf(line.s) > MW
  BY <1>1 DEF Wraps
<1> HIDE DEF cur, l
<1>7. CASE (LenOf(line.s) > MW /\ line.cpos > MW) /\ nav' = nav /\ Keep(h, [line EXCEPT !.cpos = line.cpos - MW])
  <2>1. line.cpos - MW \in Nat
    BY <1>1, <1>7
  <2>2. Now(Text, line.cpos - MW) /\ DraftIs(Cells(h, line.orig))
    BY <1>1, <1>7, <2>1, CursorIs DEF Text
  <2>3. View' = Viewing(Text, line.cpos - MW)
    BY <1>7, <2>2, ViewKeeps
  <2>4. View' = LineMeans(View, k)
    BY <1>1, <1>4, <1>6, <1>7, <2>3, HistoryMeans
  <2> QED BY <1>7, <2>2, <2>4, NowSound DEF NavOK
<1>8. CASE ~(LenOf(line.s) > MW /\ line.cpos > MW) /\ (~HasHist \/ hist = <<>>) /\ nav' = nav /\ Stays
  <2>1. Now(Text, line.cpos) /\ DraftIs(Cells(h, line.orig))
    BY <1>8, StaysIs
  <2>2. View' = Viewing(Text, line.cpos)
    BY <1>8, <2>1, ViewKeeps
  <2>3. View' = LineMeans(View, k)
    BY <1>1, <1>4, <1>6, <1>8, <2>2, HistoryMeans
  <2> QED BY <1>8, <2>1, <2>3, NowSound DEF NavOK
<1>9. CASE /\ ~(LenOf(line.s) > MW /\ line.cpos > MW)
           /\ HasHist /\ hist # <<>> /\ cur > 1 /\ nav' = [on |-> TRUE, cur |-> cur - 1] /\ Recall(hist[cur - 1], l)
  <2> DEFINE text == hist[cur - 1]
             draft == IF nav.on THEN View.draft ELSE Text
  <2>1. cur - 1 \in 1..Len(hist) /\ nav'.on = TRUE /\ nav'.cur = cur - 1
    BY <1>3, <1>4, <1>9
  <2>2. text \in Runes
    BY <1>3, <2>1
  <2>3. Cells(h, l.orig) = draft
    BY <1>2, ViewParts DEF Text
  <2>4. LineMeans(View, k) = Shows(View, text, cur - 1, draft)
    BY <1>1, <1>4, <1>6, <1>9, HistoryMeans
  <2> HIDE DEF text, draft
  <2>5. Now(text, Len(text)) /\ DraftIs(draft)
    BY <1>1, <1>2, <1>9, <2>2, <2>3, RecallIs DEF text
  <2>6. View' = Shows(View, text, cur - 1, draft)
    BY <2>1, <2>5, ViewShows
  <2>7. NavOK'
    <3>1. nav' \in [on : BOOLEAN, cur : Nat]
      BY <1>9, <2>1
    <3> QED BY <1>9, <2>1, <3>1 DEF NavOK, HasHist
  <2> QED BY <2>4, <2>5, <2>6, <2>7, NowSound
<1>10. CASE /\ ~(LenOf(line.s) > MW /\ line.cpos > MW)
            /\ HasHist /\ hist # <<>> /\ ~(cur > 1) /\ nav' = [on |-> TRUE, cur |-> cur]
            /\ Keep(h, Look(h, [l EXCEPT !.cpos = LenOf(line.s)]))
  <2>1. nav.on /\ cur = 1 /\ 1 \in 1..Len(hist)
    BY <1>3, <1>4, <1>10
  <2>2. nav.cur = 1
    BY <2>1 DEF cur
  <2>3. nav \in [on : BOOLEAN, cur : Nat] /\ nav.on = TRUE
    BY <2>1 DEF NavOK
  <2>4. nav' = nav
    BY <1>10, <2>1, <2>2, <2>3
  <2>5. Now(Text, Len(Text)) /\ DraftIs(Cells(h, line.orig))
    BY <1>1, <1>2, <1>10, <2>1, CursorIs DEF Text
  <2>6. View' = Viewing(Text, Len(Text))
    BY <2>4, <2>5, ViewKeeps
  <2>7. View' = LineMeans(View, k)
    BY <1>1, <1>4, <1>6, <1>10, <2>1, <2>6, HistoryMeans
  <2> QED BY <2>4, <2>5, <2>7, NowSound DEF NavOK
<1> QED BY <1>5, <1>7, <1>8, <1>9, <1>10

LEMMA DownIs ==
  ASSUME LineOK, HistOK, NavOK, NEW k, Down(k), hist' = hist, mode' = mode
  PROVE  Sound' /\ NavOK' /\ View' = LineMeans(View, k)
<1>1. /\ LineOK /\ line \in LineIn(h) /\ h \in Seq(Runes) /\ line.cpos \in Nat /\ LenOf(line.s) \in Nat
      /\ Len(Text) = LenOf(line.s) /\ Text \in Runes /\ MW \in Nat
  BY TextIs, LineInputAssumption DEF LineOK
<1>2. /\ Len(hist) \in Nat /\ \A n \in 1..Len(hist) : hist[n] \in Runes
      /\ nav \in [on : BOOLEAN, cur : Nat]
      /\ nav.on => HasHist /\ nav.cur \in Nat /\ nav.cur >= 1 /\ nav.cur <= Len(hist)
  BY HistParts DEF NavOK, HasHist
<1>3. k.op = "down"
  BY DEF Down
<1>4. \/ (LenOf(line.s) > MW /\ line.cpos < MW) /\ nav' = nav /\ Keep(h, [line EXCEPT !.cpos = line.cpos + MW])
      \/ /\ ~(LenOf(line.s) > MW /\ line.cpos < MW)
         /\ \/ (~HasHist \/ ~nav.on) /\ nav' = nav /\ Stays
            \/ HasHist /\ nav.on /\ nav.cur < Len(hist) /\ nav' = [nav EXCEPT !.cur = nav.cur + 1]
               /\ Recall(hist[nav.cur + 1], line)
            \/ HasHist /\ nav.on /\ ~(nav.cur < Len(hist)) /\ nav' = NoNav
               /\ Keep(h, Look(h, [line EXCEPT !.s = line.orig, !.cpos = LenOf(line.orig)]))
  BY DEF Down
<1>5. Wraps(Text) <=> LenOf(line.s) > MW
  BY <1>1 DEF Wraps
<1>6. CASE (LenOf(line.s) > MW /\ line.cpos < MW) /\ nav' = nav /\ Keep(h, [line EXCEPT !.cpos = line.cpos + MW])
  <2>1. line.cpos + MW \in Nat
    BY <1>1, <1>6
  <2>2. Now(Text, line.cpos + MW) /\ DraftIs(Cells(h, line.orig))
    BY <1>1, <1>6, <2>1, CursorIs DEF Text
  <2>3. View' = Viewing(Text, line.cpos + MW)
    BY <1>6, <2>2, ViewKeeps
  <2>4. View' = LineMeans(View, k)
    BY <1>1, <1>3, <1>5, <1>6, <2>3, HistoryMeans
  <2> QED BY <1>6, <2>2, <2>4, NowSound DEF NavOK
<1>7. CASE ~(LenOf(line.s) > MW /\ line.cpos < MW) /\ (~HasHist \/ ~nav.on) /\ nav' = nav /\ Stays
  <2>1. Now(Text, line.cpos) /\ DraftIs(Cells(h, line.orig))
    BY <1>7, StaysIs
  <2>2. View' = Viewing(Text, line.cpos)
    BY <1>7, <2>1, ViewKeeps
  <2>3. ~nav.on
    BY <1>2, <1>7
  <2>4. View' = LineMeans(View, k)
    BY <1>1, <1>3, <1>5, <1>7, <2>2, <2>3, HistoryMeans
  <2> QED BY <1>7, <2>1, <2>4, NowSound DEF NavOK
<1>8. CASE /\ ~(LenOf(line.s) > MW /\ line.cpos < MW)
           /\ HasHist /\ nav.on /\ nav.cur < Len(hist) /\ nav' = [nav EXCEPT !.cur = nav.cur + 1]
           /\ Recall(hist[nav.cur + 1], line)
  <2> DEFINE text == hist[nav.cur + 1]
  <2>1. nav.cur + 1 \in 1..Len(hist) /\ nav'.on = nav.on /\ nav'.cur = nav.cur + 1
        /\ nav' \in [on : BOOLEAN, cur : Nat]
    <3>1. nav.cur + 1 \in 1..Len(hist) /\ nav.cur + 1 \in Nat
      BY ONLY <1>2, <1>8
    <3>2. nav \in [on : BOOLEAN, cur : Nat] /\ nav' = [nav EXCEPT !.cur = nav.cur + 1]
      BY ONLY <1>2, <1>8
    <3> QED BY ONLY <3>1, <3>2
  <2>2. text \in Runes
    BY <1>2, <2>1
  <2>3. Cells(h, line.orig) = View.draft
    BY <1>8, ViewParts
  <2>4. LineMeans(View, k) = Shows(View, text, nav.cur + 1, View.draft)
    BY <1>1, <1>3, <1>5, <1>8, HistoryMeans
  <2> HIDE DEF text
  <2>5. Now(text, Len(text)) /\ DraftIs(View.draft)
    BY <1>1, <1>8, <2>2, <2>3, RecallIs DEF text
  <2>6. View' = Shows(View, text, nav.cur + 1, View.draft)
    BY <1>8, <2>1, <2>5, ViewShows
  <2>7. NavOK'
    BY <1>8, <2>1 DEF NavOK, HasHist
  <2> QED BY <2>4, <2>5, <2>6, <2>7, NowSound
<1>9. CASE /\ ~(LenOf(line.s) > MW /\ line.cpos < MW)
           /\ HasHist /\ nav.on /\ ~(nav.cur < Len(hist)) /\ nav' = NoNav
           /\ Keep(h, Look(h, [line EXCEPT !.s = line.orig, !.cpos = LenOf(line.orig)]))
  <2> DEFINE m == WithText(line, line.orig, LenOf(line.orig))  text == Cells(h, line.orig)
  <2>1. line.orig \in Slices(h) /\ LenOf(line.orig) \in Nat /\ Len(text) = LenOf(line.orig)
    BY <1>1, LineParts, CellsIs
  <2>2. m \in LineIn(h) /\ m.s = line.orig /\ m.cpos = LenOf(line.orig)
    <3> DEFINE o == line.orig  n == LenOf(line.orig)
    <3>1. line \in LineIn(h) /\ o \in Slices(h) /\ n \in Nat /\ m = WithText(line, o, n)
      BY <1>1, <2>1
    <3> HIDE DEF m, o, n
    <3>2. WithText(line, o, n) \in LineIn(h) /\ WithText(line, o, n).s = o /\ WithText(line, o, n).cpos = n
      BY ONLY <3>1, LineWith
    <3> QED BY ONLY <3>1, <3>2 DEF o, n
  <2>3. Keep(h, Look(h, m))
    BY <1>9 DEF WithText
  <2> HIDE DEF m
  <2>4. Look(h, m) \in LineIn(h) /\ Look(h, m).s = m.s /\ Look(h, m).cpos = m.cpos
    BY <1>1, <2>2, LookIs
  <2>5. Now(Cells(h, Look(h, m).s), Look(h, m).cpos)
    BY <1>1, <2>3, <2>4, KeepIs
  <2>6. Now(text, Len(text))
    BY <2>1, <2>2, <2>4, <2>5
  <2>7. text = View.draft
    BY <1>9, ViewParts
  <2> HIDE DEF text
  <2>8. nav'.on = FALSE /\ nav' \in [on : BOOLEAN, cur : Nat]
    BY <1>9 DEF NoNav
  <2>9. DraftIs(<<>>)
    BY <2>8 DEF DraftIs
  <2>10. View' = Shows(View, text, Len(hist) + 1, <<>>)
    BY <2>6, <2>8, <2>9, ViewShows
  <2>11. View' = LineMeans(View, k)
    BY <1>1, <1>3, <1>5, <1>9, <2>7, <2>10, HistoryMeans
  <2>12. NavOK'
    BY <2>8 DEF NavOK
  <2> QED BY <2>6, <2>11, <2>12, NowSound
<1> QED BY <1>4, <1>6, <1>7, <1>8, <1>9

-----------------------------------------------------------------------------
(* The other keys of the line *)

LEMMA TurnsSound ==
  ASSUME NEW text, NEW cpos, Turns(text, cpos)
  PROVE  Sound' /\ fate' = "edits"
<1>1. Now(text, cpos)
  BY DEF Turns
<1>2. fate' = "edits"
  BY <1>1 DEF Now
<1> QED BY <1>1, <1>2, NowSound

LEMMA KeepText ==
  ASSUME LineOK, NEW s \in Slices(h), NEW c \in Nat, Keep(h, WithText(line, s, c))
  PROVE  Now(Cells(h, s), c)
<1> DEFINE r == [h |-> h, s |-> s]
<1>1. r.h = h /\ r.s = s /\ h \in Seq(Runes)
  BY DEF LineOK
<1> HIDE DEF r
<1>2. Gives(h, r, Cells(h, s))
  BY <1>1 DEF Gives
<1> QED BY <1>1, <1>2, KeepGives

LEMMA EndsSound ==
  ASSUME LineOK, NEW l \in LineIn(h), Ends(h, l, Closed)
  PROVE  Sound'
<1>1. h \in Seq(Runes)
  BY DEF LineOK
<1>2. Closed \in EditorIn(h) /\ Closed.lines = <<>>
  BY ClosedIs
<1>3. h' \in Seq(Runes) /\ ed' = Closed /\ SameLine(h, l, h', line', nav'.on \/ search'.on)
  BY <1>1, <1>2, EndsIs
<1>4. line' \in LineIn(h') /\ ed' \in EditorIn(h')
  BY <1>3, ClosedIs DEF SameLine
<1> QED BY <1>3, <1>4 DEF Sound, LineOK, EditorOK

LEMMA ReturnsSound ==
  ASSUME LineOK, NEW how, Returns(how)
  PROVE  Sound'
<1> DEFINE l == IF LenOf(line.s) = 0 THEN [line EXCEPT !.s = line.default] ELSE line
<1>1. Ends(h, l, Closed)
  BY DEF Returns
<1>2. l \in LineIn(h)
  BY DEF LineOK, LineIn
<1> HIDE DEF l
<1> QED BY <1>1, <1>2, EndsSound

LEMMA CursorKeys ==
  ASSUME LineOK, NEW k
  PROVE  /\ Escape(k) => Turns(Text, line.cpos)
         /\ Home(k) => Turns(Text, 0)
         /\ End(k) => Turns(Text, Len(Text))
         /\ Left(k) => Turns(Text, IF ~help.on /\ line.cpos > 0 THEN line.cpos - 1 ELSE
                                   IF help.on THEN line.cpos ELSE 0)
         /\ Right(k) => Turns(Text, IF ~help.on /\ line.cpos < Len(Text) THEN line.cpos + 1 ELSE line.cpos)
         /\ Suspend(k) => Turns(Text, line.cpos)
<1>1. line.cpos \in Nat /\ LenOf(line.s) \in Nat /\ Len(Text) = LenOf(line.s)
  BY TextIs
<1>2. Escape(k) => Turns(Text, line.cpos)
  BY <1>1, MovesTurns DEF Escape
<1>3. Home(k) => Turns(Text, 0)
  BY <1>1, MovesTurns DEF Home
<1>4. End(k) => Turns(Text, Len(Text))
  BY <1>1, MovesTurns DEF End
<1>5. ASSUME Left(k)
      PROVE  Turns(Text, IF ~help.on /\ line.cpos > 0 THEN line.cpos - 1 ELSE IF help.on THEN line.cpos ELSE 0)
  <2>1. CASE help.on
    <3>1. Stays
      BY <1>5, <2>1 DEF Left
    <3> QED BY <2>1, <3>1, StaysTurns
  <2>2. CASE ~help.on
    <3> DEFINE c == IF line.cpos > 0 THEN line.cpos - 1 ELSE 0
    <3>1. Moves(c) /\ c \in Nat
      BY <1>1, <1>5, <2>2 DEF Left
    <3>2. c = IF ~help.on /\ line.cpos > 0 THEN line.cpos - 1 ELSE IF help.on THEN line.cpos ELSE 0
      BY <2>2
    <3> HIDE DEF c
    <3>3. Turns(Text, c)
      BY <3>1, MovesTurns
    <3> QED BY <3>2, <3>3
  <2> QED BY <2>1, <2>2
<1>6. ASSUME Right(k)
      PROVE  Turns(Text, IF ~help.on /\ line.cpos < Len(Text) THEN line.cpos + 1 ELSE line.cpos)
  <2>1. CASE help.on
    <3>1. Stays
      BY <1>6, <2>1 DEF Right
    <3> QED BY <2>1, <3>1, StaysTurns
  <2>2. CASE ~help.on
    <3> DEFINE c == IF line.cpos < LenOf(line.s) THEN line.cpos + 1 ELSE line.cpos
    <3>1. Moves(c) /\ c \in Nat
      BY <1>1, <1>6, <2>2 DEF Right
    <3>2. c = IF ~help.on /\ line.cpos < Len(Text) THEN line.cpos + 1 ELSE line.cpos
      BY <1>1, <2>2
    <3> HIDE DEF c
    <3>3. Turns(Text, c)
      BY <3>1, MovesTurns
    <3> QED BY <3>2, <3>3
  <2> QED BY <2>1, <2>2
<1>7. Suspend(k) => Turns(Text, line.cpos)
  BY StaysTurns DEF Suspend
<1> QED BY <1>2, <1>3, <1>4, <1>5, <1>6, <1>7

(* The keys that insert what was read. *)
LEMMA FastIs ==
  ASSUME LineOK, NEW k, Fast(k), k.r \in Rune
  PROVE  Panics \/ \E text, cpos : Now(text, cpos)
<1> DEFINE once == Inserted(h, line.s, line.cpos, <<k.r>>)  next == line.cpos + 1
           twice == Inserted(once.h, once.s, next, <<k.r>>)  cpos == line.cpos + 2
           a == InText(Text, line.cpos, <<k.r>>)  b == InText(a, next, <<k.r>>)
<1>1. SUFFICES ASSUME ~Panics PROVE \E text, c : Now(text, c)
  OBVIOUS
<1>2. ~PastEnd /\ Becomes(twice, cpos)
  BY <1>1, Zenon DEF Fast
<1>3. /\ Text \in Runes /\ Len(Text) = LenOf(line.s) /\ Len(Text) \in Nat /\ line.s \in Slices(h)
      /\ line.cpos \in Nat /\ h \in Seq(Runes) /\ line.cpos <= Len(Text)
  BY <1>2, TextIs
<1>4. <<k.r>> \in Runes /\ Len(<<k.r>>) = 1
  BY OneRune
<1>5. Writes(h, once, line.s.array, a)
  BY ONLY <1>3, <1>4, InsertedIs DEF Text
<1>6. a \in Runes /\ Len(a) = Len(Text) + 1
  BY <1>3, <1>4, InTextIs
<1>7. next \in Nat /\ cpos \in Nat /\ next <= Len(a)
  BY <1>3, <1>6
<1> HIDE DEF once, a, next, cpos
<1>8. once.h \in Seq(Runes) /\ once.s \in Slices(once.h) /\ Cells(once.h, once.s) = a
  BY <1>5 DEF Writes
<1>9. LenOf(once.s) = Len(a)
  BY <1>8, CellsIs
<1>10. Writes(once.h, twice, once.s.array, b)
  BY <1>4, <1>7, <1>8, <1>9, InsertedIs
<1> HIDE DEF twice, b
<1>11. Gives(h, twice, b)
  BY <1>5, <1>10, WritesGives, GivesGives
<1> QED BY <1>2, <1>7, <1>11, BecomesGives

LEMMA ReadKeys ==
  ASSUME LineOK, NEW k \in Keys
  PROVE  /\ Type(k) \/ Paste(k) => Panics \/ \E text, cpos : Turns(text, cpos)
         /\ Fast(k) => Panics \/ \E text, cpos : Now(text, cpos)
         /\ Type(k) /\ ~PastEnd => Turns(InText(Text, line.cpos, <<k.r>>), line.cpos + Len(<<k.r>>))
         /\ Paste(k) /\ ~PastEnd /\ Single(k) /\ k.op = "paste" =>
              Turns(InText(Text, line.cpos, k.lines[1]), line.cpos + Len(k.lines[1]))
<1>1. /\ k.op \in {"type", "fast"} => k.r \in Rune
      /\ k.op = "paste" => k.lines \in Seq(Runes) /\ Len(k.lines) \in 1..2
  BY Zenon, LineInputAssumption
<1>2. ASSUME Type(k)
      PROVE  /\ Panics \/ \E text, cpos : Turns(text, cpos)
             /\ ~PastEnd => Turns(InText(Text, line.cpos, <<k.r>>), line.cpos + Len(<<k.r>>))
  <2>1. k.op = "type" /\ Insert(<<k.r>>)
    BY <1>2, Zenon DEF Type
  <2>2. <<k.r>> \in Runes
    BY <1>1, <2>1, OneRune
  <2> QED BY <2>1, <2>2, InsertIs
<1>3. ASSUME Fast(k) PROVE Panics \/ \E text, cpos : Now(text, cpos)
  <2>1. k.op = "fast"
    BY <1>3, Zenon DEF Fast
  <2> QED BY <1>1, <1>3, <2>1, FastIs
<1>4. ASSUME Paste(k)
      PROVE  /\ Panics \/ \E text, cpos : Turns(text, cpos)
             /\ ~PastEnd /\ Single(k) => Turns(InText(Text, line.cpos, k.lines[1]), line.cpos + Len(k.lines[1]))
  <2>1. k.op = "paste"
    BY <1>4 DEF Paste
  <2>2. k.lines[1] \in Runes
    BY <1>1, <2>1
  <2>3. CASE Len(k.lines) > 1 /\ k.ends = "crlf"
    <3>1. Panics
      BY <1>4, <2>3 DEF Paste
    <3>2. ~Single(k)
      <4> DEFINE n == Len(k.lines)
      <4>1. n > 1 /\ n \in 1..2
        BY <1>1, <2>1, <2>3
      <4> HIDE DEF n
      <4>2. n # 1
        BY ONLY <4>1
      <4> QED BY <2>1, <4>2, Zenon DEF Single, n
    <3> QED BY <3>1, <3>2
  <2>4. CASE ~(Len(k.lines) > 1 /\ k.ends = "crlf")
    <3>1. Insert(k.lines[1])
      BY <1>4, <2>4 DEF Paste
    <3> QED BY <2>2, <3>1, InsertIs
  <2> QED BY <2>3, <2>4
<1> QED BY <1>2, <1>3, <1>4

(* The keys that the options and the default answer come with. *)
LEMMA ChoosingKeys ==
  ASSUME LineOK, help \in [on : BOOLEAN, star : Int, max : Int], NEW k
  PROVE  /\ Tab(k) => \E text, cpos : Now(text, cpos)
         /\ IntoDirectory(k) => \E text, cpos : Now(text, cpos)
         /\ TakeOption(k) => Panics \/ \E text, cpos : Now(text, cpos)
         /\ Choose(k) => Panics \/ \E text, cpos : Now(text, cpos)
<1>1. /\ line \in LineIn(h) /\ h \in Seq(Runes) /\ line.cpos \in Nat /\ LenOf(line.s) \in Nat
      /\ line.s \in Slices(h)
  BY TextIs DEF LineOK
<1>2. ASSUME Tab(k) PROVE \E text, cpos : Now(text, cpos)
  <2>1. CASE Stays
    BY <2>1, StaysIs
  <2>2. CASE Keep(h, WithText(line, line.default, LenOf(line.default)))
    <3>1. line.default \in Slices(h) /\ LenOf(line.default) \in Nat
      BY <1>1, LineParts, SliceParts
    <3> QED BY <2>2, <3>1, KeepText
  <2> QED BY <1>2, <2>1, <2>2 DEF Tab, WithText
<1>3. ASSUME IntoDirectory(k) PROVE \E text, cpos : Now(text, cpos)
  <2>1. Replaces(Append(AtKey[help.star + 1].text, "/"))
    BY <1>3, IntoDirectoryIs
  <2> QED BY ONLY <2>1, Zenon DEF Replaces
<1>4. ASSUME TakeOption(k) PROVE Panics \/ \E text, cpos : Now(text, cpos)
  <2>1. CASE Stays
    BY <2>1, StaysIs
  <2>2. CASE Panics
    BY <2>2
  <2>3. CASE \E o \in Option : Take(o)
    <3>1. PICK o \in Option : Take(o)
      BY <2>3
    <3>2. Replaces(o.text) \/ Replaces(Front(o.text))
      BY <3>1, TakeIs, Zenon
    <3> QED BY ONLY <3>2, Zenon DEF Replaces
  <2>4. \/ Stays \/ Panics
        \/ \E o \in Option : Take(o)
    <3> DEFINE n == IF help.star > -1 THEN help.star + 1 ELSE 1
    <3>1. \/ Stays \/ Panics
          \/ /\ ~(Offered = <<>> \/ (help.star = -1 /\ Len(Offered) > 1)) /\ ~(help.star >= Len(Offered))
             /\ Take(Offered[n])
      BY <1>4 DEF TakeOption
    <3>2. ~(Offered = <<>>) => Len(Offered) > 0
      BY OfferedIs
    <3>3. ~(Offered = <<>>) /\ ~(help.star >= Len(Offered)) => n \in 1..Len(Offered)
      BY <3>2, OfferedIs
    <3> HIDE DEF n
    <3>4. ~(Offered = <<>>) /\ ~(help.star >= Len(Offered)) => Offered[n] \in Option
      BY <3>3, OfferedIs
    <3> QED BY <3>1, <3>4
  <2> QED BY <2>1, <2>2, <2>3, <2>4
<1>5. ASSUME Choose(k) PROVE Panics \/ \E text, cpos : Now(text, cpos)
  <2>1. CASE Stays
    BY <2>1, StaysIs
  <2>2. ASSUME NEW o \in BoxOptions, IF PastEnd THEN Panics
                                     ELSE Becomes(Inserted(h, line.s, line.cpos, o), line.cpos + Len(o))
        PROVE  Panics \/ \E text, cpos : Now(text, cpos)
    <3>1. CASE PastEnd
      BY <2>2, <3>1
    <3>2. CASE ~PastEnd
      <4> DEFINE r == Inserted(h, line.s, line.cpos, o)
      <4>1. o \in Runes
        <5>1. BoxOptions \subseteq Runes
          BY Zenon, LineInputAssumption
        <5> QED BY <5>1
      <4>2. line.cpos <= LenOf(line.s) /\ Len(o) \in Nat
        BY <1>1, <3>2, <4>1, SeqParts DEF PastEnd, Runes
      <4>3. Writes(h, r, line.s.array, InText(Text, line.cpos, o))
        BY <1>1, <4>1, <4>2, InsertedIs DEF Text
      <4>4. Becomes(r, line.cpos + Len(o)) /\ line.cpos + Len(o) \in Nat
        BY <1>1, <2>2, <3>2, <4>2
      <4> HIDE DEF r
      <4>5. Turns(InText(Text, line.cpos, o), line.cpos + Len(o))
        BY <4>3, <4>4, TurnsIs
      <4> QED BY <4>5, Zenon DEF Turns
    <3> QED BY <3>1, <3>2
  <2> QED BY <1>5, <2>1, <2>2 DEF Choose
<1> QED BY <1>2, <1>3, <1>4, <1>5

-----------------------------------------------------------------------------
(* Every key of the line means what it says *)

HelpOK == help \in [on : BOOLEAN, star : Int, max : Int]

LEMMA PlainKeys ==
  ASSUME Plain, NEW k, Press(k)
  PROVE  /\ mode' = mode
         /\ \/ UNCHANGED <<nav, hist, search>> /\ (Paste(k) \/ Break(k) \/ Suspend(k) \/ LineKey(k))
            \/ UNCHANGED <<nav, search>> /\ Enter(k)
            \/ UNCHANGED <<nav, hist>> /\ BeginSearch(k)
            \/ UNCHANGED <<hist, search>> /\ (Up(k) \/ Down(k) \/ Choose(k))
BY DEF Plain, Press, LineKey

LEMMA OtherKeys ==
  ASSUME NEW k, k.op \in EditOps
  PROVE  /\ ~Break(k) /\ ~Suspend(k) /\ ~Fast(k) /\ ~Garbled(k) /\ ~Tab(k) /\ ~IntoDirectory(k)
         /\ ~TakeOption(k) /\ ~OpenEditor(k) /\ ~Enter(k) /\ ~BeginSearch(k)
BY DEF EditOps, Break, Suspend, Fast, Garbled, Tab, IntoDirectory, TakeOption, OpenEditor, Enter, BeginSearch

LEMMA MeantIs ==
  ASSUME Sound, HistOK, NavOK, Plain, ~help.on, ~PastEnd, DraftApart, mode # "box",
         NEW k \in Keys, Press(k), k.op \in EditOps, Single(k)
  PROVE  fate' = "edits" /\ View' = LineMeans(View, k)
<1>1. LineOK /\ line.cpos \in Nat /\ Len(Text) \in Nat /\ line.cpos <= Len(Text)
  BY TextIs DEF Sound
<1>2. ASSUME NEW text, NEW cpos, Turns(text, cpos), UNCHANGED <<nav, hist, search>>,
             LineMeans(View, k) = Viewing(text, cpos)
      PROVE  fate' = "edits" /\ View' = LineMeans(View, k)
  <2>1. View' = Viewing(text, cpos)
    BY <1>2, ViewTurns
  <2> QED BY <1>2, <2>1, TurnsSound
<1>3. CASE UNCHANGED <<nav, hist, search>> /\ Paste(k)
  <2>1. k.op = "paste"
    BY <1>3 DEF Paste
  <2>2. Turns(InText(Text, line.cpos, k.lines[1]), line.cpos + Len(k.lines[1]))
    BY <1>1, <1>3, <2>1, ReadKeys
  <2>3. LineMeans(View, k) = Viewing(InText(Text, line.cpos, k.lines[1]), line.cpos + Len(k.lines[1]))
    BY <1>1, <2>1, MeansIs
  <2> QED BY ONLY <1>2, <1>3, <2>2, <2>3
<1>4. CASE UNCHANGED <<nav, hist, search>> /\ Type(k)
  <2>1. k.op = "type"
    BY <1>4, Zenon DEF Type
  <2>2. Turns(InText(Text, line.cpos, <<k.r>>), line.cpos + Len(<<k.r>>))
    BY <1>1, <1>4, ReadKeys
  <2>3. LineMeans(View, k) = Viewing(InText(Text, line.cpos, <<k.r>>), line.cpos + Len(<<k.r>>))
    BY <1>1, <2>1, MeansIs
  <2> QED BY ONLY <1>2, <1>4, <2>2, <2>3
<1>5. CASE UNCHANGED <<nav, hist, search>> /\ Space(k)
  <2>1. k.op = "type"
    BY <1>5, Zenon DEF Space
  <2>2. Turns(InText(Text, line.cpos, <<k.r>>), line.cpos + 1)
    BY <1>5, SpaceIs
  <2>3. LineMeans(View, k) = Viewing(InText(Text, line.cpos, <<k.r>>), line.cpos + Len(<<k.r>>))
    BY <1>1, <2>1, MeansIs
  <2>4. Len(<<k.r>>) = 1
    OBVIOUS
  <2> QED BY ONLY <1>2, <1>5, <2>2, <2>3, <2>4
<1>6. CASE UNCHANGED <<nav, hist, search>> /\ Backspace(k)
  <2>1. k.op = "bs"
    BY <1>6 DEF Backspace
  <2>2. CASE line.cpos > 0
    <3>1. Turns(Cut(Text, line.cpos - 1, line.cpos), line.cpos - 1)
      BY <1>1, <1>6, <2>2, BackspaceIs
    <3>2. LineMeans(View, k) = Viewing(Cut(Text, line.cpos - 1, line.cpos), line.cpos - 1)
      BY <1>1, <2>1, <2>2, MeansIs
    <3> QED BY ONLY <1>2, <1>6, <3>1, <3>2
  <2>3. CASE ~(line.cpos > 0)
    <3>1. Turns(Text, line.cpos)
      BY <1>1, <1>6, <2>3, BackspaceIs
    <3>2. LineMeans(View, k) = Viewing(Text, line.cpos)
      BY <1>1, <2>1, <2>3, MeansIs
    <3> QED BY ONLY <1>2, <1>6, <3>1, <3>2
  <2> QED BY <2>2, <2>3
<1>7. CASE UNCHANGED <<nav, hist, search>> /\ Delete(k)
  <2>1. k.op = "del"
    BY <1>7 DEF Delete
  <2>2. CASE line.cpos < Len(Text)
    <3>1. Turns(Cut(Text, line.cpos, line.cpos + 1), line.cpos)
      BY <1>1, <1>7, <2>2, DeleteIs
    <3>2. LineMeans(View, k) = Viewing(Cut(Text, line.cpos, line.cpos + 1), line.cpos)
      BY <1>1, <2>1, <2>2, MeansIs
    <3> QED BY ONLY <1>2, <1>7, <3>1, <3>2
  <2>3. CASE ~(line.cpos < Len(Text))
    <3>1. Turns(Text, line.cpos)
      BY <1>1, <1>7, <2>3, DeleteIs
    <3>2. LineMeans(View, k) = Viewing(Text, line.cpos)
      BY <1>1, <2>1, <2>3, MeansIs
    <3> QED BY ONLY <1>2, <1>7, <3>1, <3>2
  <2> QED BY <2>2, <2>3
<1>8. CASE UNCHANGED <<nav, hist, search>> /\ KillAfter(k)
  <2>1. k.op = "ctrl-k"
    BY <1>8 DEF KillAfter
  <2>2. Turns(SubSeq(Text, 1, line.cpos), line.cpos)
    BY <1>1, <1>8, KillAfterIs
  <2>3. LineMeans(View, k) = Viewing(SubSeq(Text, 1, line.cpos), line.cpos)
    BY <1>1, <2>1, MeansIs
  <2> QED BY ONLY <1>2, <1>8, <2>2, <2>3
<1>9. CASE UNCHANGED <<nav, hist, search>> /\ KillBefore(k)
  <2>1. k.op = "ctrl-u"
    BY <1>9 DEF KillBefore
  <2>2. Turns(SubSeq(Text, line.cpos + 1, Len(Text)), 0)
    BY <1>1, <1>9, KillBeforeIs
  <2>3. LineMeans(View, k) = Viewing(SubSeq(Text, line.cpos + 1, Len(Text)), 0)
    BY <1>1, <2>1, MeansIs
  <2> QED BY ONLY <1>2, <1>9, <2>2, <2>3
<1>10. CASE UNCHANGED <<nav, hist, search>> /\ Home(k)
  <2>1. k.op = "ctrl-a"
    BY <1>10 DEF Home
  <2>2. Turns(Text, 0)
    BY <1>1, <1>10, CursorKeys
  <2>3. LineMeans(View, k) = Viewing(Text, 0)
    BY <1>1, <2>1, MeansIs
  <2> QED BY ONLY <1>2, <1>10, <2>2, <2>3
<1>11. CASE UNCHANGED <<nav, hist, search>> /\ End(k)
  <2>1. k.op = "ctrl-e"
    BY <1>11 DEF End
  <2>2. Turns(Text, Len(Text))
    BY <1>1, <1>11, CursorKeys
  <2>3. LineMeans(View, k) = Viewing(Text, Len(Text))
    BY <1>1, <2>1, MeansIs
  <2> QED BY ONLY <1>2, <1>11, <2>2, <2>3
<1>12. CASE UNCHANGED <<nav, hist, search>> /\ Left(k)
  <2>1. k.op = "left"
    BY <1>12 DEF Left
  <2>2. CASE line.cpos > 0
    <3>1. Turns(Text, line.cpos - 1)
      BY <1>1, <1>12, <2>2, CursorKeys
    <3>2. LineMeans(View, k) = Viewing(Text, line.cpos - 1)
      BY <1>1, <2>1, <2>2, MeansIs
    <3> QED BY ONLY <1>2, <1>12, <3>1, <3>2
  <2>3. CASE ~(line.cpos > 0)
    <3>1. Turns(Text, line.cpos)
      BY <1>1, <1>12, <2>3, CursorKeys
    <3>2. LineMeans(View, k) = Viewing(Text, line.cpos)
      BY <1>1, <2>1, <2>3, MeansIs
    <3> QED BY ONLY <1>2, <1>12, <3>1, <3>2
  <2> QED BY <2>2, <2>3
<1>13. CASE UNCHANGED <<nav, hist, search>> /\ Right(k)
  <2>1. k.op = "right"
    BY <1>13 DEF Right
  <2>2. CASE line.cpos < Len(Text)
    <3>1. Turns(Text, line.cpos + 1)
      BY <1>1, <1>13, <2>2, CursorKeys
    <3>2. LineMeans(View, k) = Viewing(Text, line.cpos + 1)
      BY <1>1, <2>1, <2>2, MeansIs
    <3> QED BY ONLY <1>2, <1>13, <3>1, <3>2
  <2>3. CASE ~(line.cpos < Len(Text))
    <3>1. Turns(Text, line.cpos)
      BY <1>1, <1>13, <2>3, CursorKeys
    <3>2. LineMeans(View, k) = Viewing(Text, line.cpos)
      BY <1>1, <2>1, <2>3, MeansIs
    <3> QED BY ONLY <1>2, <1>13, <3>1, <3>2
  <2> QED BY <2>2, <2>3
<1>14. CASE UNCHANGED <<nav, hist, search>> /\ Escape(k)
  <2>1. k.op = "esc"
    BY <1>14 DEF Escape
  <2>2. Turns(Text, line.cpos)
    BY <1>1, <1>14, CursorKeys
  <2>3. LineMeans(View, k) = Viewing(Text, line.cpos)
    BY <1>1, <2>1, MeansIs
  <2> QED BY ONLY <1>2, <1>14, <2>2, <2>3
<1>15. CASE UNCHANGED <<hist, search>> /\ Up(k)
  <2>1. mode' = mode
    BY PlainKeys
  <2>2. View' = LineMeans(View, k)
    BY <1>1, <1>15, <2>1, UpIs
  <2>3. fate' = "edits"
    BY <1>15 DEF Up, Keep, Stays, Recall
  <2> QED BY <2>2, <2>3
<1>16. CASE UNCHANGED <<hist, search>> /\ Down(k)
  <2>1. mode' = mode
    BY PlainKeys
  <2>2. View' = LineMeans(View, k)
    BY <1>1, <1>16, <2>1, DownIs
  <2>3. fate' = "edits"
    BY <1>16 DEF Down, Keep, Stays, Recall
  <2> QED BY <2>2, <2>3
<1>17. ~Choose(k)
  BY DEF Choose
<1> QED BY <1>3, <1>4, <1>5, <1>6, <1>7, <1>8, <1>9, <1>10, <1>11, <1>12, <1>13, <1>14, <1>15, <1>16, <1>17,
            PlainKeys, OtherKeys DEF LineKey

-----------------------------------------------------------------------------
(* The search *)

ResultsIn(lines, buffer) ==
  IF buffer = <<>> THEN <<>> ELSE Reverse(InOrder({n \in DOMAIN lines : Within(buffer, lines[n])}))

SearchOK ==
  /\ search \in [on : BOOLEAN, buffer : Runes, pick : Nat]
  /\ search.on => search.pick = 0 \/ search.pick < Len(ResultsIn(hist, search.buffer))

LEMMA SeqOfMore ==
  ASSUME NEW T, NEW U, T \subseteq U, NEW s \in Seq(T)
  PROVE  s \in Seq(U)
<1>1. Len(s) \in Nat /\ DOMAIN s = 1..Len(s) /\ \A k \in 1..Len(s) : s[k] \in T
  BY SeqParts
<1>2. s = [k \in 1..Len(s) |-> s[k]]
  BY <1>1
<1>3. s \in [1..Len(s) -> U]
  BY <1>1, <1>2
<1> QED BY <1>1, <1>3, SeqIs

LEMMA ResultsAre ==
  ASSUME HistOK, NEW buffer
  PROVE  ResultsIn(hist, buffer) \in Seq(1..Len(hist)) /\ Len(ResultsIn(hist, buffer)) \in Nat
<1> DEFINE S == {n \in DOMAIN hist : Within(buffer, hist[n])}
<1>1. Len(hist) \in Nat /\ DOMAIN hist = 1..Len(hist)
  BY SeqParts DEF HistOK
<1>2. S \in SUBSET (0..Len(hist)) /\ S \subseteq 1..Len(hist)
  BY <1>1
<1>3. ResultsIn(hist, buffer) = IF buffer = <<>> THEN <<>> ELSE Reverse(InOrder(S))
  BY DEF ResultsIn
<1> HIDE DEF S
<1>4. InOrder(S) \in Seq(S)
  BY <1>1, <1>2, InOrderIs
<1>5. Reverse(InOrder(S)) \in Seq(S)
  BY <1>4, ReverseIs
<1>6. Reverse(InOrder(S)) \in Seq(1..Len(hist))
  BY ONLY <1>2, <1>5, SeqOfMore
<1>7. ResultsIn(hist, buffer) \in Seq(1..Len(hist))
  <2>1. <<>> \in Seq(1..Len(hist))
    OBVIOUS
  <2> QED BY ONLY <1>3, <1>6, <2>1
<1> QED BY <1>7, SeqParts

LEMMA SearchSound ==
  ASSUME Sound, HistOK, SearchOK, search.on, NEW k \in Keys, SearchKey(k)
  PROVE  Sound' /\ SearchOK'
<1>1. LineOK /\ h \in Seq(Runes) /\ nav' = nav /\ hist' = hist
  BY DEF Sound, LineOK, SearchKey
<1>2. /\ search \in [on : BOOLEAN, buffer : Runes, pick : Nat] /\ Found \in Seq(1..Len(hist)) /\ Len(Found) \in Nat
      /\ search.pick = 0 \/ search.pick < Len(Found)
  <2>1. Found = ResultsIn(hist, search.buffer)
    BY DEF Found, Results, ResultsIn
  <2> QED BY <2>1, ResultsAre DEF SearchOK
<1>3. /\ Len(hist) \in Nat /\ \A n \in 1..Len(hist) : hist[n] \in Runes
  BY HistParts
<1>4. Found = ResultsIn(hist, search.buffer)
  BY DEF Found, Results, ResultsIn
<1>5. ASSUME search' \in [on : BOOLEAN, buffer : Runes, pick : Nat], search'.pick = 0
      PROVE  SearchOK'
  BY <1>5 DEF SearchOK
<1>6. ASSUME Stays PROVE Sound'
  BY <1>1, <1>6, StaysIs, NowSound
<1>7. <<>> \in Runes
  BY DEF Runes
<1>8. CASE SearchAccept(k)
  <2>1. search' = NoSearch
    BY <1>8 DEF SearchAccept
  <2>2. SearchOK'
    BY <1>5, <1>7, <2>1 DEF NoSearch
  <2>3. CASE Found = <<>>
    <3>1. Stays
      BY <1>8, <2>3 DEF SearchAccept
    <3> QED BY <1>6, <2>2, <3>1
  <2>4. CASE Found # <<>>
    <3> DEFINE t == hist[Found[search.pick + 1]]  r == FromText(h, t)  n == LenOf(r.s)
    <3>1. Keep(r.h, WithText(line, r.s, n))
      BY <1>8, <2>4 DEF SearchAccept, WithText
    <3>2. search.pick + 1 \in 1..Len(Found)
      <4>1. Len(Found) > 0
        BY <1>2, <2>4
      <4>2. search.pick \in Nat
        BY <1>2
      <4> QED BY ONLY <1>2, <4>1, <4>2
    <3>3. Found[search.pick + 1] \in 1..Len(hist)
      BY <1>2, <3>2
    <3>4. t \in Runes
      BY <1>3, <3>3
    <3> HIDE DEF t
    <3>5. Gives(h, r, t)
      BY <1>1, <3>4, NewTextIs
    <3> HIDE DEF r
    <3>6. n \in Nat
      BY <3>5, SliceParts DEF Gives
    <3> HIDE DEF n
    <3>7. Now(t, n)
      BY <1>1, <3>1, <3>5, <3>6, KeepGives
    <3> QED BY <2>2, <3>7, NowSound
  <2> QED BY <2>2, <2>3, <2>4
<1>9. CASE SearchCancel(k)
  <2> DEFINE o == line.orig  n == LenOf(line.orig)
  <2>1. search' = NoSearch /\ Keep(h, WithText(line, o, n))
    BY <1>9 DEF SearchCancel, WithText
  <2>2. SearchOK'
    BY <1>5, <1>7, <2>1 DEF NoSearch
  <2>3. o \in Slices(h) /\ n \in Nat
    BY <1>1, LineParts, SliceParts DEF LineOK
  <2> HIDE DEF o, n
  <2>4. Now(Cells(h, o), n)
    BY <1>1, <2>1, <2>3, KeepText
  <2> QED BY <2>2, <2>4, NowSound
<1>10. CASE SearchType(k)
  <2>1. /\ search' = [search EXCEPT !.buffer = Append(search.buffer, k.r), !.pick = 0] /\ Stays /\ k.op = "type"
    BY <1>10 DEF SearchType
  <2>2. Append(search.buffer, k.r) \in Runes
    <3>1. k.r \in Rune
      BY <2>1, Zenon, LineInputAssumption
    <3> QED BY <1>2, <3>1 DEF Runes
  <2>3. search' \in [on : BOOLEAN, buffer : Runes, pick : Nat] /\ search'.pick = 0
    BY <1>2, <2>1, <2>2
  <2> QED BY <1>5, <1>6, <2>1, <2>3
<1>11. CASE SearchBackspace(k)
  <2>1. Stays
    BY <1>11 DEF SearchBackspace
  <2>2. CASE search.buffer = <<>>
    <3>1. search' = search
      BY <1>11, <2>2 DEF SearchBackspace
    <3> QED BY <1>1, <1>4, <1>6, <2>1, <3>1 DEF SearchOK
  <2>3. CASE search.buffer # <<>>
    <3>1. search' = [search EXCEPT !.buffer = Front(search.buffer), !.pick = 0]
      BY <1>11, <2>3 DEF SearchBackspace
    <3>2. Front(search.buffer) \in Runes
      BY <1>2, <2>3, FrontIs
    <3>3. search' \in [on : BOOLEAN, buffer : Runes, pick : Nat] /\ search'.pick = 0
      BY <1>2, <3>1, <3>2
    <3> QED BY <1>5, <1>6, <2>1, <3>3
  <2> QED BY <2>2, <2>3
<1>12. CASE SearchClear(k)
  <2>1. search' = [NoSearch EXCEPT !.on = TRUE] /\ Stays
    BY <1>12 DEF SearchClear
  <2>2. search' \in [on : BOOLEAN, buffer : Runes, pick : Nat] /\ search'.pick = 0
    BY <1>7, <2>1 DEF NoSearch
  <2> QED BY <1>5, <1>6, <2>1, <2>2
<1>13. CASE SearchStep(k)
  <2> DEFINE n == Len(Found)  p == search.pick  q == IF k.op = "up" THEN (p + 1) % n ELSE (p - 1 + n) % n
  <2>1. Stays /\ search' = IF n = 0 THEN search ELSE [search EXCEPT !.pick = q]
    BY <1>13 DEF SearchStep
  <2>2. CASE n = 0
    BY <1>1, <1>4, <1>6, <2>1, <2>2 DEF SearchOK
  <2>3. CASE n # 0
    <3>1. n \in Nat /\ p \in Nat /\ p < n
      BY <1>2, <2>3
    <3>2. q \in Nat /\ q < n
      <4>1. \A a \in Int : a % n \in Nat /\ a % n < n
        <5> HIDE DEF n
        <5> QED BY ONLY <2>3, <3>1
      <4>2. p + 1 \in Int /\ (p - 1) + n \in Int
        BY ONLY <3>1
      <4> HIDE DEF n, p
      <4> QED BY ONLY <4>1, <4>2
    <3> HIDE DEF q
    <3>3. search' \in [on : BOOLEAN, buffer : Runes, pick : Nat] /\ search'.pick = q
          /\ search'.buffer = search.buffer
      BY <1>2, <2>1, <2>3, <3>2
    <3>4. q < Len(ResultsIn(hist', search'.buffer))
      BY <1>1, <1>4, <3>2, <3>3
    <3> QED BY <1>6, <2>1, <3>3, <3>4 DEF SearchOK
  <2> QED BY <2>2, <2>3
<1>14. CASE SearchOther(k)
  <2>1. search' = search /\ UNCHANGED <<h, line, ed>>
    BY <1>14 DEF SearchOther, Lost
  <2> QED BY <1>1, <1>4, <2>1, LostSound DEF SearchOK
<1> QED BY <1>8, <1>9, <1>10, <1>11, <1>12, <1>13, <1>14 DEF SearchKey

-----------------------------------------------------------------------------
(* The editor is opened *)

EditorAt(g, e) ==
  /\ g \in Seq(Runes) /\ e \in EditorIn(g)
  /\ e.i \in 1..Len(e.lines) /\ e.c <= LenOf(e.lines[e.i])

LEMMA EditorParts ==
  ASSUME NEW g, NEW e, EditorAt(g, e)
  PROVE  /\ g \in Seq(Runes) /\ e \in EditorIn(g) /\ e.lines \in Seq(Slices(g)) /\ Len(e.lines) \in Nat
         /\ e.i \in 1..Len(e.lines) /\ e.i \in Nat /\ e.c \in Nat /\ e.height \in Int /\ e.filter \in Filters
         /\ \A n \in 1..Len(e.lines) : e.lines[n] \in Slices(g)
         /\ This(e) = e.lines[e.i] /\ This(e) \in Slices(g) /\ LenOf(This(e)) \in Nat /\ e.c <= LenOf(This(e))
<1>1. /\ g \in Seq(Runes) /\ e \in EditorIn(g) /\ e.lines \in Seq(Slices(g))
      /\ e.i \in 1..Len(e.lines) /\ e.c \in Nat /\ e.height \in Int /\ e.filter \in Filters
      /\ e.c <= LenOf(e.lines[e.i]) /\ e.i \in Nat
  BY DEF EditorAt, EditorIn
<1>2. Len(e.lines) \in Nat /\ \A n \in 1..Len(e.lines) : e.lines[n] \in Slices(g)
  BY <1>1, SeqParts
<1>3. e.lines[e.i] \in Slices(g) /\ LenOf(e.lines[e.i]) \in Nat
  BY <1>1, <1>2, SliceParts
<1> QED BY <1>1, <1>2, <1>3 DEF This

LEMMA EditSound ==
  ASSUME NEW g, NEW e, EditorAt(g, e), NEW l \in LineIn(g), Ends(g, l, e)
  PROVE  Sound' /\ SameEditor(g, e, h', ed')
<1>1. /\ g \in Seq(Runes) /\ e \in EditorIn(g) /\ e.i \in 1..Len(e.lines) /\ e.c <= LenOf(e.lines[e.i])
      /\ e.lines[e.i] \in Slices(g)
  BY EditorParts DEF EditorAt
<1>2. h' \in Seq(Runes) /\ SameEditor(g, e, h', ed') /\ SameLine(g, l, h', line', nav'.on \/ search'.on)
  BY <1>1, EndsIs
<1>3. /\ line' \in LineIn(h') /\ ed' \in EditorIn(h') /\ ed'.i = e.i /\ ed'.c = e.c
      /\ Len(ed'.lines) = Len(e.lines) /\ Cells(h', ed'.lines[e.i]) = Cells(g, e.lines[e.i])
  BY <1>1, <1>2 DEF SameLine, SameEditor
<1>4. ed'.lines[e.i] \in Slices(h')
  <2>1. ed'.lines \in Seq(Slices(h'))
    BY <1>3 DEF EditorIn
  <2> QED BY <1>1, <1>3, <2>1, SeqParts
<1>5. LenOf(ed'.lines[e.i]) = LenOf(e.lines[e.i])
  BY <1>1, <1>2, <1>3, <1>4, CellsIs
<1> QED BY <1>1, <1>2, <1>3, <1>5 DEF Sound, LineOK, EditorOK

LEMMA LinedIs ==
  ASSUME NEW g \in Seq(Runes), NEW texts \in Seq(Runes), NEW r, r = Lined(g, texts)
  PROVE  /\ r.h \in Seq(Runes) /\ Slices(g) \subseteq Slices(r.h)
         /\ r.lines \in Seq(Slices(r.h)) /\ Len(r.lines) = Len(texts)
<1> DEFINE c(k)  == Cap(texts[k], Paired(Len(texts[k])))
           more  == [k \in 1..Len(texts) |-> c(k)]
           g2    == g \o more
           lines == [k \in 1..Len(texts) |-> Slice(Len(g) + k, 0, Len(texts[k]))]
<1>1. /\ Len(texts) \in Nat /\ DOMAIN texts = 1..Len(texts) /\ Len(g) \in Nat
      /\ \A k \in 1..Len(texts) : texts[k] \in Runes
      /\ \A k \in 1..Len(g) : g[k] \in Runes
  BY SeqParts
<1>2. r.h = g2 /\ r.lines = lines
  BY <1>1 DEF Lined
<1>3. \A k \in 1..Len(texts) : Len(texts[k]) \in Nat
  BY <1>1, SeqParts DEF Runes
<1>4. \A k \in 1..Len(texts) : c(k) \in Runes /\ Len(c(k)) = Paired(Len(texts[k]))
                               /\ Len(c(k)) \in Nat /\ Len(c(k)) >= Len(texts[k])
  BY <1>1, <1>3, PairedIs, CapIs
<1> HIDE DEF c
<1>5. more \in Seq(Runes) /\ Len(more) = Len(texts) /\ \A k \in 1..Len(texts) : more[k] = c(k)
  <2>1. more \in [1..Len(texts) -> Runes]
    BY <1>4
  <2>2. more \in Seq(Runes) /\ Len(more) = Len(texts)
    BY ONLY <1>1, <2>1, SeqIs
  <2> QED BY <2>2
<1> HIDE DEF more
<1>6. /\ g2 \in Seq(Runes) /\ Len(g2) = Len(g) + Len(texts)
      /\ \A k \in 1..Len(g) : g2[k] = g[k]
      /\ \A k \in 1..Len(texts) : g2[Len(g) + k] = c(k)
  <2>1. g2 \in Seq(Runes) /\ Len(g2) = Len(g) + Len(more)
        /\ \A i \in 1..Len(g) + Len(more) : g2[i] = IF i <= Len(g) THEN g[i] ELSE more[i - Len(g)]
    BY <1>5, ConcatProperties
  <2> HIDE DEF g2
  <2>2. \A k \in 1..Len(g) : g2[k] = g[k]
    BY ONLY <1>1, <1>5, <2>1
  <2>3. ASSUME NEW k \in 1..Len(texts) PROVE g2[Len(g) + k] = c(k)
    <3>1. /\ Len(g) + k \in 1..Len(g) + Len(more) /\ ~(Len(g) + k <= Len(g)) /\ (Len(g) + k) - Len(g) = k
      BY ONLY <1>1, <1>5, k \in 1..Len(texts)
    <3>2. g2[Len(g) + k] = more[(Len(g) + k) - Len(g)]
      BY ONLY <2>1, <3>1
    <3> QED BY <1>5, <3>1, <3>2
  <2> QED BY <1>5, <2>1, <2>2, <2>3
<1> HIDE DEF g2
<1>7. Slices(g) \subseteq Slices(g2)
  <2>1. ASSUME NEW a \in 1..Len(g) PROVE Len(g[a]) \in Nat /\ Len(g2[a]) >= Len(g[a])
    <3>1. g[a] \in Seq(Rune) /\ g2[a] = g[a]
      BY <1>1, <1>6 DEF Runes
    <3>2. Len(g[a]) \in Nat
      BY ONLY <3>1, SeqParts
    <3> QED BY ONLY <3>1, <3>2
  <2>2. g2 \in Seq(Runes) /\ Len(g2) >= Len(g)
    BY <1>1, <1>6
  <2>3. \A a \in 1..Len(g) : Len(g2[a]) >= Len(g[a])
    BY <2>1
  <2> QED BY ONLY g \in Seq(Runes), <1>1, <2>2, <2>3, SlicesGrow
<1>8. ASSUME NEW k \in 1..Len(texts) PROVE Slice(Len(g) + k, 0, Len(texts[k])) \in Slices(g2)
  <2> DEFINE a == Len(g) + k  n == Len(texts[k])
  <2>1. a \in 1..Len(g2) /\ n \in Nat /\ n <= Len(g2[a]) /\ 0 \in Nat /\ 0 <= n
    BY <1>1, <1>3, <1>4, <1>6
  <2> HIDE DEF a, n
  <2>2. Slice(a, 0, n) \in Slices(g2)
    BY ONLY <1>6, <2>1, SliceIs
  <2> QED BY <2>2 DEF a, n
<1>9. lines \in Seq(Slices(g2)) /\ Len(lines) = Len(texts)
  <2>1. lines \in [1..Len(texts) -> Slices(g2)]
    BY <1>8
  <2>2. Len(texts) \in Nat
    BY <1>1
  <2> HIDE DEF lines
  <2> QED BY ONLY <2>1, <2>2, SeqIs
<1> QED BY <1>2, <1>6, <1>7, <1>9

LEMMA SplitIs ==
  ASSUME NEW text \in Runes
  PROVE  SplitLines(text) \in Seq(Runes) /\ Len(SplitLines(text)) >= 1
<1> DEFINE P    == {p \in DOMAIN text : text[p] = "nl"}
           ends == {0} \union P \union {Len(text) + 1}
           n    == 1 + Cardinality(P)
<1>1. Len(text) \in Nat /\ DOMAIN text = 1..Len(text)
  BY SeqParts DEF Runes
<1>2. P \in SUBSET (1..Len(text)) /\ ~(0 \in P) /\ ~(Len(text) + 1 \in P \union {0}) /\ ends \subseteq 0..(Len(text) + 1)
  <2>1. P \subseteq 1..Len(text)
    BY <1>1
  <2> HIDE DEF P
  <2>2. \A p \in P : p \in 0..(Len(text) + 1) /\ p # 0 /\ p # Len(text) + 1
    BY <1>1, <2>1
  <2>3. ~(0 \in P) /\ ~(Len(text) + 1 \in P) /\ Len(text) + 1 # 0
    BY <1>1, <2>2
  <2>4. 0 \in 0..(Len(text) + 1) /\ Len(text) + 1 \in 0..(Len(text) + 1)
    BY <1>1
  <2>5. ends \subseteq 0..(Len(text) + 1)
    BY <2>2, <2>4
  <2>6. ~(Len(text) + 1 \in P \union {0})
    BY <2>3
  <2> QED BY <2>1, <2>3, <2>5, <2>6
<1>3. SplitLines(text) = [k \in 1..n |-> LineAt(text, k)]
  BY DEF SplitLines
<1>4. \A k : LineAt(text, k) = SubSeq(text, Nth(ends, k) + 1, Nth(ends, k + 1) - 1)
  BY DEF LineAt
<1> HIDE DEF P
<1>5. IsFiniteSet(P) /\ Cardinality(P) \in Nat
  <2>1. IsFiniteSet(1..Len(text))
    BY <1>1, FS_Interval
  <2> QED BY <1>2, <2>1, FS_Subset, FS_CardinalityType
<1>6. Cardinality(ends) = n + 1
  <2>1. IsFiniteSet(P \union {0}) /\ Cardinality(P \union {0}) = Cardinality(P) + 1
    BY <1>2, <1>5, FS_AddElement
  <2>2. Cardinality((P \union {0}) \union {Len(text) + 1}) = (Cardinality(P) + 1) + 1
    BY <1>2, <2>1, FS_AddElement
  <2>3. ends = (P \union {0}) \union {Len(text) + 1}
    OBVIOUS
  <2> DEFINE m == Cardinality(P)
  <2>4. Cardinality(ends) = (m + 1) + 1 /\ m \in Nat /\ n = 1 + m
    BY <1>5, <2>2, <2>3, Zenon
  <2> HIDE DEF ends, n, m
  <2> QED BY ONLY <2>4
<1> HIDE DEF ends
<1>7. n \in Nat /\ n >= 1
  BY <1>5
<1> HIDE DEF n
<1>8. ASSUME NEW k \in 1..n PROVE LineAt(text, k) \in Runes
  <2> DEFINE a == Nth(ends, k) + 1  b == Nth(ends, k + 1) - 1
  <2>1. k \in 1..Cardinality(ends) /\ k + 1 \in 1..Cardinality(ends) /\ Len(text) + 1 \in Nat
    BY <1>1, <1>6, <1>7
  <2>2. Nth(ends, k) \in ends /\ Nth(ends, k + 1) \in ends
    BY <1>2, <2>1, NthIs
  <2>3. Nth(ends, k) \in 0..(Len(text) + 1) /\ Nth(ends, k + 1) \in 0..(Len(text) + 1)
    BY <1>2, <2>2
  <2>4. a \in Nat /\ a >= 1 /\ b \in Int /\ b <= Len(text)
    BY <1>1, <2>3
  <2>5. LineAt(text, k) = SubSeq(text, a, b)
    BY <1>4
  <2> HIDE DEF a, b
  <2>6. CASE a > b
    <3>1. SubSeq(text, a, b) = <<>>
      BY <2>4, <2>6
    <3>2. <<>> \in Runes
      BY DEF Runes
    <3> QED BY <2>5, <3>1, <3>2
  <2>7. CASE ~(a > b)
    <3>1. b \in Nat
      BY <2>4, <2>7
    <3>2. text \in Seq(Rune)
      BY DEF Runes
    <3>3. SubSeq(text, a, b) \in Seq(Rune)
      BY ONLY <2>4, <3>1, <3>2, PartOf
    <3> QED BY <2>5, <3>3 DEF Runes
  <2> QED BY <2>6, <2>7
<1>9. [k \in 1..n |-> LineAt(text, k)] \in [1..n -> Runes]
  BY <1>8
<1> DEFINE f == [k \in 1..n |-> LineAt(text, k)]
<1>10. f \in Seq(Runes) /\ Len(f) = n
  <2> HIDE DEF f
  <2> QED BY ONLY <1>7, <1>9, SeqIs DEF f
<1> QED BY <1>3, <1>7, <1>10

LEMMA OpenSound ==
  ASSUME Sound, NEW k, OpenEditor(k)
  PROVE  Sound' /\ ed'.height = Len(ed'.lines)
<1> DEFINE t == SplitLines(Text)  r == Lined(h, t)  n == Len(r.lines)
           e == [lines |-> r.lines, i |-> n, c |-> LenOf(r.lines[n]), height |-> n, filter |-> NoFilter]
<1>1. Ends(r.h, line, e)
  BY DEF OpenEditor, Opened
<1>2. LineOK /\ h \in Seq(Runes) /\ line \in LineIn(h) /\ Text \in Runes
  BY TextIs DEF Sound, LineOK
<1>3. t \in Seq(Runes) /\ Len(t) >= 1 /\ Len(t) \in Nat
  BY <1>2, SplitIs, SeqParts
<1> HIDE DEF t
<1>4. /\ r.h \in Seq(Runes) /\ Slices(h) \subseteq Slices(r.h)
      /\ r.lines \in Seq(Slices(r.h)) /\ n = Len(t)
  BY <1>2, <1>3, LinedIs
<1> HIDE DEF r
<1>5. line \in LineIn(r.h)
  BY <1>2, <1>4, LineLater
<1>6. n \in 1..Len(r.lines) /\ n \in Nat /\ n \in Int
  BY <1>3, <1>4
<1>7. r.lines[n] \in Slices(r.h)
  BY <1>4, <1>6, SeqParts
<1>8. LenOf(r.lines[n]) \in Nat
  BY <1>4, <1>7, SliceParts
<1>9. NoFilter \in Filters
  BY ClosedIs
<1> HIDE DEF n
<1>10. e \in EditorIn(r.h) /\ e.lines = r.lines /\ e.i = n /\ e.c = LenOf(r.lines[n])
      /\ e.height = Len(e.lines)
  BY <1>4, <1>6, <1>8, <1>9 DEF EditorIn, n
<1> HIDE DEF e
<1>11. EditorAt(r.h, e)
  BY <1>4, <1>6, <1>8, <1>10 DEF EditorAt
<1>12. Sound' /\ SameEditor(r.h, e, h', ed')
  BY <1>1, <1>5, <1>11, EditSound
<1> QED BY <1>10, <1>12 DEF SameEditor

-----------------------------------------------------------------------------
(* Texts put together *)

LEMMA FlattenIs ==
  ASSUME NEW ts \in Seq(Runes), Len(ts) # 0
  PROVE  FlattenSeq(ts) \in Runes
<1> DEFINE n == Len(ts)
           Step(i, x) == IF i = 1 THEN ts[i] ELSE x \o ts[i]
           Flat(m, f) == f = [i \in 1..m |-> Step(i, f[i - 1])]
           flatten[i \in 1..Len(ts)] == IF i = 1 THEN ts[i] ELSE flatten[i - 1] \o ts[i]
<1>1. n \in Nat /\ n # 0 /\ \A i \in 1..n : ts[i] \in Runes
  BY SeqParts
<1>2. FlattenSeq(ts) = flatten[n]
  BY Zenon DEF FlattenSeq
<1>3. flatten = CHOOSE f : Flat(n, f)
  BY Zenon
<1> HIDE DEF flatten
<1>4. \A i, x : i \in 1..n /\ (i = 1 \/ x \in Runes) => Step(i, x) \in Runes
  BY <1>1, ConcatStart
<1> HIDE DEF Step
<1>5. \E f : Flat(n, f)
  <2> DEFINE Bad == {m \in Nat : ~(\E f : Flat(m, f))}
  <2>1. SUFFICES ASSUME Bad # {} PROVE FALSE
    BY <1>1
  <2>2. PICK m \in Bad : \A y \in Bad : m <= y
    BY <2>1, Least
  <2>3. m \in Nat /\ ~(\E f : Flat(m, f))
    BY <2>2
  <2>4. CASE m = 0
    <3> DEFINE f == [i \in 1..0 |-> 0]
    <3>1. Flat(0, f)
      BY SMT
    <3> QED BY <2>3, <2>4, <3>1
  <2>5. CASE m # 0
    <3>1. m - 1 \in Nat /\ ~(m - 1 \in Bad)
      BY <2>2, <2>3, <2>5
    <3>2. PICK f : Flat(m - 1, f)
      BY <3>1
    <3> DEFINE f2 == [i \in 1..m |-> IF i < m THEN f[i] ELSE Step(m, f[m - 1])]
    <3>3. Flat(m, f2)
      <4>1. ASSUME NEW i \in 1..m PROVE f2[i] = Step(i, f2[i - 1])
        <5>1. CASE i = m
          <6>1. CASE m = 1
            BY <5>1, <6>1 DEF Step
          <6>2. CASE m # 1
            <7>1. f2[m - 1] = f[m - 1]
              BY <2>3, <2>5, <6>2
            <7> QED BY <2>3, <2>5, <5>1, <7>1
          <6> QED BY <6>1, <6>2
        <5>2. CASE i # m
          <6>1. i \in 1..(m - 1) /\ f[i] = Step(i, f[i - 1]) /\ f2[i] = f[i]
            <7>1. i \in 1..(m - 1) /\ i < m
              BY ONLY <2>3, <5>2, i \in 1..m
            <7>2. f[i] = Step(i, f[i - 1])
              BY ONLY <3>2, <7>1
            <7> QED BY <7>1, <7>2
          <6>2. CASE i = 1
            BY <6>1, <6>2 DEF Step
          <6>3. CASE i # 1
            <7>1. f2[i - 1] = f[i - 1]
              BY <2>3, <6>1, <6>3
            <7> QED BY <6>1, <7>1
          <6> QED BY <6>2, <6>3
        <5> QED BY <5>1, <5>2
      <4>2. f2 = [i \in 1..m |-> f2[i]]
        OBVIOUS
      <4> HIDE DEF f2
      <4> QED BY <4>1, <4>2
    <3> QED BY <2>3, <3>3
  <2> QED BY <2>4, <2>5
<1>6. Flat(n, flatten)
  BY <1>3, <1>5, Zenon
<1>7. \A i \in 1..n : flatten[i] \in Runes
  <2> DEFINE Bad == {i \in 1..n : ~(flatten[i] \in Runes)}
  <2>1. SUFFICES ASSUME Bad # {} PROVE FALSE
    OBVIOUS
  <2>2. Bad \subseteq Nat
    BY <1>1
  <2>3. PICK i \in Bad : \A y \in Bad : i <= y
    BY <2>1, <2>2, Least
  <2>4. i \in 1..n /\ ~(flatten[i] \in Runes) /\ flatten[i] = Step(i, flatten[i - 1])
    BY <1>6, <2>3
  <2>5. i # 1 => i - 1 \in 1..n /\ ~(i - 1 \in Bad)
    BY <1>1, <2>3, <2>4
  <2>6. i = 1 \/ flatten[i - 1] \in Runes
    BY <2>5
  <2> QED BY <1>4, <2>4, <2>6
<1> QED BY <1>1, <1>2, <1>7

LEMMA TextsIs ==
  ASSUME NEW g \in Seq(Runes), NEW lines \in Seq(Slices(g)), NEW t, t = [k \in DOMAIN lines |-> Cells(g, lines[k])]
  PROVE  /\ t \in Seq(Runes) /\ Len(t) = Len(lines) /\ Len(t) \in Nat /\ Len(lines) \in Nat
         /\ \A k \in 1..Len(lines) : t[k] = Cells(g, lines[k]) /\ lines[k] \in Slices(g)
<1>1. Len(lines) \in Nat /\ DOMAIN lines = 1..Len(lines) /\ \A k \in 1..Len(lines) : lines[k] \in Slices(g)
  BY SeqParts
<1>2. \A k \in 1..Len(lines) : Cells(g, lines[k]) \in Runes
  BY <1>1, CellsIs
<1>3. t \in [1..Len(lines) -> Runes] /\ \A k \in 1..Len(lines) : t[k] = Cells(g, lines[k])
  BY <1>1, <1>2
<1>4. t \in Seq(Runes) /\ Len(t) = Len(lines)
  BY ONLY <1>1, <1>3, SeqIs
<1> QED BY <1>1, <1>3, <1>4

LEMMA JoinedIs ==
  ASSUME NEW texts \in Seq(Runes), Len(texts) # 0
  PROVE  Joined(texts) \in Runes
<1> DEFINE start(k) == IF k = 1 THEN <<>> ELSE <<"nl">>
           ts == [k \in DOMAIN texts |-> start(k) \o texts[k]]
<1>1. Joined(texts) = FlattenSeq(ts)
  BY Zenon DEF Joined
<1>2. "nl" \in Rune
  BY Zenon, LineInputAssumption
<1>3. \A k : start(k) \in Runes
  BY <1>2, OneRune DEF Runes
<1> HIDE DEF start
<1>4. Len(texts) \in Nat /\ DOMAIN texts = 1..Len(texts) /\ \A k \in 1..Len(texts) : texts[k] \in Runes
  BY SeqParts
<1>5. \A k \in 1..Len(texts) : start(k) \o texts[k] \in Runes
  BY <1>3, <1>4, ConcatStart
<1>6. ts \in [1..Len(texts) -> Runes]
  BY <1>4, <1>5
<1> HIDE DEF ts
<1>7. ts \in Seq(Runes) /\ Len(ts) = Len(texts)
  BY ONLY <1>4, <1>6, SeqIs
<1> QED BY <1>1, <1>7, FlattenIs

LEMMA PastedIs ==
  ASSUME NEW k \in Keys, k.op = "paste"
  PROVE  PastedLines(k) \in Seq(Runes) /\ Len(PastedLines(k)) \in 1..2
<1>1. k.lines \in Seq(Runes) /\ Len(k.lines) \in 1..2
  BY Zenon, LineInputAssumption
<1>2. Len(k.lines) # 0
  BY <1>1
<1>3. FlattenSeq(k.lines) \in Runes
  BY <1>1, <1>2, FlattenIs
<1> DEFINE t == FlattenSeq(k.lines)
<1> HIDE DEF t
<1>4. <<t>> \in Seq(Runes) /\ Len(<<t>>) = 1
  BY <1>3 DEF t
<1>5. PastedLines(k) = <<t>> \/ PastedLines(k) = k.lines
  BY Zenon DEF PastedLines, t
<1>6. Len(<<t>>) \in 1..2
  BY <1>4
<1> QED BY ONLY <1>1, <1>4, <1>5, <1>6, Zenon

(* The editor is closed *)

LEMMA EscapedIs ==
  ASSUME NEW text \in Runes
  PROVE  Escaped(text) \in Runes
<1> DEFINE open[n \in 0..Len(text)] ==
             IF n = 0 THEN Junk
             ELSE IF open[n - 1] = Junk THEN IF text[n] \in Quotes THEN text[n] ELSE Junk
             ELSE IF text[n] = open[n - 1] THEN Junk ELSE open[n - 1]
           InQuotes(n) == open[n - 1] # Junk /\ text[n] # open[n - 1]
           Pair(c)     == <<"backslash", IF c = "nl" THEN "n" ELSE "backslash">>
           Part(n)     == IF InQuotes(n) /\ text[n] \in {"nl", "backslash"} THEN Pair(text[n]) ELSE <<text[n]>>
           ts          == [n \in DOMAIN text |-> Part(n)]
<1>1. Escaped(text) = FlattenSeq(ts)
  BY Zenon DEF Escaped
<1>2. Len(text) \in Nat /\ DOMAIN text = 1..Len(text) /\ \A n \in 1..Len(text) : text[n] \in Rune
  BY SeqParts DEF Runes
<1>3. "n" \in Rune /\ "backslash" \in Rune
  BY LineInputAssumption
<1>4. \A c : Pair(c) \in Runes
  <2> TAKE c
  <2> DEFINE b == IF c = "nl" THEN "n" ELSE "backslash"
  <2>1. b \in Rune
    BY <1>3
  <2> HIDE DEF b
  <2>2. <<"backslash", b>> \in Seq(Rune)
    BY <1>3, <2>1
  <2> QED BY <2>2 DEF b, Runes
<1> HIDE DEF InQuotes, Pair
<1>5. \A n \in 1..Len(text) : Part(n) \in Runes
  BY <1>2, <1>4, OneRune
<1> HIDE DEF Part
<1>6. ts \in [1..Len(text) -> Runes]
  BY <1>2, <1>5
<1> HIDE DEF ts
<1>7. ts \in Seq(Runes) /\ Len(ts) = Len(text)
  BY ONLY <1>2, <1>6, SeqIs
<1>8. CASE Len(text) = 0
  <2>1. Len(ts) = 0 => FlattenSeq(ts) = ts
    BY Zenon DEF FlattenSeq
  <2>2. Len(ts) = 0 /\ ts = <<>>
    BY <1>7, <1>8
  <2>3. <<>> \in Runes
    BY DEF Runes
  <2> QED BY <1>1, <2>1, <2>2, <2>3
<1>9. CASE Len(text) # 0
  BY <1>1, <1>7, <1>9, FlattenIs
<1> QED BY <1>8, <1>9

LEMMA AcceptedSound ==
  ASSUME Sound, NEW text \in Runes, Accepted(text)
  PROVE  Sound'
<1> DEFINE r == FromText(h, text)
<1>1. LineOK /\ h \in Seq(Runes)
  BY DEF Sound, LineOK
<1>2. Keep(r.h, WithText(line, r.s, Len(text)))
  BY DEF Accepted, WithText
<1>3. Gives(h, r, text)
  BY <1>1, NewTextIs
<1> HIDE DEF r
<1>4. Len(text) \in Nat
  BY SeqParts DEF Runes
<1> QED BY <1>1, <1>2, <1>3, <1>4, KeepGives, NowSound

LEMMA CloseSound ==
  ASSUME Sound, ed # Closed, NEW k, CloseEditor(k)
  PROVE  Sound'
<1>1. LineOK /\ EditorAt(h, ed)
  BY DEF Sound, LineOK, EditorOK, EditorAt
<1>2. h \in Seq(Runes) /\ ed.lines \in Seq(Slices(h)) /\ ed.i \in 1..Len(ed.lines)
  BY <1>1, EditorParts
<1>3. /\ Texts(h, ed) \in Seq(Runes) /\ Len(Texts(h, ed)) = Len(ed.lines) /\ Len(ed.lines) \in Nat
  BY <1>2, TextsIs DEF Texts
<1>4. Len(Texts(h, ed)) # 0 /\ 1 \in 1..Len(Texts(h, ed))
  BY <1>2, <1>3
<1>5. Texts(h, ed)[1] \in Runes
  BY <1>3, <1>4, SeqParts
<1>6. Joined(Texts(h, ed)) \in Runes
  BY <1>3, <1>4, JoinedIs
<1>7. CASE Accepted(Escaped(Joined(Texts(h, ed))))
  BY <1>6, <1>7, EscapedIs, AcceptedSound
<1>8. CASE Accepted(Escaped(Texts(h, ed)[1]))
  BY <1>5, <1>8, EscapedIs, AcceptedSound
<1>9. CASE Stays
  BY <1>1, <1>9, StaysIs, NowSound
<1> QED BY <1>7, <1>8, <1>9 DEF CloseEditor

-----------------------------------------------------------------------------
(* Lines put in and taken out *)

LEMMA InsertAtIs ==
  ASSUME NEW T, NEW s \in Seq(T), NEW i \in 1..(Len(s) + 1), NEW e \in T
  PROVE  /\ InsertAt(s, i, e) \in Seq(T) /\ Len(InsertAt(s, i, e)) = Len(s) + 1
         /\ \A k \in 1..(Len(s) + 1) : InsertAt(s, i, e)[k] = IF k < i THEN s[k] ELSE IF k = i THEN e ELSE s[k - 1]
<1> DEFINE n == Len(s)  a == SubSeq(s, 1, i - 1)  b == SubSeq(s, i, Len(s))  c == a \o <<e>>  d == c \o b
<1>1. n \in Nat /\ i \in 1..n + 1
  BY SeqParts
<1>2. a \in Seq(T) /\ Len(a) = i - 1 /\ \A k \in 1..(i - 1) : a[k] = s[k]
  <2>1. i - 1 \in Nat /\ i - 1 <= Len(s)
    BY <1>1
  <2>2. /\ a \in Seq(T) /\ Len(a) = IF 1 <= i - 1 THEN (i - 1) - 1 + 1 ELSE 0
        /\ \A k \in 1..Len(a) : a[k] = s[1 + k - 1]
    BY <2>1, PartOf
  <2> HIDE DEF a
  <2>3. Len(a) = i - 1
    BY ONLY <2>1, <2>2
  <2>4. \A k \in 1..(i - 1) : 1 + k - 1 = k
    BY <2>1
  <2> QED BY <2>2, <2>3, <2>4
<1>3. b \in Seq(T) /\ Len(b) = n - (i - 1) /\ \A k \in 1..Len(b) : b[k] = s[i + k - 1]
  <2>1. i \in Nat /\ i >= 1 /\ n <= Len(s)
    BY <1>1
  <2>2. /\ b \in Seq(T) /\ Len(b) = IF i <= n THEN n - i + 1 ELSE 0
        /\ \A k \in 1..Len(b) : b[k] = s[i + k - 1]
    BY <1>1, <2>1, PartOf
  <2> HIDE DEF b, n
  <2>3. Len(b) = n - (i - 1)
    BY ONLY <1>1, <2>1, <2>2
  <2> QED BY <2>2, <2>3
<1>4. InsertAt(s, i, e) = d
  BY DEF InsertAt
<1> HIDE DEF a, b
<1>5. <<e>> \in Seq(T) /\ Len(<<e>>) = 1 /\ <<e>>[1] = e
  BY OneItem
<1> DEFINE o == <<e>>
<1> HIDE DEF o
<1>6. o \in Seq(T) /\ Len(o) = 1 /\ o[1] = e /\ c = a \o o
  BY <1>5 DEF o
<1> HIDE DEF n, c
<1>7. c \in Seq(T) /\ Len(c) = i /\ \A k \in 1..i : c[k] = IF k < i THEN s[k] ELSE e
  <2>1. /\ c \in Seq(T) /\ Len(c) = Len(a) + Len(o)
        /\ \A k \in 1..(Len(a) + Len(o)) : c[k] = IF k <= Len(a) THEN a[k] ELSE o[k - Len(a)]
    BY ONLY <1>2, <1>6, ConcatProperties
  <2>2. Len(c) = i
    BY ONLY <1>1, <1>2, <1>6, <2>1
  <2>3. ASSUME NEW k \in 1..i PROVE c[k] = IF k < i THEN s[k] ELSE e
    <3>1. k \in 1..(Len(a) + Len(o))
      BY ONLY <1>1, <1>2, <1>6, k \in 1..i
    <3>2. CASE k < i
      <4>1. k <= Len(a) /\ k \in 1..(i - 1)
        BY ONLY <1>1, <1>2, <3>2, k \in 1..i
      <4> QED BY ONLY <1>2, <2>1, <3>1, <3>2, <4>1
    <3>3. CASE ~(k < i)
      <4>1. ~(k <= Len(a)) /\ k - Len(a) = 1
        BY ONLY <1>1, <1>2, <3>3, k \in 1..i
      <4> QED BY ONLY <1>6, <2>1, <3>1, <3>3, <4>1
    <3> QED BY <3>2, <3>3
  <2> QED BY <2>1, <2>2, <2>3
<1> HIDE DEF d
<1>8. /\ d \in Seq(T) /\ Len(d) = Len(c) + Len(b)
      /\ \A k \in 1..(Len(c) + Len(b)) : d[k] = IF k <= Len(c) THEN c[k] ELSE b[k - Len(c)]
  BY ONLY <1>3, <1>7, ConcatProperties DEF d
<1>9. Len(d) = n + 1
  BY ONLY <1>1, <1>3, <1>7, <1>8
<1>10. ASSUME NEW k \in 1..(n + 1) PROVE d[k] = IF k < i THEN s[k] ELSE IF k = i THEN e ELSE s[k - 1]
  <2>1. k \in 1..(Len(c) + Len(b))
    BY ONLY <1>1, <1>3, <1>7, k \in 1..(n + 1)
  <2>2. CASE k <= i
    <3>1. k \in 1..i /\ k <= Len(c) /\ (~(k < i) <=> k = i)
      BY ONLY <1>1, <1>7, <2>2, k \in 1..(n + 1)
    <3> QED BY ONLY <1>7, <1>8, <2>1, <3>1
  <2>3. CASE ~(k <= i)
    <3>1. ~(k <= Len(c)) /\ k - i \in 1..Len(b) /\ i + (k - i) - 1 = k - 1 /\ ~(k < i) /\ k # i
      BY ONLY <1>1, <1>3, <1>7, <2>3, k \in 1..(n + 1)
    <3>2. d[k] = b[k - i]
      BY ONLY <1>7, <1>8, <2>1, <3>1
    <3>3. b[k - i] = s[k - 1]
      BY ONLY <1>3, <3>1
    <3> QED BY <3>1, <3>2, <3>3
  <2> QED BY <2>2, <2>3
<1> QED BY <1>4, <1>8, <1>9, <1>10 DEF n

LEMMA RemoveAtIs ==
  ASSUME NEW T, NEW s \in Seq(T), NEW i \in 1..Len(s)
  PROVE  /\ RemoveAt(s, i) \in Seq(T) /\ Len(RemoveAt(s, i)) = Len(s) - 1
         /\ \A k \in 1..(Len(s) - 1) : RemoveAt(s, i)[k] = IF k < i THEN s[k] ELSE s[k + 1]
<1> DEFINE n == Len(s)  a == SubSeq(s, 1, i - 1)  b == SubSeq(s, i + 1, Len(s))  d == a \o b
<1>1. n \in Nat /\ i \in 1..n
  BY SeqParts
<1>2. a \in Seq(T) /\ Len(a) = i - 1 /\ \A k \in 1..(i - 1) : a[k] = s[k]
  <2>1. i - 1 \in Nat /\ i - 1 <= Len(s)
    BY <1>1
  <2>2. /\ a \in Seq(T) /\ Len(a) = IF 1 <= i - 1 THEN (i - 1) - 1 + 1 ELSE 0
        /\ \A k \in 1..Len(a) : a[k] = s[1 + k - 1]
    BY <2>1, PartOf
  <2> HIDE DEF a
  <2>3. Len(a) = i - 1
    BY ONLY <2>1, <2>2
  <2>4. \A k \in 1..(i - 1) : 1 + k - 1 = k
    BY <2>1
  <2> QED BY <2>2, <2>3, <2>4
<1>3. b \in Seq(T) /\ Len(b) = n - i /\ \A k \in 1..Len(b) : b[k] = s[(i + 1) + k - 1]
  <2>1. i + 1 \in Nat /\ i + 1 >= 1 /\ n <= Len(s)
    BY <1>1
  <2>2. /\ b \in Seq(T) /\ Len(b) = IF i + 1 <= n THEN n - (i + 1) + 1 ELSE 0
        /\ \A k \in 1..Len(b) : b[k] = s[(i + 1) + k - 1]
    BY <1>1, <2>1, PartOf
  <2> HIDE DEF b, n
  <2>3. Len(b) = n - i
    BY ONLY <1>1, <2>1, <2>2
  <2> QED BY <2>2, <2>3
<1>4. RemoveAt(s, i) = d
  BY DEF RemoveAt
<1> HIDE DEF a, b, n, d
<1>5. /\ d \in Seq(T) /\ Len(d) = Len(a) + Len(b)
      /\ \A k \in 1..(Len(a) + Len(b)) : d[k] = IF k <= Len(a) THEN a[k] ELSE b[k - Len(a)]
  BY ONLY <1>2, <1>3, ConcatProperties DEF d
<1>6. Len(d) = n - 1
  BY ONLY <1>1, <1>2, <1>3, <1>5
<1>7. ASSUME NEW k \in 1..(n - 1) PROVE d[k] = IF k < i THEN s[k] ELSE s[k + 1]
  <2>1. k \in 1..(Len(a) + Len(b))
    BY ONLY <1>1, <1>2, <1>3, k \in 1..(n - 1)
  <2>2. CASE k < i
    <3>1. k \in 1..(i - 1) /\ k <= Len(a)
      BY ONLY <1>1, <1>2, <2>2, k \in 1..(n - 1)
    <3> QED BY ONLY <1>2, <1>5, <2>1, <2>2, <3>1
  <2>3. CASE ~(k < i)
    <3> DEFINE j == k - (i - 1)
    <3>1. ~(k <= Len(a)) /\ k - Len(a) = j /\ j \in 1..Len(b) /\ (i + 1) + j - 1 = k + 1
      BY ONLY <1>1, <1>2, <1>3, <2>3, k \in 1..(n - 1)
    <3> HIDE DEF j
    <3>2. d[k] = b[j] /\ b[j] = s[(i + 1) + j - 1]
      BY ONLY <1>3, <1>5, <2>1, <3>1
    <3> QED BY ONLY <2>3, <3>1, <3>2
  <2> QED BY <2>2, <2>3
<1> QED BY <1>4, <1>5, <1>6, <1>7 DEF n

(* The texts of lines *)

TextsOf(g, lines) == [k \in DOMAIN lines |-> Cells(g, lines[k])]

LEMMA TextsOfIs ==
  ASSUME NEW g \in Seq(Runes), NEW lines \in Seq(Slices(g))
  PROVE  /\ TextsOf(g, lines) \in Seq(Runes) /\ Len(TextsOf(g, lines)) = Len(lines) /\ Len(lines) \in Nat
         /\ \A k \in 1..Len(lines) : TextsOf(g, lines)[k] = Cells(g, lines[k]) /\ lines[k] \in Slices(g)
BY TextsIs DEF TextsOf

SameTexts(g, g2, lines) == \A k \in 1..Len(lines) : Cells(g2, lines[k]) = Cells(g, lines[k])

LEMMA TextsSame ==
  ASSUME NEW T, NEW lines \in Seq(T), NEW g, NEW g2, SameTexts(g, g2, lines)
  PROVE  TextsOf(g2, lines) = TextsOf(g, lines)
<1>1. DOMAIN lines = 1..Len(lines)
  BY SeqParts
<1> QED BY <1>1 DEF TextsOf, SameTexts

PutIn(g, g2, lines, i, s, put) ==
  /\ put \in Seq(Slices(g2)) /\ Len(put) = Len(lines) /\ put[i] = s
  /\ (\A k \in 1..Len(lines) : k # i => Cells(g2, lines[k]) = Cells(g, lines[k])) =>
       TextsOf(g2, put) = [TextsOf(g, lines) EXCEPT ![i] = Cells(g2, s)]

LEMMA TextsPut ==
  ASSUME NEW g, NEW g2, Slices(g) \subseteq Slices(g2), NEW lines \in Seq(Slices(g)),
         NEW i \in 1..Len(lines), NEW s \in Slices(g2), NEW put, put = [lines EXCEPT ![i] = s]
  PROVE  PutIn(g, g2, lines, i, s, put)
<1> DEFINE n == Len(lines)
<1>1. n \in Nat /\ DOMAIN lines = 1..n /\ \A k \in 1..n : lines[k] \in Slices(g2)
  BY SeqParts
<1>2. put \in [1..n -> Slices(g2)] /\ put[i] = s /\ \A k \in 1..n : k # i => put[k] = lines[k]
  BY <1>1
<1> HIDE DEF n
<1>3. put \in Seq(Slices(g2)) /\ Len(put) = n
  BY ONLY <1>1, <1>2, SeqIs
<1>4. ASSUME \A k \in 1..n : k # i => Cells(g2, lines[k]) = Cells(g, lines[k])
      PROVE  TextsOf(g2, put) = [TextsOf(g, lines) EXCEPT ![i] = Cells(g2, s)]
  <2>1. \A k \in 1..n : Cells(g2, put[k]) = IF k = i THEN Cells(g2, s) ELSE Cells(g, lines[k])
    BY <1>2, <1>4
  <2>2. DOMAIN put = 1..n
    BY <1>2
  <2> QED BY <1>1, <2>1, <2>2 DEF TextsOf
<1> QED BY <1>2, <1>3, <1>4 DEF n, PutIn

LEMMA TextsInsert ==
  ASSUME NEW g \in Seq(Runes), NEW lines \in Seq(Slices(g)), NEW i \in 1..(Len(lines) + 1), NEW s \in Slices(g)
  PROVE  TextsOf(g, InsertAt(lines, i, s)) = InsertAt(TextsOf(g, lines), i, Cells(g, s))
<1> DEFINE n == Len(lines)  L == InsertAt(lines, i, s)  t == TextsOf(g, lines)  c == Cells(g, s)
           u == TextsOf(g, L)  w == InsertAt(t, i, c)
<1>1. /\ t \in Seq(Runes) /\ Len(t) = n /\ n \in Nat /\ \A k \in 1..n : t[k] = Cells(g, lines[k])
  BY TextsIs DEF TextsOf
<1>2. /\ L \in Seq(Slices(g)) /\ Len(L) = n + 1
      /\ \A k \in 1..(n + 1) : L[k] = IF k < i THEN lines[k] ELSE IF k = i THEN s ELSE lines[k - 1]
  BY InsertAtIs
<1>3. c \in Runes
  BY CellsIs
<1> HIDE DEF t, c, L, n
<1>4. /\ w \in Seq(Runes) /\ Len(w) = n + 1
      /\ \A k \in 1..(n + 1) : w[k] = IF k < i THEN t[k] ELSE IF k = i THEN c ELSE t[k - 1]
  <2>1. i \in 1..(Len(t) + 1)
    BY <1>1 DEF n
  <2>2. /\ w \in Seq(Runes) /\ Len(w) = Len(t) + 1
        /\ \A k \in 1..(Len(t) + 1) : w[k] = IF k < i THEN t[k] ELSE IF k = i THEN c ELSE t[k - 1]
    <3>1. t \in Seq(Runes)
      BY <1>1
    <3> DEFINE T == Runes
    <3>2. t \in Seq(T) /\ c \in T
      BY <1>3, <3>1
    <3> HIDE DEF T
    <3>3. w \in Seq(T) /\ Len(w) = Len(t) + 1
      BY ONLY <2>1, <3>2, InsertAtIs
    <3>4. \A k \in 1..(Len(t) + 1) : w[k] = IF k < i THEN t[k] ELSE IF k = i THEN c ELSE t[k - 1]
      BY ONLY <2>1, <3>2, InsertAtIs
    <3> QED BY ONLY <3>3, <3>4 DEF T
  <2> HIDE DEF w
  <2> QED BY ONLY <1>1, <2>2
<1>5. u \in Seq(Runes) /\ Len(u) = n + 1 /\ \A k \in 1..(n + 1) : u[k] = Cells(g, L[k])
  <2>1. u \in Seq(Runes) /\ Len(u) = Len(L) /\ \A k \in 1..Len(L) : u[k] = Cells(g, L[k])
    BY <1>2, TextsOfIs
  <2> HIDE DEF u
  <2> QED BY ONLY <1>2, <2>1
<1> HIDE DEF u, w
<1>6. ASSUME NEW k \in 1..(n + 1) PROVE u[k] = w[k]
  <2>1. i \in 1..(n + 1)
    BY DEF n
  <2>2. CASE k < i
    <3>1. k \in 1..n
      BY ONLY <1>1, <2>1, <2>2, k \in 1..(n + 1)
    <3> QED BY <1>1, <1>2, <1>4, <1>5, <2>2, <3>1
  <2>3. CASE k = i
    BY <1>2, <1>4, <1>5, <2>3 DEF c
  <2>4. CASE ~(k < i) /\ k # i
    <3>1. k - 1 \in 1..n
      BY ONLY <1>1, <2>1, <2>4, k \in 1..(n + 1)
    <3> QED BY <1>1, <1>2, <1>4, <1>5, <2>4, <3>1
  <2> QED BY <2>2, <2>3, <2>4
<1>7. u = w
  BY ONLY <1>4, <1>5, <1>6, SeqEqual
<1> QED BY <1>7 DEF u, w, t, c, L

LEMMA TextsRemove ==
  ASSUME NEW g \in Seq(Runes), NEW lines \in Seq(Slices(g)), NEW i \in 1..Len(lines)
  PROVE  TextsOf(g, RemoveAt(lines, i)) = RemoveAt(TextsOf(g, lines), i)
<1> DEFINE n == Len(lines)  L == RemoveAt(lines, i)  t == TextsOf(g, lines)  u == TextsOf(g, L)  w == RemoveAt(t, i)
<1>1. /\ t \in Seq(Runes) /\ Len(t) = n /\ n \in Nat /\ \A k \in 1..n : t[k] = Cells(g, lines[k])
  BY TextsIs DEF TextsOf
<1>2. /\ L \in Seq(Slices(g)) /\ Len(L) = n - 1
      /\ \A k \in 1..(n - 1) : L[k] = IF k < i THEN lines[k] ELSE lines[k + 1]
  BY RemoveAtIs
<1>3. i \in 1..n
  OBVIOUS
<1> HIDE DEF t, L, n
<1>4. /\ w \in Seq(Runes) /\ Len(w) = n - 1
      /\ \A k \in 1..(n - 1) : w[k] = IF k < i THEN t[k] ELSE t[k + 1]
  <2>1. i \in 1..Len(t)
    BY <1>1, <1>3
  <2> QED BY ONLY <1>1, <2>1, RemoveAtIs
<1>5. u \in Seq(Runes) /\ Len(u) = n - 1 /\ \A k \in 1..(n - 1) : u[k] = Cells(g, L[k])
  <2>1. u \in Seq(Runes) /\ Len(u) = Len(L) /\ \A k \in 1..Len(L) : u[k] = Cells(g, L[k])
    BY <1>2, TextsOfIs
  <2> HIDE DEF u
  <2> QED BY ONLY <1>2, <2>1
<1> HIDE DEF u, w
<1>6. ASSUME NEW k \in 1..(n - 1) PROVE u[k] = w[k]
  <2>1. k \in 1..n /\ k + 1 \in 1..n
    BY ONLY <1>1, k \in 1..(n - 1)
  <2> QED BY <1>1, <1>2, <1>4, <1>5, <2>1
<1>7. u = w
  BY ONLY <1>4, <1>5, <1>6, SeqEqual
<1> QED BY <1>7 DEF u, w, t, L

-----------------------------------------------------------------------------
(* The keys of the editor *)

Edit(e, lines, i, c, height) == [lines |-> lines, i |-> i, c |-> c, height |-> height, filter |-> e.filter]

LEMMA EditorWith ==
  ASSUME NEW g, NEW e \in EditorIn(g), NEW L, NEW i, NEW c
  PROVE  /\ [e EXCEPT !.lines = L, !.c = c] = Edit(e, L, e.i, c, e.height)
         /\ [e EXCEPT !.i = i, !.c = c] = Edit(e, e.lines, i, c, e.height)
         /\ e = Edit(e, e.lines, e.i, e.c, e.height)
<1> DEFINE T == {L, i, c, e.lines, e.i, e.c, e.height, e.filter}
           S == [lines : T, i : T, c : T, height : T, filter : T]
<1>1. e = [lines |-> e.lines, i |-> e.i, c |-> e.c, height |-> e.height, filter |-> e.filter]
  BY DEF EditorIn
<1>2. e \in S /\ L \in T /\ i \in T /\ c \in T
  BY <1>1
<1> HIDE DEF T
<1>3. \A x \in S : x = [lines |-> x.lines, i |-> x.i, c |-> x.c, height |-> x.height, filter |-> x.filter]
  OBVIOUS
<1>4. [e EXCEPT !.lines = L, !.c = c] = Edit(e, L, e.i, c, e.height)
  <2> DEFINE w == [e EXCEPT !.lines = L, !.c = c]
  <2>1. /\ w \in S /\ w.lines = L /\ w.i = e.i /\ w.c = c /\ w.height = e.height
        /\ w.filter = e.filter
    BY ONLY <1>2
  <2> HIDE DEF w
  <2>2. w = Edit(e, L, e.i, c, e.height)
    BY ONLY <1>3, <2>1 DEF Edit
  <2> QED BY <2>2 DEF w
<1>5. [e EXCEPT !.i = i, !.c = c] = Edit(e, e.lines, i, c, e.height)
  <2> DEFINE w == [e EXCEPT !.i = i, !.c = c]
  <2>1. /\ w \in S /\ w.lines = e.lines /\ w.i = i /\ w.c = c /\ w.height = e.height
        /\ w.filter = e.filter
    BY ONLY <1>2
  <2> HIDE DEF w
  <2>2. w = Edit(e, e.lines, i, c, e.height)
    BY ONLY <1>3, <2>1 DEF Edit
  <2> QED BY <2>2 DEF w
<1> QED BY <1>1, <1>4, <1>5 DEF Edit

Edited(e, L, i, c, n) == [e EXCEPT !.lines = L, !.i = i, !.c = c, !.height = n]

LEMMA EditedIs ==
  ASSUME NEW g, NEW e \in EditorIn(g), NEW L, NEW i, NEW c, NEW n
  PROVE  Edited(e, L, i, c, n) = Edit(e, L, i, c, n)
<1> DEFINE T == {L, i, c, n, e.lines, e.i, e.c, e.height, e.filter}
           S == [lines : T, i : T, c : T, height : T, filter : T]
<1>1. e = [lines |-> e.lines, i |-> e.i, c |-> e.c, height |-> e.height, filter |-> e.filter]
  BY DEF EditorIn
<1>2. e \in S /\ L \in T /\ i \in T /\ c \in T /\ n \in T
  BY <1>1
<1> HIDE DEF T
<1>3. \A x \in S : x = [lines |-> x.lines, i |-> x.i, c |-> x.c, height |-> x.height, filter |-> x.filter]
  OBVIOUS
<1>4. [e EXCEPT !.lines = L, !.i = i, !.c = c, !.height = n] = Edit(e, L, i, c, n)
  <2> DEFINE w == [e EXCEPT !.lines = L, !.i = i, !.c = c, !.height = n]
  <2>1. /\ w \in S /\ w.lines = L /\ w.i = i /\ w.c = c /\ w.height = n
        /\ w.filter = e.filter
    BY ONLY <1>2
  <2> HIDE DEF w
  <2>2. w = Edit(e, L, i, c, n)
    BY ONLY <1>3, <2>1 DEF Edit
  <2> QED BY <2>2 DEF w
<1> QED BY <1>4, Zenon DEF Edited

MovedTo(e, L, i, c) == [e EXCEPT !.lines = L, !.i = i, !.c = c]

LEMMA MovedToIs ==
  ASSUME NEW g, NEW e \in EditorIn(g), NEW L, NEW i, NEW c
  PROVE  MovedTo(e, L, i, c) = Edit(e, L, i, c, e.height)
<1> DEFINE T == {L, i, c, e.lines, e.i, e.c, e.height, e.filter}
           S == [lines : T, i : T, c : T, height : T, filter : T]
<1>1. e = [lines |-> e.lines, i |-> e.i, c |-> e.c, height |-> e.height, filter |-> e.filter]
  BY DEF EditorIn
<1>2. e \in S /\ L \in T /\ i \in T /\ c \in T
  BY <1>1
<1> HIDE DEF T
<1>3. \A x \in S : x = [lines |-> x.lines, i |-> x.i, c |-> x.c, height |-> x.height, filter |-> x.filter]
  OBVIOUS
<1>4. [e EXCEPT !.lines = L, !.i = i, !.c = c] = Edit(e, L, i, c, e.height)
  <2> DEFINE w == [e EXCEPT !.lines = L, !.i = i, !.c = c]
  <2>1. /\ w \in S /\ w.lines = L /\ w.i = i /\ w.c = c /\ w.height = e.height
        /\ w.filter = e.filter
    BY ONLY <1>2
  <2> HIDE DEF w
  <2>2. w = Edit(e, L, i, c, e.height)
    BY ONLY <1>3, <2>1 DEF Edit
  <2> QED BY <2>2 DEF w
<1> QED BY <1>4, Zenon DEF MovedTo

(* What a key of the editor gives; of lines in arrays of their own, also   *)
(* what it means for their texts.                                          *)
Edits(g, e, r, v) ==
  /\ EditorAt(r.h, r.e) /\ Slices(g) \subseteq Slices(r.h)
  /\ Apart(e) => Lines(r.h, r.e) = v

LEMMA EditsIs ==
  ASSUME NEW g, NEW e, EditorAt(g, e), NEW g2 \in Seq(Runes), Slices(g) \subseteq Slices(g2),
         NEW L \in Seq(Slices(g2)), NEW i \in 1..Len(L), NEW c \in Nat, c <= LenOf(L[i]), NEW n \in Int,
         NEW t, Apart(e) => TextsOf(g2, L) = t,
         NEW r, r = [h |-> g2, e |-> Edit(e, L, i, c, n)]
  PROVE  Edits(g, e, r, [t |-> t, i |-> i, c |-> c])
<1> DEFINE e2 == Edit(e, L, i, c, n)
<1>1. e2.lines = L /\ e2.i = i /\ e2.c = c /\ e2.height = n /\ e2.filter = e.filter
  BY DEF Edit
<1>2. e.filter \in Filters
  BY EditorParts
<1>3. i \in Nat
  BY SeqParts
<1>4. e2 \in EditorIn(g2)
  BY <1>2, <1>3 DEF EditorIn, Edit
<1> HIDE DEF e2
<1>5. r.h = g2 /\ r.e = e2
  BY DEF e2
<1>6. EditorAt(g2, e2)
  BY <1>1, <1>4 DEF EditorAt
<1>7. Lines(g2, e2) = [t |-> TextsOf(g2, L), i |-> i, c |-> c]
  BY <1>1 DEF Lines, Texts, TextsOf
<1>8. Apart(e) => Lines(r.h, r.e) = [t |-> t, i |-> i, c |-> c]
  BY ONLY <1>5, <1>7, Apart(e) => TextsOf(g2, L) = t
<1> QED BY <1>5, <1>6, <1>8 DEF Edits

(* Only the line of the cursor changes. *)
LEMMA RewrittenIs ==
  ASSUME NEW g, NEW e, EditorAt(g, e), NEW r, NEW cells, Writes(g, r, This(e).array, cells),
         NEW c \in Nat, c <= Len(cells)
  PROVE  Edits(g, e, Rewritten(r, e, c), [t |-> [TextsOf(g, e.lines) EXCEPT ![e.i] = cells], i |-> e.i, c |-> c])
<1> DEFINE L == [e.lines EXCEPT ![e.i] = r.s]  t == [TextsOf(g, e.lines) EXCEPT ![e.i] = cells]
<1>1. /\ g \in Seq(Runes) /\ e \in EditorIn(g) /\ e.lines \in Seq(Slices(g)) /\ Len(e.lines) \in Nat
      /\ e.i \in 1..Len(e.lines) /\ e.height \in Int /\ \A n \in 1..Len(e.lines) : e.lines[n] \in Slices(g)
      /\ This(e) = e.lines[e.i]
  BY EditorParts
<1>2. /\ r.h \in Seq(Runes) /\ Slices(g) \subseteq Slices(r.h) /\ r.s \in Slices(r.h) /\ Cells(r.h, r.s) = cells
      /\ \A s \in Slices(g) : s.array # This(e).array => Cells(r.h, s) = Cells(g, s)
  BY DEF Writes
<1>3. /\ L \in Seq(Slices(r.h)) /\ Len(L) = Len(e.lines) /\ L[e.i] = r.s
      /\ (\A k \in 1..Len(e.lines) : k # e.i => Cells(r.h, e.lines[k]) = Cells(g, e.lines[k])) =>
           TextsOf(r.h, L) = t
  <2> DEFINE lines == e.lines  i == e.i  s == r.s  g2 == r.h  put == [lines EXCEPT ![i] = s]
  <2>1. Slices(g) \subseteq Slices(g2) /\ lines \in Seq(Slices(g)) /\ i \in 1..Len(lines) /\ s \in Slices(g2)
    BY <1>1, <1>2
  <2> HIDE DEF lines, i, s, g2
  <2>6. put = [lines EXCEPT ![i] = s]
    OBVIOUS
  <2> HIDE DEF put
  <2>2. PutIn(g, g2, lines, i, s, put)
    BY ONLY <2>1, <2>6, TextsPut
  <2>3. Cells(g2, s) = cells
    BY <1>2 DEF g2, s
  <2>4. TextsOf(g, lines) = TextsOf(g, e.lines) /\ put = L /\ t = [TextsOf(g, lines) EXCEPT ![i] = Cells(g2, s)]
    BY ONLY <2>3, Zenon DEF put, lines, i, s, g2
  <2> HIDE DEF put, t, L
  <2>5. /\ L \in Seq(Slices(g2)) /\ Len(L) = Len(lines) /\ L[i] = s
        /\ (\A k \in 1..Len(lines) : k # i => Cells(g2, lines[k]) = Cells(g, lines[k])) => TextsOf(g2, L) = t
    BY ONLY <2>2, <2>4, Zenon DEF PutIn
  <2> QED BY ONLY <2>5, Zenon DEF lines, i, s, g2
<1>4. ASSUME Apart(e) PROVE TextsOf(r.h, L) = t
  <2>1. \A k \in 1..Len(e.lines) : k # e.i => e.lines[k].array # This(e).array
    BY <1>1, <1>4, SeqParts DEF Apart
  <2> QED BY <1>1, <1>2, <1>3, <2>1
<1>5. Rewritten(r, e, c) = [h |-> r.h, e |-> [e EXCEPT !.lines = L, !.c = c]]
  BY DEF Rewritten
<1>6. [e EXCEPT !.lines = L, !.c = c] = Edit(e, L, e.i, c, e.height)
  BY <1>1, EditorWith
<1>7. c <= LenOf(L[e.i])
  BY <1>2, <1>3, CellsIs
<1> HIDE DEF L, t
<1>8. Rewritten(r, e, c) = [h |-> r.h, e |-> Edit(e, L, e.i, c, e.height)]
  BY <1>5, <1>6
<1>9. e.i \in 1..Len(L)
  BY <1>1, <1>3
<1> DEFINE i == e.i  n == e.height  w == Rewritten(r, e, c)  g2 == r.h
<1> HIDE DEF i, n, w, g2
<1>10. /\ EditorAt(g, e) /\ g2 \in Seq(Runes) /\ Slices(g) \subseteq Slices(g2) /\ L \in Seq(Slices(g2)) /\ i \in 1..Len(L)
       /\ c <= LenOf(L[i]) /\ n \in Int /\ (Apart(e) => TextsOf(g2, L) = t) /\ w = [h |-> g2, e |-> Edit(e, L, i, c, n)]
  BY <1>1, <1>2, <1>3, <1>4, <1>7, <1>8, <1>9 DEF i, n, w, g2
<1>11. Edits(g, e, w, [t |-> t, i |-> i, c |-> c])
  BY ONLY <1>10, c \in Nat, EditsIs
<1> QED BY <1>11 DEF i, w, t

LEMMA LinesAre ==
  ASSUME NEW g, NEW e, EditorAt(g, e), NEW v, v = Lines(g, e)
  PROVE  /\ v = [t |-> v.t, i |-> v.i, c |-> v.c] /\ v.t = TextsOf(g, e.lines) /\ v.i = e.i /\ v.c = e.c
         /\ v.t \in Seq(Runes) /\ Len(v.t) = Len(e.lines) /\ v.i \in 1..Len(v.t) /\ v.c \in Nat
         /\ v.t[v.i] = Cells(g, This(e)) /\ v.t[v.i] \in Runes /\ Len(v.t[v.i]) = Width(e) /\ Width(e) \in Nat
         /\ Len(v.t) \in Nat /\ v.i \in Nat /\ v.c <= Len(v.t[v.i])
         /\ \A n \in 1..Len(v.t) : v.t[n] = Cells(g, e.lines[n]) /\ Len(v.t[n]) = LenOf(e.lines[n])
<1>1. v = [t |-> TextsOf(g, e.lines), i |-> e.i, c |-> e.c]
  BY DEF Lines, Texts, TextsOf
<1> DEFINE t == TextsOf(g, e.lines)
<1>2. /\ g \in Seq(Runes) /\ e.lines \in Seq(Slices(g)) /\ e.i \in 1..Len(e.lines) /\ e.c \in Nat /\ e.i \in Nat
      /\ This(e) = e.lines[e.i] /\ LenOf(This(e)) \in Nat /\ e.c <= LenOf(This(e)) /\ This(e) \in Slices(g)
  BY EditorParts
<1>3. /\ t \in Seq(Runes) /\ Len(t) = Len(e.lines) /\ Len(e.lines) \in Nat
      /\ \A k \in 1..Len(e.lines) : t[k] = Cells(g, e.lines[k]) /\ e.lines[k] \in Slices(g)
  BY <1>2, TextsOfIs
<1> HIDE DEF t
<1>4. v = [t |-> t, i |-> e.i, c |-> e.c]
  BY <1>1 DEF t
<1>5. v.t = t /\ v.i = e.i /\ v.c = e.c
  BY <1>4
<1>6. Cells(g, This(e)) \in Runes /\ Len(Cells(g, This(e))) = LenOf(This(e))
  BY <1>2, CellsIs
<1>7. \A n \in 1..Len(t) : t[n] = Cells(g, e.lines[n]) /\ Len(t[n]) = LenOf(e.lines[n])
  BY <1>2, <1>3, CellsIs
<1> QED BY <1>2, <1>3, <1>4, <1>5, <1>6, <1>7 DEF Width, t

(* The line of the cursor becomes u. *)
PutLine(v, u, c) == [t |-> [v.t EXCEPT ![v.i] = u], i |-> v.i, c |-> c]

LEMMA RewriteIs ==
  ASSUME NEW g, NEW e, EditorAt(g, e), NEW r, NEW u, Writes(g, r, This(e).array, u), NEW c \in Nat, c <= Len(u)
  PROVE  Edits(g, e, Rewritten(r, e, c), PutLine(Lines(g, e), u, c))
<1>1. Lines(g, e).t = TextsOf(g, e.lines) /\ Lines(g, e).i = e.i
  BY LinesAre
<1>2. Edits(g, e, Rewritten(r, e, c), [t |-> [TextsOf(g, e.lines) EXCEPT ![e.i] = u], i |-> e.i, c |-> c])
  BY RewrittenIs
<1> QED BY <1>1, <1>2, Zenon DEF PutLine

LEMMA TypedIs ==
  ASSUME NEW g, NEW e, EditorAt(g, e), NEW u \in Runes, NEW v, v = Lines(g, e)
  PROVE  Edits(g, e, Typed(g, e, u), PutLine(v, InText(v.t[v.i], v.c, u), v.c + Len(u)))
<1> DEFINE s == This(e)  r == Inserted(g, s, e.c, u)  w == InText(Cells(g, s), e.c, u)
<1>1. /\ g \in Seq(Runes) /\ s \in Slices(g) /\ e.c \in Nat /\ e.c <= LenOf(s)
  BY EditorParts
<1>2. v.i = e.i /\ v.c = e.c /\ v.t[v.i] = Cells(g, s)
  BY LinesAre
<1>3. Len(u) \in Nat /\ Cells(g, s) \in Runes /\ Len(Cells(g, s)) = LenOf(s) /\ LenOf(s) \in Nat
  BY <1>1, CellsIs, SeqParts DEF Runes
<1>4. Writes(g, r, s.array, w)
  BY <1>1, InsertedIs
<1>5. Len(w) = LenOf(s) + Len(u)
  <2> DEFINE t == Cells(g, s)  at == e.c
  <2>1. t \in Runes /\ at \in Nat /\ at <= Len(t)
    BY <1>1, <1>3
  <2> HIDE DEF t, at
  <2>2. Len(InText(t, at, u)) = Len(t) + Len(u)
    BY <2>1, InTextIs
  <2> QED BY <1>3, <2>2, Zenon DEF t, at
<1>6. e.c + Len(u) \in Nat /\ e.c + Len(u) <= Len(w)
  BY <1>1, <1>3, <1>5
<1>7. Typed(g, e, u) = Rewritten(r, e, e.c + Len(u))
  BY DEF Typed
<1> DEFINE c == e.c + Len(u)
<1> HIDE DEF r, w, c
<1>8. Edits(g, e, Rewritten(r, e, c), PutLine(Lines(g, e), w, c))
  <2>1. c \in Nat /\ c <= Len(w)
    BY <1>6 DEF c
  <2> QED BY ONLY <1>4, <2>1, EditorAt(g, e), RewriteIs
<1> QED BY <1>2, <1>7, <1>8, Zenon DEF w, c

LEMMA CutAt ==
  ASSUME NEW t \in Runes, NEW n \in Nat, n > 0, n <= Len(t)
  PROVE  Cut(t, n - 1, n) \in Runes /\ Len(Cut(t, n - 1, n)) = Len(t) - 1
<1> DEFINE a == SubSeq(t, 1, n - 1)  b == SubSeq(t, n + 1, Len(t))
<1>1. t \in Seq(Rune) /\ Len(t) \in Nat /\ n - 1 \in Nat /\ 1 \in Nat /\ n + 1 \in Nat /\ n + 1 >= 1
  BY SeqParts DEF Runes
<1>2. a \in Seq(Rune) /\ Len(a) = IF 1 <= n - 1 THEN (n - 1) - 1 + 1 ELSE 0
  BY <1>1, PartOf
<1>3. b \in Seq(Rune) /\ Len(b) = IF n + 1 <= Len(t) THEN Len(t) - (n + 1) + 1 ELSE 0
  BY <1>1, PartOf
<1> HIDE DEF a, b
<1>4. Len(a) = n - 1 /\ Len(b) = Len(t) - n
  BY ONLY <1>1, <1>2, <1>3, n <= Len(t), n > 0
<1>5. a \o b \in Runes /\ Len(a \o b) = Len(a) + Len(b)
  BY <1>2, <1>3, ConcatStart DEF Runes
<1>6. Len(a \o b) = Len(t) - 1
  BY <1>1, <1>4, <1>5
<1> QED BY <1>5, <1>6, Zenon DEF Cut, a, b

LEMMA RemovedIs ==
  ASSUME NEW g, NEW e, EditorAt(g, e), NEW n \in Nat, n > 0, n <= Width(e), NEW c \in Nat, c = e.c \/ c = n - 1,
         c <= n - 1, NEW v, v = Lines(g, e)
  PROVE  Edits(g, e, Rewritten(RemovedBefore(g, This(e), n), e, c), PutLine(v, Cut(v.t[v.i], n - 1, n), c))
<1> DEFINE s == This(e)  r == RemovedBefore(g, s, n)  w == Cut(Cells(g, s), n - 1, n)
<1>1. g \in Seq(Runes) /\ s \in Slices(g) /\ LenOf(s) \in Nat /\ Width(e) = LenOf(s)
  BY EditorParts DEF Width
<1>2. v.t[v.i] = Cells(g, s)
  BY LinesAre
<1>3. Cells(g, s) \in Runes /\ Len(Cells(g, s)) = LenOf(s)
  BY <1>1, CellsIs
<1>4. Writes(g, r, s.array, IF n = 0 \/ n > LenOf(s) THEN Cells(g, s) ELSE w)
  BY <1>1, RemovedBeforeIs
<1>5. ~(n = 0 \/ n > LenOf(s))
  BY <1>1
<1>6. Len(w) = LenOf(s) - 1
  BY <1>1, <1>3, CutAt
<1>7. c <= Len(w)
  BY <1>1, <1>6
<1> HIDE DEF r, w, s
<1>8. Writes(g, r, s.array, w)
  BY <1>4, <1>5
<1>9. Edits(g, e, Rewritten(r, e, c), PutLine(Lines(g, e), w, c))
  BY <1>7, <1>8, RewriteIs DEF s
<1> QED BY <1>2, <1>9, Zenon DEF r, w, s

LEMMA SameIs ==
  ASSUME NEW g, NEW e, EditorAt(g, e)
  PROVE  Edits(g, e, Same(g, e), Lines(g, e))
BY DEF Edits, Same

LEMMA AtIs ==
  ASSUME NEW g, NEW e, EditorAt(g, e), NEW i \in 1..Len(e.lines), NEW c \in Nat, c <= LenOf(e.lines[i])
  PROVE  Edits(g, e, Same(g, At(e, i, c)), [t |-> Lines(g, e).t, i |-> i, c |-> c])
<1> DEFINE L == e.lines  n == e.height  t == TextsOf(g, L)  r == Same(g, At(e, i, c))
<1>1. g \in Seq(Runes) /\ e \in EditorIn(g) /\ L \in Seq(Slices(g)) /\ n \in Int
  BY EditorParts
<1>2. At(e, i, c) = Edit(e, L, i, c, n)
  <2>1. [e EXCEPT !.i = i, !.c = c] = Edit(e, e.lines, i, c, e.height)
    BY <1>1, EditorWith
  <2> QED BY <2>1, Zenon DEF At
<1>3. Lines(g, e).t = t
  BY LinesAre
<1>4. r = [h |-> g, e |-> Edit(e, L, i, c, n)]
  BY <1>2 DEF Same
<1>5. i \in 1..Len(L) /\ c <= LenOf(L[i]) /\ TextsOf(g, L) = t
  OBVIOUS
<1> HIDE DEF L, n, t, r
<1>6. Edits(g, e, r, [t |-> t, i |-> i, c |-> c])
  BY ONLY <1>1, <1>4, <1>5, EditorAt(g, e), c \in Nat, EditsIs
<1> QED BY <1>3, <1>6 DEF r

LEMMA SplitLineIs ==
  ASSUME NEW g, NEW e, EditorAt(g, e), NEW v, v = Lines(g, e)
  PROVE  Edits(g, e, SplitLine(g, e),
               IF Len(v.t) + 1 >= MaxHeight THEN v
               ELSE [t |-> InsertAt([v.t EXCEPT ![v.i] = SubSeq(v.t[v.i], 1, v.c)], v.i + 1,
                                    SubSeq(v.t[v.i], v.c + 1, Len(v.t[v.i]))),
                     i |-> v.i + 1, c |-> 0])
<1> DEFINE s == This(e)  upper == Prefix(s, e.c)  lower == Suffix(s, e.c)  put == [e.lines EXCEPT ![e.i] = upper]
           i == e.i  L == InsertAt(put, i + 1, lower)  n == Fit(Len(e.lines) + 1)  w == SplitLine(g, e)
           t == InsertAt([v.t EXCEPT ![v.i] = SubSeq(v.t[v.i], 1, v.c)], v.i + 1,
                         SubSeq(v.t[v.i], v.c + 1, Len(v.t[v.i])))
<1>1. /\ g \in Seq(Runes) /\ s \in Slices(g) /\ e.c \in Nat /\ e.c <= LenOf(s) /\ e \in EditorIn(g) /\ LenOf(s) \in Nat
      /\ e.lines \in Seq(Slices(g)) /\ i \in 1..Len(e.lines) /\ Len(e.lines) \in Nat /\ i \in Nat
  BY EditorParts
<1>2. /\ v.i = i /\ v.c = e.c /\ v.t = TextsOf(g, e.lines) /\ v.t[v.i] = Cells(g, s) /\ Len(v.t) = Len(e.lines)
  BY LinesAre
<1>3. CASE Len(v.t) + 1 >= MaxHeight
  <2>1. w = Same(g, e)
    BY <1>2, <1>3 DEF SplitLine
  <2> QED BY <1>3, <2>1, SameIs
<1>4. CASE ~(Len(v.t) + 1 >= MaxHeight)
  <2>1. upper \in Slices(g) /\ Cells(g, upper) = SubSeq(Cells(g, s), 1, e.c)
    <3> DEFINE c == e.c
    <3>1. LenOf(s) <= CapOf(g, s) /\ CapOf(g, s) \in Nat
      BY <1>1, SliceParts
    <3>2. c \in Nat /\ c <= CapOf(g, s) /\ c <= LenOf(s)
      BY <1>1, <3>1
    <3> HIDE DEF c, s
    <3>3. Prefix(s, c) \in Slices(g) /\ Cells(g, Prefix(s, c)) = SubSeq(Cells(g, s), 1, c)
      BY <1>1, <3>2, PrefixIs
    <3> QED BY <3>3 DEF c
  <2>2. lower \in Slices(g) /\ Cells(g, lower) = SubSeq(Cells(g, s), e.c + 1, Len(Cells(g, s))) /\ LenOf(lower) \in Nat
    BY <1>1, SuffixIs, SliceParts
  <2> HIDE DEF upper, lower
  <2>3. put = [e.lines EXCEPT ![i] = upper]
    OBVIOUS
  <2> HIDE DEF put
  <2>4. PutIn(g, g, e.lines, i, upper, put)
    <3>1. Slices(g) \subseteq Slices(g)
      OBVIOUS
    <3> QED BY <1>1, <2>1, <2>3, <3>1, TextsPut
  <2>5. /\ put \in Seq(Slices(g)) /\ Len(put) = Len(e.lines)
        /\ TextsOf(g, put) = [v.t EXCEPT ![i] = Cells(g, upper)]
    BY <1>2, <2>4 DEF PutIn
  <2> DEFINE j == i + 1
  <2>6. j \in 1..(Len(put) + 1) /\ L = InsertAt(put, j, lower)
    BY <1>1, <2>5
  <2> HIDE DEF j, i
  <2>7. TextsOf(g, InsertAt(put, j, lower)) = InsertAt(TextsOf(g, put), j, Cells(g, lower))
    BY <1>1, <2>2, <2>5, <2>6, TextsInsert
  <2>8. TextsOf(g, L) = t
    BY <1>2, <2>1, <2>2, <2>5, <2>6, <2>7, Zenon DEF j
  <2>9. /\ InsertAt(put, j, lower) \in Seq(Slices(g)) /\ Len(InsertAt(put, j, lower)) = Len(put) + 1
        /\ InsertAt(put, j, lower)[j] = lower
    <3> DEFINE T == Slices(g)
    <3>1. put \in Seq(T) /\ lower \in T
      BY <2>2, <2>5
    <3> HIDE DEF T
    <3>2. /\ InsertAt(put, j, lower) \in Seq(T) /\ Len(InsertAt(put, j, lower)) = Len(put) + 1
          /\ \A k \in 1..(Len(put) + 1) :
               InsertAt(put, j, lower)[k] = IF k < j THEN put[k] ELSE IF k = j THEN lower ELSE put[k - 1]
      BY ONLY <2>6, <3>1, InsertAtIs
    <3>3. ~(j < j)
      BY <1>1 DEF j
    <3> QED BY <2>6, <3>2, <3>3 DEF T
  <2>10. L \in Seq(Slices(g)) /\ j \in 1..Len(L) /\ 0 <= LenOf(L[j]) /\ 0 \in Nat
    <3>1. L \in Seq(Slices(g)) /\ Len(L) = Len(put) + 1 /\ L[j] = lower
      BY <2>6, <2>9
    <3> HIDE DEF L
    <3> QED BY <2>2, <2>6, <3>1
  <2>11. w = [h |-> g, e |-> Edit(e, L, j, 0, n)]
    <3>1. w = [h |-> g, e |-> [e EXCEPT !.lines = L, !.i = j, !.c = 0, !.height = n]]
      BY <1>2, <1>4 DEF SplitLine, Same, upper, lower, put, j, i
    <3> HIDE DEF L, n, w
    <3> DEFINE c == 0
    <3> HIDE DEF c
    <3>2. Edited(e, L, j, c, n) = Edit(e, L, j, c, n)
      BY <1>1, EditedIs
    <3>3. w = [h |-> g, e |-> Edited(e, L, j, c, n)]
      BY ONLY <3>1, Zenon DEF c, Edited
    <3>4. w = [h |-> g, e |-> Edit(e, L, j, c, n)]
      BY ONLY <3>2, <3>3
    <3> QED BY ONLY <3>4, Zenon DEF c
  <2>12. n \in Int
    BY <1>1, EditorAssumption DEF Fit
  <2> HIDE DEF L, t, w, n
  <2>13. Edits(g, e, w, [t |-> t, i |-> j, c |-> 0])
    <3>1. Slices(g) \subseteq Slices(g) /\ g \in Seq(Runes)
      BY <1>1
    <3> DEFINE c == 0
    <3>2. c \in Nat /\ c <= LenOf(L[j]) /\ w = [h |-> g, e |-> Edit(e, L, j, c, n)]
      BY <2>10, <2>11
    <3> HIDE DEF c
    <3>3. Edits(g, e, w, [t |-> t, i |-> j, c |-> c])
      BY ONLY <2>8, <2>10, <2>12, <3>1, <3>2, EditorAt(g, e), EditsIs
    <3> QED BY <3>3 DEF c
  <2> QED BY <1>2, <1>4, <2>13, Zenon DEF t, j, w
<1> QED BY <1>3, <1>4

(* A line goes. *)
Drops(g, L, i, r) ==
  /\ r \in Seq(Slices(g)) /\ Len(r) = Len(L) - 1 /\ TextsOf(g, r) = RemoveAt(TextsOf(g, L), i)
  /\ \A k \in 1..(Len(L) - 1) : r[k] = IF k < i THEN L[k] ELSE L[k + 1]

LEMMA DropIs ==
  ASSUME NEW g \in Seq(Runes), NEW L \in Seq(Slices(g)), NEW i \in 1..Len(L), NEW r, r = RemoveAt(L, i)
  PROVE  Drops(g, L, i, r)
<1> DEFINE T == Slices(g)
<1>1. L \in Seq(T)
  OBVIOUS
<1>2. TextsOf(g, r) = RemoveAt(TextsOf(g, L), i)
  BY TextsRemove
<1> HIDE DEF T
<1>3. r \in Seq(T) /\ Len(r) = Len(L) - 1
  BY <1>1, RemoveAtIs
<1>4. \A k \in 1..(Len(L) - 1) : r[k] = IF k < i THEN L[k] ELSE L[k + 1]
  BY <1>1, RemoveAtIs
<1> QED BY <1>2, <1>3, <1>4 DEF T, Drops

LEMMA EditorDelete ==
  ASSUME NEW g, NEW e, EditorAt(g, e), NEW v, v = Lines(g, e)
  PROVE  Edits(g, e, Deleted(g, e),
               IF v.c < Len(v.t[v.i]) THEN PutLine(v, Cut(v.t[v.i], v.c, v.c + 1), v.c)
               ELSE IF Len(v.t[v.i]) = 0 /\ Len(v.t) > 1
               THEN [t |-> RemoveAt(v.t, v.i), i |-> IF v.i < Len(v.t) THEN v.i ELSE v.i - 1, c |-> 0]
               ELSE v)
<1>1. /\ g \in Seq(Runes) /\ e \in EditorIn(g) /\ e.lines \in Seq(Slices(g)) /\ e.i \in 1..Len(e.lines)
      /\ Len(e.lines) \in Nat /\ e.i \in Nat /\ e.c \in Nat /\ e.height \in Int
  BY EditorParts
<1>2. /\ v.i = e.i /\ v.c = e.c /\ v.t = TextsOf(g, e.lines) /\ Len(v.t) = Len(e.lines)
      /\ Len(v.t[v.i]) = Width(e) /\ Width(e) \in Nat
  BY LinesAre
<1>3. CASE e.c < Width(e)
  <2> DEFINE n == e.c + 1  c == e.c
  <2>1. n \in Nat /\ n > 0 /\ n <= Width(e) /\ c \in Nat /\ c = e.c /\ c <= n - 1 /\ n - 1 = c
    BY <1>1, <1>2, <1>3
  <2>2. Deleted(g, e) = Rewritten(RemovedBefore(g, This(e), n), e, c)
    BY <1>3 DEF Deleted
  <2>5. n = c + 1
    OBVIOUS
  <2> HIDE DEF n, c
  <2>3. Edits(g, e, Rewritten(RemovedBefore(g, This(e), n), e, c), PutLine(v, Cut(v.t[v.i], n - 1, n), c))
    BY <2>1, RemovedIs
  <2>4. PutLine(v, Cut(v.t[v.i], n - 1, n), c) = PutLine(v, Cut(v.t[v.i], v.c, v.c + 1), v.c)
    BY ONLY <1>2, <2>1, <2>5
  <2>6. Edits(g, e, Deleted(g, e), PutLine(v, Cut(v.t[v.i], v.c, v.c + 1), v.c))
    BY ONLY <2>2, <2>3, <2>4
  <2> QED BY ONLY <1>2, <1>3, <2>6, Zenon
<1>4. CASE ~(e.c < Width(e)) /\ Width(e) = 0 /\ Len(e.lines) > 1
  <2> DEFINE L == RemoveAt(e.lines, e.i)  i == IF e.i < Len(e.lines) THEN e.i ELSE e.i - 1  c == 0  w == Deleted(g, e)
             n == e.height  t == RemoveAt(v.t, v.i)
  <2>1. w = [h |-> g, e |-> MovedTo(e, L, i, c)]
    BY <1>4 DEF Deleted, Same, MovedTo
  <2>2. /\ L \in Seq(Slices(g)) /\ Len(L) = Len(e.lines) - 1 /\ TextsOf(g, L) = t
    <3>1. L = RemoveAt(e.lines, e.i) /\ t = RemoveAt(TextsOf(g, e.lines), e.i)
      BY <1>2
    <3> HIDE DEF L, t
    <3>2. Drops(g, e.lines, e.i, L)
      BY <1>1, <3>1, DropIs
    <3> QED BY ONLY <3>1, <3>2 DEF Drops
  <2> HIDE DEF L, t, w
  <2>3. i \in 1..Len(L) /\ c \in Nat /\ Slices(g) \subseteq Slices(g)
    BY <1>1, <1>4, <2>2
  <2>4. LenOf(L[i]) \in Nat
    <3>1. L[i] \in Slices(g)
      BY <2>2, <2>3, SeqParts
    <3> QED BY <1>1, <3>1, SliceParts
  <2>5. c <= LenOf(L[i])
    BY <2>4
  <2>9. i = (IF v.i < Len(v.t) THEN v.i ELSE v.i - 1) /\ c = 0
    BY <1>2
  <2> HIDE DEF i, c
  <2>6. MovedTo(e, L, i, c) = Edit(e, L, i, c, e.height)
    BY <1>1, MovedToIs
  <2>7. n \in Int /\ w = [h |-> g, e |-> Edit(e, L, i, c, n)]
    BY <1>1, <2>1, <2>6
  <2> HIDE DEF n
  <2>8. Edits(g, e, w, [t |-> t, i |-> i, c |-> c])
    BY ONLY <1>1, <2>2, <2>3, <2>5, <2>7, EditorAt(g, e), EditsIs
  <2>10. [t |-> t, i |-> i, c |-> c] = [t |-> RemoveAt(v.t, v.i), i |-> IF v.i < Len(v.t) THEN v.i ELSE v.i - 1, c |-> 0]
    BY <2>9 DEF t
  <2> QED BY <1>2, <1>4, <2>8, <2>10 DEF w
<1>5. CASE ~(e.c < Width(e)) /\ ~(Width(e) = 0 /\ Len(e.lines) > 1)
  <2>1. Deleted(g, e) = Same(g, e)
    BY <1>5 DEF Deleted
  <2>2. Edits(g, e, Deleted(g, e), v)
    BY <2>1, SameIs
  <2> QED BY ONLY <1>2, <1>5, <2>2, Zenon
<1> QED BY <1>3, <1>4, <1>5

LEMMA EditorBackspace ==
  ASSUME NEW g, NEW e, EditorAt(g, e), NEW v, v = Lines(g, e)
  PROVE  Edits(g, e, Backspaced(g, e),
               IF v.c > 0 THEN PutLine(v, Cut(v.t[v.i], v.c - 1, v.c), v.c - 1)
               ELSE IF v.i = 1 THEN v
               ELSE [t |-> RemoveAt([v.t EXCEPT ![v.i - 1] = v.t[v.i - 1] \o v.t[v.i]], v.i),
                     i |-> v.i - 1, c |-> Len(v.t[v.i - 1])])
<1>1. /\ g \in Seq(Runes) /\ e \in EditorIn(g) /\ e.lines \in Seq(Slices(g)) /\ e.i \in 1..Len(e.lines)
      /\ Len(e.lines) \in Nat /\ e.i \in Nat /\ e.c \in Nat /\ This(e) \in Slices(g) /\ e.c <= LenOf(This(e))
      /\ \A k \in 1..Len(e.lines) : e.lines[k] \in Slices(g)
  BY EditorParts
<1>2. /\ v.i = e.i /\ v.c = e.c /\ v.t = TextsOf(g, e.lines) /\ Len(v.t) = Len(e.lines)
      /\ v.t[v.i] = Cells(g, This(e)) /\ v.t[v.i] \in Runes
      /\ \A k \in 1..Len(v.t) : v.t[k] = Cells(g, e.lines[k]) /\ Len(v.t[k]) = LenOf(e.lines[k])
  BY LinesAre
<1>3. CASE e.c > 0
  <2> DEFINE n == e.c  c == e.c - 1
  <2>1. n \in Nat /\ n > 0 /\ n <= Width(e) /\ c \in Nat /\ c = n - 1 /\ c <= n - 1
    BY <1>1, <1>3 DEF Width
  <2>2. Backspaced(g, e) = Rewritten(RemovedBefore(g, This(e), n), e, c)
    BY <1>3 DEF Backspaced
  <2>3. n = v.c
    BY <1>2
  <2> HIDE DEF n, c
  <2>4. Edits(g, e, Rewritten(RemovedBefore(g, This(e), n), e, c), PutLine(v, Cut(v.t[v.i], n - 1, n), c))
    BY <2>1, RemovedIs
  <2>5. Edits(g, e, Backspaced(g, e), PutLine(v, Cut(v.t[v.i], v.c - 1, v.c), v.c - 1))
    BY ONLY <2>1, <2>2, <2>3, <2>4
  <2> QED BY ONLY <1>2, <1>3, <2>5, Zenon
<1>4. CASE ~(e.c > 0) /\ e.i = 1
  <2>1. Backspaced(g, e) = Same(g, e)
    BY <1>4 DEF Backspaced
  <2>2. Edits(g, e, Backspaced(g, e), v)
    BY <2>1, SameIs
  <2> QED BY ONLY <1>2, <1>4, <2>2, Zenon
<1>5. CASE ~(e.c > 0) /\ e.i # 1
  <2> DEFINE lines == e.lines  i == e.i  j == e.i - 1  above == lines[j]  r == Appended(g, above, Cells(g, This(e)))
             s == r.s  g2 == r.h  put == [lines EXCEPT ![j] = s]  L == RemoveAt(put, i)  c == LenOf(above)
             n == Fit(Len(lines) - 1)  w == Backspaced(g, e)  u == v.t[j] \o v.t[i]
             t == RemoveAt([v.t EXCEPT ![j] = u], i)
  <2>1. j \in 1..Len(lines) /\ j \in Nat /\ i = j + 1 /\ j \in 1..(Len(lines) - 1)
    BY <1>1, <1>5
  <2>2. above \in Slices(g) /\ v.t[j] = Cells(g, above) /\ c = Len(v.t[j]) /\ c \in Nat
    BY <1>1, <1>2, <2>1, SliceParts
  <2>3. w = [h |-> g2, e |-> Edited(e, L, j, c, n)]
    BY <1>5 DEF Backspaced, Edited
  <2>4. Writes(g, r, above.array, u)
    BY <1>1, <1>2, <2>2, AppendedIs
  <2>5. /\ g2 \in Seq(Runes) /\ Slices(g) \subseteq Slices(g2) /\ s \in Slices(g2) /\ Cells(g2, s) = u
        /\ \A z \in Slices(g) : z.array # above.array => Cells(g2, z) = Cells(g, z)
    BY <2>4 DEF Writes
  <2>6. n \in Int
    BY <1>1, EditorAssumption DEF Fit
  <2>7. u \in Runes /\ Len(u) = c + Len(v.t[i]) /\ Len(v.t[i]) \in Nat
    <3> DEFINE a == v.t[j]  b == v.t[i]
    <3>1. a \in Runes /\ b \in Runes
      BY <1>1, <1>2, <2>2, CellsIs
    <3>2. Len(a) = c
      BY <2>2
    <3>3. u = a \o b
      OBVIOUS
    <3> HIDE DEF a, b, c, u
    <3>4. a \o b \in Runes /\ Len(a \o b) = Len(a) + Len(b) /\ Len(b) \in Nat
      BY ONLY <3>1, ConcatStart
    <3>5. u \in Runes /\ Len(u) = c + Len(b) /\ Len(b) \in Nat
      BY ONLY <3>2, <3>3, <3>4
    <3> QED BY <3>5 DEF b
  <2>8. \A k \in 1..Len(lines) : lines[k] \in Slices(g)
    BY <1>1
  <2>9. Apart(e) => \A k \in 1..Len(lines) : k # j => lines[k].array # above.array
    BY <1>1, <2>1 DEF Apart
  <2>10. put = [lines EXCEPT ![j] = s] /\ L = RemoveAt(put, i) /\ i \in 1..Len(lines) /\ lines \in Seq(Slices(g))
         /\ v.t = TextsOf(g, lines)
    BY <1>1, <1>2
  <2>11. t = RemoveAt([TextsOf(g, lines) EXCEPT ![j] = u], i)
    BY <2>10, Zenon
  <2>12. i = v.i /\ j = v.i - 1
    BY <1>2
  <2> HIDE DEF u, c, t, n, w, r, s, g2, put, L, above
  <2> HIDE DEF lines, j, i
  <2>13. PutIn(g, g2, lines, j, s, put)
    BY <2>1, <2>5, <2>10, TextsPut
  <2>14. put \in Seq(Slices(g2)) /\ Len(put) = Len(lines) /\ put[j] = s
    BY <2>13 DEF PutIn
  <2>15. Apart(e) => TextsOf(g2, put) = [TextsOf(g, lines) EXCEPT ![j] = u]
    BY <2>5, <2>8, <2>9, <2>13 DEF PutIn
  <2>16. /\ L \in Seq(Slices(g2)) /\ Len(L) = Len(put) - 1 /\ TextsOf(g2, L) = RemoveAt(TextsOf(g2, put), i)
         /\ \A k \in 1..(Len(put) - 1) : L[k] = IF k < i THEN put[k] ELSE put[k + 1]
    <3>1. g2 \in Seq(Runes) /\ put \in Seq(Slices(g2)) /\ i \in 1..Len(put) /\ L = RemoveAt(put, i)
      BY <2>5, <2>10, <2>14
    <3>2. Drops(g2, put, i, L)
      BY ONLY <3>1, DropIs
    <3> QED BY ONLY <3>2 DEF Drops
  <2>17. j \in 1..Len(L) /\ L[j] = s
    BY <2>1, <2>14, <2>16
  <2>18. Apart(e) => TextsOf(g2, L) = t
    BY <2>11, <2>15, <2>16
  <2>19. LenOf(s) = Len(u)
    BY <2>5, CellsIs
  <2>20. c <= LenOf(L[j])
    BY <2>2, <2>7, <2>17, <2>19
  <2>21. Edited(e, L, j, c, n) = Edit(e, L, j, c, n)
    BY <1>1, EditedIs
  <2>22. w = [h |-> g2, e |-> Edit(e, L, j, c, n)]
    BY <2>3, <2>21
  <2>23. c \in Nat
    BY <2>2
  <2>24. Edits(g, e, w, [t |-> t, i |-> j, c |-> c])
    BY ONLY <2>5, <2>6, <2>16, <2>17, <2>18, <2>20, <2>22, <2>23, EditorAt(g, e), EditsIs
  <2>25. [t |-> t, i |-> j, c |-> c] = [t |-> RemoveAt([v.t EXCEPT ![v.i - 1] = v.t[v.i - 1] \o v.t[v.i]], v.i),
                                        i |-> v.i - 1, c |-> Len(v.t[v.i - 1])]
    BY <2>2, <2>12, Zenon DEF t, u
  <2>26. ~(v.c > 0) /\ v.i # 1
    BY <1>2, <1>5
  <2> QED BY <2>24, <2>25, <2>26, Zenon DEF w
<1> QED BY <1>3, <1>4, <1>5

(* The cursor goes to another place. *)
ToPlace(v, i, c) == [t |-> v.t, i |-> i, c |-> c]

LEMMA GoesIs ==
  ASSUME NEW g, NEW e, EditorAt(g, e), NEW v, v = Lines(g, e), NEW i \in 1..Len(v.t), NEW c \in Nat, c <= Len(v.t[i])
  PROVE  Edits(g, e, Same(g, At(e, i, c)), ToPlace(v, i, c))
<1>1. Len(v.t) = Len(e.lines) /\ Len(v.t[i]) = LenOf(e.lines[i])
  BY LinesAre
<1>2. i \in 1..Len(e.lines) /\ c <= LenOf(e.lines[i])
  BY <1>1
<1> QED BY <1>2, AtIs DEF ToPlace

LEMMA EditorArrows ==
  ASSUME NEW g, NEW e, EditorAt(g, e), NEW v, v = Lines(g, e)
  PROVE  /\ Edits(g, e, Same(g, CursorUp(e)),
                  IF v.i > 1 THEN ToPlace(v, v.i - 1, IF v.c < Len(v.t[v.i - 1]) THEN v.c ELSE Len(v.t[v.i - 1])) ELSE v)
         /\ Edits(g, e, Same(g, CursorDown(e)),
                  IF v.i < Len(v.t)
                  THEN ToPlace(v, v.i + 1, IF v.c < Len(v.t[v.i + 1]) THEN v.c ELSE Len(v.t[v.i + 1])) ELSE v)
         /\ Edits(g, e, Same(g, CursorLeft(e)),
                  IF v.c > 0 THEN ToPlace(v, v.i, v.c - 1)
                  ELSE IF v.i > 1 THEN ToPlace(v, v.i - 1, Len(v.t[v.i - 1])) ELSE v)
         /\ Edits(g, e, Same(g, CursorRight(e)),
                  IF v.c < Len(v.t[v.i]) THEN ToPlace(v, v.i, v.c + 1)
                  ELSE IF v.i < Len(v.t) THEN ToPlace(v, v.i + 1, 0) ELSE v)
         /\ Edits(g, e, Same(g, At(e, e.i, 0)), ToPlace(v, v.i, 0))
         /\ Edits(g, e, Same(g, At(e, e.i, Width(e))), ToPlace(v, v.i, Len(v.t[v.i])))
<1>1. /\ v.i = e.i /\ v.c = e.c /\ Len(v.t) = Len(e.lines) /\ Len(v.t) \in Nat /\ v.i \in Nat /\ v.c \in Nat
      /\ v.i \in 1..Len(v.t) /\ v.c <= Len(v.t[v.i]) /\ Len(v.t[v.i]) = Width(e)
      /\ \A n \in 1..Len(v.t) : Len(v.t[n]) = LenOf(e.lines[n])
  BY LinesAre
<1>2. \A n \in 1..Len(v.t) : Len(v.t[n]) \in Nat
  <2>1. v.t \in Seq(Runes)
    BY LinesAre
  <2> QED BY <2>1, SeqParts DEF Runes
<1> DEFINE up == v.i - 1  down == v.i + 1  Short(n) == IF v.c < Len(v.t[n]) THEN v.c ELSE Len(v.t[n])
<1>3. \A n \in 1..Len(v.t) : Short(n) \in Nat /\ Short(n) <= Len(v.t[n]) /\ InLine(e, n) = At(e, n, Short(n))
  BY <1>1, <1>2 DEF InLine
<1>4. v.i > 1 => up \in 1..Len(v.t)
  BY <1>1
<1>5. v.i < Len(v.t) => down \in 1..Len(v.t)
  BY <1>1
<1>6. Edits(g, e, Same(g, e), v)
  BY SameIs
<1>7. up = e.i - 1 /\ down = e.i + 1
  BY <1>1
<1> HIDE DEF up, down, Short
<1>8. Edits(g, e, Same(g, CursorUp(e)), IF v.i > 1 THEN ToPlace(v, up, Short(up)) ELSE v)
  <2>1. CASE v.i > 1
    <3>1. CursorUp(e) = At(e, up, Short(up))
      BY <1>1, <1>3, <1>4, <1>7, <2>1 DEF CursorUp
    <3>2. Edits(g, e, Same(g, At(e, up, Short(up))), ToPlace(v, up, Short(up)))
      BY <1>3, <1>4, <2>1, GoesIs
    <3> QED BY <2>1, <3>1, <3>2
  <2>2. CASE ~(v.i > 1)
    <3>1. CursorUp(e) = e
      BY <1>1, <2>2 DEF CursorUp
    <3> QED BY <1>6, <2>2, <3>1
  <2> QED BY <2>1, <2>2
<1>9. Edits(g, e, Same(g, CursorDown(e)), IF v.i < Len(v.t) THEN ToPlace(v, down, Short(down)) ELSE v)
  <2>1. CASE v.i < Len(v.t)
    <3>1. CursorDown(e) = At(e, down, Short(down))
      BY <1>1, <1>3, <1>5, <1>7, <2>1 DEF CursorDown
    <3>2. Edits(g, e, Same(g, At(e, down, Short(down))), ToPlace(v, down, Short(down)))
      BY <1>3, <1>5, <2>1, GoesIs
    <3> QED BY <2>1, <3>1, <3>2
  <2>2. CASE ~(v.i < Len(v.t))
    <3>1. CursorDown(e) = e
      BY <1>1, <2>2 DEF CursorDown
    <3> QED BY <1>6, <2>2, <3>1
  <2> QED BY <2>1, <2>2
<1>10. Edits(g, e, Same(g, CursorLeft(e)),
             IF v.c > 0 THEN ToPlace(v, v.i, v.c - 1) ELSE IF v.i > 1 THEN ToPlace(v, up, Len(v.t[up])) ELSE v)
  <2>1. CASE v.c > 0
    <3> DEFINE c == v.c - 1
    <3>1. CursorLeft(e) = At(e, v.i, c)
      BY <1>1, <2>1 DEF CursorLeft
    <3>2. c \in Nat /\ c <= Len(v.t[v.i])
      BY <1>1, <1>2, <2>1
    <3> HIDE DEF c
    <3>3. Edits(g, e, Same(g, At(e, v.i, c)), ToPlace(v, v.i, c))
      BY <1>1, <3>2, GoesIs
    <3> QED BY <2>1, <3>1, <3>3 DEF c
  <2>2. CASE ~(v.c > 0) /\ v.i > 1
    <3> DEFINE c == Len(v.t[up])
    <3>1. c \in Nat /\ c <= Len(v.t[up])
      BY <1>2, <1>4, <2>2
    <3>2. CursorLeft(e) = At(e, up, c)
      BY <1>1, <1>4, <1>7, <2>2 DEF CursorLeft
    <3> HIDE DEF c
    <3>3. Edits(g, e, Same(g, At(e, up, c)), ToPlace(v, up, c))
      BY <1>4, <2>2, <3>1, GoesIs
    <3> QED BY <2>2, <3>2, <3>3 DEF c
  <2>3. CASE ~(v.c > 0) /\ ~(v.i > 1)
    <3>1. CursorLeft(e) = e
      BY <1>1, <2>3 DEF CursorLeft
    <3> QED BY <1>6, <2>3, <3>1
  <2> QED BY <2>1, <2>2, <2>3
<1>11. Edits(g, e, Same(g, CursorRight(e)),
             IF v.c < Len(v.t[v.i]) THEN ToPlace(v, v.i, v.c + 1)
             ELSE IF v.i < Len(v.t) THEN ToPlace(v, down, 0) ELSE v)
  <2>1. CASE v.c < Len(v.t[v.i])
    <3> DEFINE c == v.c + 1
    <3>1. CursorRight(e) = At(e, v.i, c)
      BY <1>1, <2>1 DEF CursorRight
    <3>2. c \in Nat /\ c <= Len(v.t[v.i])
      BY <1>1, <1>2, <2>1
    <3> HIDE DEF c
    <3>3. Edits(g, e, Same(g, At(e, v.i, c)), ToPlace(v, v.i, c))
      BY <1>1, <3>2, GoesIs
    <3> QED BY <2>1, <3>1, <3>3 DEF c
  <2>2. CASE ~(v.c < Len(v.t[v.i])) /\ v.i < Len(v.t)
    <3> DEFINE c == 0
    <3>1. c \in Nat /\ c <= Len(v.t[down])
      BY <1>2, <1>5, <2>2
    <3>2. CursorRight(e) = At(e, down, c)
      BY <1>1, <1>5, <1>7, <2>2 DEF CursorRight
    <3> HIDE DEF c
    <3>3. Edits(g, e, Same(g, At(e, down, c)), ToPlace(v, down, c))
      BY <1>5, <2>2, <3>1, GoesIs
    <3> QED BY <2>2, <3>2, <3>3 DEF c
  <2>3. CASE ~(v.c < Len(v.t[v.i])) /\ ~(v.i < Len(v.t))
    <3>1. CursorRight(e) = e
      BY <1>1, <2>3 DEF CursorRight
    <3> QED BY <1>6, <2>3, <3>1
  <2> QED BY <2>1, <2>2, <2>3
<1>12. Edits(g, e, Same(g, At(e, e.i, 0)), ToPlace(v, v.i, 0))
  <2> DEFINE c == 0
  <2>1. c \in Nat /\ c <= Len(v.t[v.i])
    BY <1>1, <1>2
  <2> HIDE DEF c
  <2>2. Edits(g, e, Same(g, At(e, v.i, c)), ToPlace(v, v.i, c))
    BY <1>1, <2>1, GoesIs
  <2> QED BY <1>1, <2>2 DEF c
<1>13. Edits(g, e, Same(g, At(e, e.i, Width(e))), ToPlace(v, v.i, Len(v.t[v.i])))
  <2> DEFINE c == Len(v.t[v.i])
  <2>1. c \in Nat /\ c <= Len(v.t[v.i]) /\ c = Width(e)
    BY <1>1, <1>2
  <2> HIDE DEF c
  <2>2. Edits(g, e, Same(g, At(e, v.i, c)), ToPlace(v, v.i, c))
    BY <1>1, <2>1, GoesIs
  <2> QED BY <1>1, <2>1, <2>2 DEF c
<1> QED BY ONLY <1>8, <1>9, <1>10, <1>11, <1>12, <1>13, Zenon DEF up, down, Short

(* What the keys mean, one by one *)

InPlace(v) == v = [t |-> v.t, i |-> v.i, c |-> v.c]

Puts(v, u, c) == [v EXCEPT !.t[v.i] = u, !.c = c]
PutsOnly(v, u) == [v EXCEPT !.t[v.i] = u]

LEMMA PutLineIs ==
  ASSUME NEW v, InPlace(v), NEW u, NEW c
  PROVE  /\ Puts(v, u, c) = PutLine(v, u, c)
         /\ PutsOnly(v, u) = PutLine(v, u, v.c)
         /\ \A i : AtPlace(v, i, c) = ToPlace(v, i, c)
<1> DEFINE t == [v.t EXCEPT ![v.i] = u]  T == {t, v.t, v.i, v.c, c}  S == [t : T, i : T, c : T]
<1>1. v \in S /\ t \in T /\ c \in T
  <2>1. [t |-> v.t, i |-> v.i, c |-> v.c] \in S
    OBVIOUS
  <2>2. t \in T /\ c \in T
    OBVIOUS
  <2> QED BY ONLY InPlace(v), <2>1, <2>2 DEF InPlace
<1> HIDE DEF t, T
<1>2. \A x \in S : x = [t |-> x.t, i |-> x.i, c |-> x.c]
  OBVIOUS
<1>3. [v EXCEPT !.t = t, !.c = c] = [t |-> t, i |-> v.i, c |-> c]
  <2> DEFINE w == [v EXCEPT !.t = t, !.c = c]
  <2>1. w \in S /\ w.t = t /\ w.i = v.i /\ w.c = c
    BY ONLY <1>1
  <2> HIDE DEF w
  <2>2. w = [t |-> t, i |-> v.i, c |-> c]
    BY ONLY <1>2, <2>1
  <2> QED BY <2>2 DEF w
<1>4. [v EXCEPT !.t = t] = [t |-> t, i |-> v.i, c |-> v.c]
  <2> DEFINE w == [v EXCEPT !.t = t]
  <2>1. w \in S /\ w.t = t /\ w.i = v.i /\ w.c = v.c
    BY ONLY <1>1
  <2> HIDE DEF w
  <2>2. w = [t |-> t, i |-> v.i, c |-> v.c]
    BY ONLY <1>2, <2>1
  <2> QED BY <2>2 DEF w
<1>5. ASSUME NEW i PROVE AtPlace(v, i, c) = ToPlace(v, i, c)
  <2> DEFINE w == [v EXCEPT !.i = i, !.c = c]  V == {v.t, v.i, v.c, i, c}  Z == [t : V, i : V, c : V]
  <2>1. v \in Z /\ i \in V /\ c \in V
    <3>1. [t |-> v.t, i |-> v.i, c |-> v.c] \in Z
      OBVIOUS
    <3>2. i \in V /\ c \in V
      OBVIOUS
    <3> QED BY ONLY InPlace(v), <3>1, <3>2 DEF InPlace
  <2> HIDE DEF V
  <2>2. \A x \in Z : x = [t |-> x.t, i |-> x.i, c |-> x.c]
    OBVIOUS
  <2>3. w \in Z /\ w.t = v.t /\ w.i = i /\ w.c = c
    BY ONLY <2>1
  <2> HIDE DEF w
  <2>4. w = [t |-> v.t, i |-> i, c |-> c]
    BY ONLY <2>2, <2>3
  <2> QED BY <2>4, Zenon DEF w, AtPlace, ToPlace
<1> QED BY <1>3, <1>4, <1>5, Zenon DEF t, PutLine, Puts, PutsOnly

(* The lines after a text is typed, a line is split, and one is deleted. *)
TypeMeans(v, u) == PutLine(v, InText(v.t[v.i], v.c, u), v.c + Len(u))
EnterMeans(v) ==
  IF Len(v.t) + 1 >= MaxHeight THEN v
  ELSE [t |-> InsertAt([v.t EXCEPT ![v.i] = SubSeq(v.t[v.i], 1, v.c)], v.i + 1,
                       SubSeq(v.t[v.i], v.c + 1, Len(v.t[v.i]))),
        i |-> v.i + 1, c |-> 0]
DeleteMeans(v) ==
  IF v.c < Len(v.t[v.i]) THEN PutLine(v, Cut(v.t[v.i], v.c, v.c + 1), v.c)
  ELSE IF Len(v.t[v.i]) = 0 /\ Len(v.t) > 1
  THEN [t |-> RemoveAt(v.t, v.i), i |-> IF v.i < Len(v.t) THEN v.i ELSE v.i - 1, c |-> 0]
  ELSE v
BackspaceMeans(v) ==
  IF v.c > 0 THEN PutLine(v, Cut(v.t[v.i], v.c - 1, v.c), v.c - 1)
  ELSE IF v.i = 1 THEN v
  ELSE [t |-> RemoveAt([v.t EXCEPT ![v.i - 1] = v.t[v.i - 1] \o v.t[v.i]], v.i),
        i |-> v.i - 1, c |-> Len(v.t[v.i - 1])]

PastesOne(k)  == k.op = "paste" /\ Len(PastedLines(k)) = 1
PastedText(k) == PastedLines(k)[1]

LEMMA EditorMeans ==
  ASSUME NEW g, NEW e, EditorAt(g, e), NEW v, v = Lines(g, e), NEW k
  PROVE  /\ k.op = "type" => Means(v, k) = TypeMeans(v, <<k.r>>)
         /\ k.op = "tab" => Means(v, k) = TypeMeans(v, Tabbed)
         /\ k.op = "enter" => Means(v, k) = EnterMeans(v)
         /\ k.op = "del" => Means(v, k) = DeleteMeans(v)
         /\ k.op = "bs" => Means(v, k) = BackspaceMeans(v)
<1> DEFINE line0 == v.t[v.i]  len == Len(line0)
<1>1. /\ v = [t |-> v.t, i |-> v.i, c |-> v.c] /\ Len(v.t) \in Nat /\ v.i \in 1..Len(v.t) /\ v.c \in Nat /\ v.i \in Nat
      /\ v.c <= Len(v.t[v.i]) /\ Len(v.t[v.i]) \in Nat
  BY LinesAre
<1>2. ASSUME NEW u, NEW c
      PROVE  /\ Puts(v, u, c) = PutLine(v, u, c)
             /\ PutsOnly(v, u) = PutLine(v, u, v.c)
  <2>1. InPlace(v)
    BY <1>1 DEF InPlace
  <2> QED BY ONLY <2>1, PutLineIs, SMT
<1>3. k.op = "type" => Means(v, k) = PutLine(v, InText(v.t[v.i], v.c, <<k.r>>), v.c + Len(<<k.r>>))
  <2> SUFFICES ASSUME k.op = "type" PROVE Means(v, k) = PutLine(v, InText(v.t[v.i], v.c, <<k.r>>), v.c + Len(<<k.r>>))
    OBVIOUS
  <2>1. Means(v, k) = Puts(v, InText(v.t[v.i], v.c, <<k.r>>), v.c + Len(<<k.r>>))
    BY <1>1 DEF Means, Puts
  <2> QED BY ONLY <1>2, <2>1, Zenon
<1>4. k.op = "tab" => Means(v, k) = PutLine(v, InText(v.t[v.i], v.c, Tabbed), v.c + Len(Tabbed))
  <2> SUFFICES ASSUME k.op = "tab" PROVE Means(v, k) = PutLine(v, InText(v.t[v.i], v.c, Tabbed), v.c + Len(Tabbed))
    OBVIOUS
  <2>1. Means(v, k) = Puts(v, InText(v.t[v.i], v.c, Tabbed), v.c + Len(Tabbed))
    BY <1>1 DEF Means, Puts
  <2> QED BY ONLY <1>2, <2>1, Zenon
<1>5. k.op = "enter" =>
        Means(v, k) = IF Len(v.t) + 1 >= MaxHeight THEN v
                      ELSE [t |-> InsertAt([v.t EXCEPT ![v.i] = SubSeq(v.t[v.i], 1, v.c)], v.i + 1,
                                           SubSeq(v.t[v.i], v.c + 1, Len(v.t[v.i]))),
                            i |-> v.i + 1, c |-> 0]
  <2>1. Len(v.t) + 1 < MaxHeight <=> ~(Len(v.t) + 1 >= MaxHeight)
    BY <1>1, EditorAssumption
  <2> QED BY <1>1, <2>1 DEF Means
<1>6. k.op = "del" =>
        Means(v, k) = IF v.c < Len(v.t[v.i]) THEN PutLine(v, Cut(v.t[v.i], v.c, v.c + 1), v.c)
                      ELSE IF Len(v.t[v.i]) = 0 /\ Len(v.t) > 1
                      THEN [t |-> RemoveAt(v.t, v.i), i |-> IF v.i < Len(v.t) THEN v.i ELSE v.i - 1, c |-> 0]
                      ELSE v
  <2> SUFFICES ASSUME k.op = "del"
               PROVE  Means(v, k) = IF v.c < Len(v.t[v.i]) THEN PutLine(v, Cut(v.t[v.i], v.c, v.c + 1), v.c)
                      ELSE IF Len(v.t[v.i]) = 0 /\ Len(v.t) > 1
                      THEN [t |-> RemoveAt(v.t, v.i), i |-> IF v.i < Len(v.t) THEN v.i ELSE v.i - 1, c |-> 0]
                      ELSE v
    OBVIOUS
  <2>1. CASE v.c < Len(v.t[v.i])
    <3>1. Means(v, k) = PutsOnly(v, Cut(v.t[v.i], v.c, v.c + 1))
      BY <1>1, <2>1 DEF Means, PutsOnly
    <3>2. Means(v, k) = PutLine(v, Cut(v.t[v.i], v.c, v.c + 1), v.c)
      BY ONLY <1>2, <3>1, Zenon
    <3> QED BY ONLY <2>1, <3>2, Zenon
  <2>2. CASE ~(v.c < Len(v.t[v.i])) /\ Len(v.t[v.i]) = 0 /\ Len(v.t) > 1
    <3>1. v.i < Len(v.t) <=> v.i # Len(v.t)
      BY <1>1
    <3> QED BY <1>1, <2>2, <3>1 DEF Means
  <2>3. CASE ~(v.c < Len(v.t[v.i])) /\ ~(Len(v.t[v.i]) = 0 /\ Len(v.t) > 1)
    BY <1>1, <2>3 DEF Means
  <2> QED BY ONLY <2>1, <2>2, <2>3, Zenon
<1>7. k.op = "bs" =>
        Means(v, k) = IF v.c > 0 THEN PutLine(v, Cut(v.t[v.i], v.c - 1, v.c), v.c - 1)
                      ELSE IF v.i = 1 THEN v
                      ELSE [t |-> RemoveAt([v.t EXCEPT ![v.i - 1] = v.t[v.i - 1] \o v.t[v.i]], v.i),
                            i |-> v.i - 1, c |-> Len(v.t[v.i - 1])]
  <2> SUFFICES ASSUME k.op = "bs"
               PROVE  Means(v, k) = IF v.c > 0 THEN PutLine(v, Cut(v.t[v.i], v.c - 1, v.c), v.c - 1)
                      ELSE IF v.i = 1 THEN v
                      ELSE [t |-> RemoveAt([v.t EXCEPT ![v.i - 1] = v.t[v.i - 1] \o v.t[v.i]], v.i),
                            i |-> v.i - 1, c |-> Len(v.t[v.i - 1])]
    OBVIOUS
  <2>1. CASE v.c > 0
    <3>1. Means(v, k) = Puts(v, Cut(v.t[v.i], v.c - 1, v.c), v.c - 1)
      BY <1>1, <2>1 DEF Means, Puts
    <3>2. Means(v, k) = PutLine(v, Cut(v.t[v.i], v.c - 1, v.c), v.c - 1)
      BY ONLY <1>2, <3>1, Zenon
    <3> QED BY ONLY <2>1, <3>2, Zenon
  <2>2. CASE ~(v.c > 0) /\ v.i # 1
    <3>1. v.c = 0 /\ v.i > 1
      BY <1>1, <2>2
    <3> QED BY <1>1, <2>2, <3>1 DEF Means
  <2>3. CASE ~(v.c > 0) /\ v.i = 1
    BY <1>1, <2>3 DEF Means
  <2> QED BY ONLY <2>1, <2>2, <2>3, Zenon
<1> QED
  BY ONLY <1>3, <1>4, <1>5, <1>6, <1>7, Zenon
     DEF TypeMeans, EnterMeans, DeleteMeans, BackspaceMeans

LEMMA PasteMeans ==
  ASSUME NEW g, NEW e, EditorAt(g, e), NEW v, v = Lines(g, e), NEW k, PastesOne(k)
  PROVE  Means(v, k) = TypeMeans(v, PastedText(k))
<1> DEFINE u == PastedLines(k)[1]
<1>1. /\ v = [t |-> v.t, i |-> v.i, c |-> v.c] /\ Len(v.t) \in Nat /\ v.i \in 1..Len(v.t) /\ v.c \in Nat /\ v.i \in Nat
      /\ v.c <= Len(v.t[v.i]) /\ Len(v.t[v.i]) \in Nat
  BY LinesAre
<1>2. Puts(v, InText(v.t[v.i], v.c, u), v.c + Len(u)) = PutLine(v, InText(v.t[v.i], v.c, u), v.c + Len(u))
  <2>1. InPlace(v)
    BY <1>1 DEF InPlace
  <2> QED BY ONLY <2>1, PutLineIs, Zenon
<1>3. k.op = "paste" /\ Len(PastedLines(k)) = 1
  BY DEF PastesOne
<1>4. Means(v, k) = Puts(v, InText(v.t[v.i], v.c, u), v.c + Len(u))
  BY <1>1, <1>3 DEF Means, Puts
<1> QED BY ONLY <1>2, <1>4, Zenon DEF TypeMeans, PastedText

LEMMA EditorMoves ==
  ASSUME NEW g, NEW e, EditorAt(g, e), NEW v, v = Lines(g, e), NEW k
  PROVE  /\ k.op = "up" =>
              Means(v, k) = IF v.i > 1
                            THEN ToPlace(v, v.i - 1, IF v.c < Len(v.t[v.i - 1]) THEN v.c ELSE Len(v.t[v.i - 1])) ELSE v
         /\ k.op = "down" =>
              Means(v, k) = IF v.i < Len(v.t)
                            THEN ToPlace(v, v.i + 1, IF v.c < Len(v.t[v.i + 1]) THEN v.c ELSE Len(v.t[v.i + 1])) ELSE v
         /\ k.op = "left" =>
              Means(v, k) = IF v.c > 0 THEN ToPlace(v, v.i, v.c - 1)
                            ELSE IF v.i > 1 THEN ToPlace(v, v.i - 1, Len(v.t[v.i - 1])) ELSE v
         /\ k.op = "right" =>
              Means(v, k) = IF v.c < Len(v.t[v.i]) THEN ToPlace(v, v.i, v.c + 1)
                            ELSE IF v.i < Len(v.t) THEN ToPlace(v, v.i + 1, 0) ELSE v
         /\ k.op = "ctrl-a" => Means(v, k) = ToPlace(v, v.i, 0)
         /\ k.op = "ctrl-e" => Means(v, k) = ToPlace(v, v.i, Len(v.t[v.i]))
<1> DEFINE Short(n) == IF v.c < Len(v.t[n]) THEN v.c ELSE Len(v.t[n])
<1>1. /\ v = [t |-> v.t, i |-> v.i, c |-> v.c] /\ Len(v.t) \in Nat /\ v.i \in 1..Len(v.t) /\ v.c \in Nat /\ v.i \in Nat
      /\ v.c <= Len(v.t[v.i]) /\ Len(v.t[v.i]) \in Nat
  BY LinesAre
<1>2. InPlace(v)
  BY <1>1 DEF InPlace
<1>3. \A i, c : AtPlace(v, i, c) = ToPlace(v, i, c)
  <2>1. ASSUME NEW c PROVE \A i : AtPlace(v, i, c) = ToPlace(v, i, c)
    BY ONLY <1>2, PutLineIs, Zenon
  <2> QED BY ONLY <2>1, Zenon
<1>4. Short(v.i) = v.c /\ ToPlace(v, v.i, v.c) = v
  BY <1>1 DEF ToPlace
<1>5. k.op = "up" => Means(v, k) = IF v.i > 1 THEN ToPlace(v, v.i - 1, Short(v.i - 1)) ELSE v
  <2> SUFFICES ASSUME k.op = "up" PROVE Means(v, k) = IF v.i > 1 THEN ToPlace(v, v.i - 1, Short(v.i - 1)) ELSE v
    OBVIOUS
  <2>1. CASE v.i > 1
    <3>1. Means(v, k) = AtPlace(v, v.i - 1, Short(v.i - 1))
      BY <1>1, <2>1 DEF Means
    <3> QED BY ONLY <1>3, <2>1, <3>1, Zenon
  <2>2. CASE ~(v.i > 1)
    <3>1. Means(v, k) = AtPlace(v, v.i, Short(v.i))
      BY <1>1, <2>2 DEF Means
    <3> QED BY ONLY <1>3, <1>4, <2>2, <3>1, Zenon
  <2> QED BY ONLY <2>1, <2>2, Zenon
<1>6. k.op = "down" => Means(v, k) = IF v.i < Len(v.t) THEN ToPlace(v, v.i + 1, Short(v.i + 1)) ELSE v
  <2> SUFFICES ASSUME k.op = "down"
               PROVE  Means(v, k) = IF v.i < Len(v.t) THEN ToPlace(v, v.i + 1, Short(v.i + 1)) ELSE v
    OBVIOUS
  <2>1. CASE v.i < Len(v.t)
    <3>1. Means(v, k) = AtPlace(v, v.i + 1, Short(v.i + 1))
      BY <1>1, <2>1 DEF Means
    <3> QED BY ONLY <1>3, <2>1, <3>1, Zenon
  <2>2. CASE ~(v.i < Len(v.t))
    <3>1. v.i = Len(v.t)
      BY <1>1, <2>2
    <3>2. Means(v, k) = AtPlace(v, v.i, Short(v.i))
      BY <1>1, <2>2, <3>1 DEF Means
    <3> QED BY ONLY <1>3, <1>4, <2>2, <3>2, Zenon
  <2> QED BY ONLY <2>1, <2>2, Zenon
<1>7. k.op = "left" =>
        Means(v, k) = IF v.c > 0 THEN ToPlace(v, v.i, v.c - 1)
                      ELSE IF v.i > 1 THEN ToPlace(v, v.i - 1, Len(v.t[v.i - 1])) ELSE v
  <2> SUFFICES ASSUME k.op = "left"
               PROVE  Means(v, k) = IF v.c > 0 THEN ToPlace(v, v.i, v.c - 1)
                                    ELSE IF v.i > 1 THEN ToPlace(v, v.i - 1, Len(v.t[v.i - 1])) ELSE v
    OBVIOUS
  <2>1. CASE v.c > 0
    <3>1. Means(v, k) = AtPlace(v, v.i, v.c - 1)
      BY <1>1, <2>1 DEF Means
    <3> QED BY ONLY <1>3, <2>1, <3>1, Zenon
  <2>2. CASE ~(v.c > 0) /\ v.i > 1
    <3>1. v.c = 0
      BY <1>1, <2>2
    <3>2. Means(v, k) = AtPlace(v, v.i - 1, Len(v.t[v.i - 1]))
      BY <1>1, <2>2, <3>1 DEF Means
    <3> QED BY ONLY <1>3, <2>2, <3>2, Zenon
  <2>3. CASE ~(v.c > 0) /\ ~(v.i > 1)
    BY <1>1, <2>3 DEF Means
  <2> QED BY ONLY <2>1, <2>2, <2>3, Zenon
<1>8. k.op = "right" =>
        Means(v, k) = IF v.c < Len(v.t[v.i]) THEN ToPlace(v, v.i, v.c + 1)
                      ELSE IF v.i < Len(v.t) THEN ToPlace(v, v.i + 1, 0) ELSE v
  <2> SUFFICES ASSUME k.op = "right"
               PROVE  Means(v, k) = IF v.c < Len(v.t[v.i]) THEN ToPlace(v, v.i, v.c + 1)
                                    ELSE IF v.i < Len(v.t) THEN ToPlace(v, v.i + 1, 0) ELSE v
    OBVIOUS
  <2>1. CASE v.c < Len(v.t[v.i])
    <3>1. Means(v, k) = AtPlace(v, v.i, v.c + 1)
      BY <1>1, <2>1 DEF Means
    <3> QED BY ONLY <1>3, <2>1, <3>1, Zenon
  <2>2. CASE ~(v.c < Len(v.t[v.i])) /\ v.i < Len(v.t)
    <3>1. v.c = Len(v.t[v.i]) /\ v.i # Len(v.t)
      BY <1>1, <2>2
    <3>2. Means(v, k) = AtPlace(v, v.i + 1, 0)
      BY <1>1, <2>2, <3>1 DEF Means
    <3> QED BY ONLY <1>3, <2>2, <3>2, Zenon
  <2>3. CASE ~(v.c < Len(v.t[v.i])) /\ ~(v.i < Len(v.t))
    <3>1. v.i = Len(v.t)
      BY <1>1, <2>3
    <3> QED BY <1>1, <2>3, <3>1 DEF Means
  <2> QED BY ONLY <2>1, <2>2, <2>3, Zenon
<1>9. k.op = "ctrl-a" => Means(v, k) = ToPlace(v, v.i, 0)
  <2> SUFFICES ASSUME k.op = "ctrl-a" PROVE Means(v, k) = ToPlace(v, v.i, 0)
    OBVIOUS
  <2>1. Means(v, k) = AtPlace(v, v.i, 0)
    BY <1>1 DEF Means
  <2> QED BY ONLY <1>3, <2>1, Zenon
<1>10. k.op = "ctrl-e" => Means(v, k) = ToPlace(v, v.i, Len(v.t[v.i]))
  <2> SUFFICES ASSUME k.op = "ctrl-e" PROVE Means(v, k) = ToPlace(v, v.i, Len(v.t[v.i]))
    OBVIOUS
  <2>1. Means(v, k) = AtPlace(v, v.i, Len(v.t[v.i]))
    BY <1>1 DEF Means
  <2> QED BY ONLY <1>3, <2>1, Zenon
<1> QED BY ONLY <1>5, <1>6, <1>7, <1>8, <1>9, <1>10, Zenon

(* A paste of two lines. *)
LEMMA EditorPastes ==
  ASSUME NEW g, NEW e, EditorAt(g, e), NEW first \in Runes, NEW second \in Runes,
         NEW r, r = Pasted(g, e, first, second)
  PROVE  EditorAt(r.h, r.e) /\ Slices(g) \subseteq Slices(r.h)
<1> DEFINE t == Typed(g, e, first)  g1 == t.h  e1 == t.e  i == e1.i  n == FromText(g1, second)
           g2 == n.h  none == FromText(g2, <<>>)  g3 == none.h
           lines == IF e.i = Len(e.lines) THEN Append(e1.lines, none.s) ELSE e1.lines
           j == i + 1  L == InsertAt(lines, j, n.s)  c == Len(second)  m == Fit(Len(L))
<1>1. EditorAt(g1, e1) /\ Slices(g) \subseteq Slices(g1)
  <2> DEFINE v == Lines(g, e)
  <2>1. v = Lines(g, e)
    OBVIOUS
  <2> HIDE DEF v
  <2>2. Edits(g, e, t, PutLine(v, InText(v.t[v.i], v.c, first), v.c + Len(first)))
    BY <2>1, TypedIs
  <2> QED BY <2>2 DEF Edits
<1>2. e1.i = e.i
  <2> DEFINE w == Inserted(g, This(e), e.c, first)  K == [e.lines EXCEPT ![e.i] = w.s]  d == e.c + Len(first)
  <2>1. t = [h |-> w.h, e |-> [e EXCEPT !.lines = K, !.c = d]]
    BY DEF Typed, Rewritten
  <2> HIDE DEF K, d, w
  <2>2. [e EXCEPT !.lines = K, !.c = d] = Edit(e, K, e.i, d, e.height)
    BY EditorParts, EditorWith
  <2>3. t.e = Edit(e, K, e.i, d, e.height)
    BY ONLY <2>1, <2>2
  <2> HIDE DEF t
  <2> QED BY <2>3 DEF Edit
<1>3. /\ g1 \in Seq(Runes) /\ e1 \in EditorIn(g1) /\ e1.lines \in Seq(Slices(g1)) /\ i \in 1..Len(e1.lines) /\ i \in Nat
      /\ Len(e1.lines) \in Nat
  BY <1>1, EditorParts
<1>4. r = [h |-> g3, e |-> [e1 EXCEPT !.lines = L, !.i = j, !.c = c, !.height = m]]
  BY <1>2 DEF Pasted
<1> HIDE DEF t, g1, e1
<1>5. /\ g2 \in Seq(Runes) /\ Slices(g1) \subseteq Slices(g2) /\ n.s \in Slices(g2) /\ Cells(g2, n.s) = second
  <2>1. n = FromText(g1, second)
    OBVIOUS
  <2> HIDE DEF n
  <2>2. Gives(g1, n, second)
    BY <1>3, <2>1, NewTextIs
  <2> QED BY <2>2 DEF Gives
<1> HIDE DEF n, g2
<1>6. /\ g3 \in Seq(Runes) /\ Slices(g2) \subseteq Slices(g3) /\ none.s \in Slices(g3)
  <2>1. none = FromText(g2, <<>>) /\ <<>> \in Runes
    BY DEF Runes
  <2> HIDE DEF none
  <2>2. Gives(g2, none, <<>>)
    BY <1>5, <2>1, NewTextIs
  <2> QED BY <2>2 DEF Gives
<1> HIDE DEF none, g3
<1>7. /\ lines \in Seq(Slices(g3)) /\ Len(lines) \in Nat /\ Len(lines) >= Len(e1.lines)
      /\ n.s \in Slices(g3) /\ Slices(g1) \subseteq Slices(g3)
  <2>1. e1.lines \in Seq(Slices(g3))
    BY <1>3, <1>5, <1>6, SeqOfMore
  <2> QED BY <1>3, <1>5, <1>6, <2>1
<1> HIDE DEF lines
<1>8. /\ L \in Seq(Slices(g3)) /\ Len(L) = Len(lines) + 1 /\ L[j] = n.s /\ j \in 1..Len(L)
  <2> DEFINE T == Slices(g3)
  <2>1. lines \in Seq(T) /\ n.s \in T /\ j \in 1..(Len(lines) + 1)
    BY <1>3, <1>7
  <2> HIDE DEF T, j
  <2>2. /\ L \in Seq(T) /\ Len(L) = Len(lines) + 1
        /\ \A k \in 1..(Len(lines) + 1) : L[k] = IF k < j THEN lines[k] ELSE IF k = j THEN n.s ELSE lines[k - 1]
    BY ONLY <2>1, InsertAtIs
  <2>3. ~(j < j)
    BY <1>3 DEF j
  <2> HIDE DEF L
  <2> QED BY <2>1, <2>2, <2>3 DEF T
<1>9. LenOf(n.s) = c /\ c \in Nat
  BY <1>5, CellsIs DEF Runes
<1>10. Len(L) \in Nat /\ m \in Int
  <2>1. Len(L) \in Nat
    BY <1>7, <1>8
  <2> HIDE DEF L
  <2> QED BY <2>1, EditorAssumption DEF Fit
<1> HIDE DEF L, j, c, m
<1>11. Edited(e1, L, j, c, m) = Edit(e1, L, j, c, m)
  BY <1>3, EditedIs
<1>12. r = [h |-> g3, e |-> Edit(e1, L, j, c, m)]
  BY ONLY <1>4, <1>11, Zenon DEF Edited
<1> DEFINE u == TextsOf(g3, L)
<1>13. (Apart(e1) => TextsOf(g3, L) = u) /\ c <= LenOf(L[j])
  BY <1>8, <1>9
<1> HIDE DEF u
<1>14. Edits(g1, e1, r, [t |-> u, i |-> j, c |-> c])
  BY ONLY <1>1, <1>6, <1>7, <1>8, <1>9, <1>10, <1>12, <1>13, EditsIs
<1> QED BY <1>1, <1>14 DEF Edits

(* Only what the filter searches changes. *)
(* How many lines are drawn is nothing of the text. *)
LEMMA PastedOneIs ==
  ASSUME NEW g, NEW e, EditorAt(g, e), NEW u, NEW v, Edits(g, e, Typed(g, e, u), v)
  PROVE  Edits(g, e, PastedOne(g, e, u), v)
<1> DEFINE t == Typed(g, e, u)  n == Fit(Len(e.lines))  r == PastedOne(g, e, u)
<1>1. t = [h |-> t.h, e |-> t.e]
  BY DEF Typed, Rewritten
<1>2. n \in Int
  BY EditorParts, EditorAssumption DEF Fit
<1>3. r = [t EXCEPT !.e.height = n]
  BY DEF PastedOne
<1> HIDE DEF t, n, r
<1>4. r.h = t.h /\ r.e = [t.e EXCEPT !.height = n]
  BY <1>1, <1>3
<1>5. EditorAt(t.h, t.e) /\ Slices(g) \subseteq Slices(t.h) /\ (Apart(e) => Lines(t.h, t.e) = v)
  BY DEF Edits, t
<1>6. /\ r.e \in EditorIn(t.h) /\ r.e.lines = t.e.lines /\ r.e.i = t.e.i /\ r.e.c = t.e.c
  BY <1>2, <1>4, <1>5 DEF EditorAt, EditorIn
<1>7. EditorAt(r.h, r.e)
  BY <1>4, <1>5, <1>6 DEF EditorAt
<1>8. Lines(r.h, r.e) = Lines(t.h, t.e)
  BY <1>4, <1>6 DEF Lines, Texts
<1> QED BY <1>4, <1>5, <1>7, <1>8 DEF Edits, r

LEMMA FilterTurns ==
  ASSUME NEW g, NEW e, EditorAt(g, e), NEW f \in Filters, NEW e2, e2 = [e EXCEPT !.filter = f]
  PROVE  EditorAt(g, e2) /\ Lines(g, e2) = Lines(g, e)
<1>1. e \in EditorIn(g)
  BY EditorParts
<1>2. e2 \in EditorIn(g)
  BY <1>1 DEF EditorIn
<1>3. e2.lines = e.lines /\ e2.i = e.i /\ e2.c = e.c
  BY <1>1 DEF EditorIn
<1>4. EditorAt(g, e2)
  BY <1>2, <1>3 DEF EditorAt
<1>5. Texts(g, e2) = Texts(g, e)
  BY ONLY <1>3, Zenon DEF Texts
<1> QED BY ONLY <1>3, <1>4, <1>5, Zenon DEF Lines

LEMMA FilterStarts == [NoFilter EXCEPT !.on = TRUE] \in Filters
<1>1. <<>> \in Runes
  BY DEF Runes
<1>2. NoFilter \in Filters
  BY <1>1 DEF NoFilter, Filters
<1> QED BY <1>2 DEF Filters

LEMMA TabbedIs == Tabbed \in Runes
<1> DEFINE sp == " "
<1>1. sp \in Rune
  BY LineInputAssumption, Zenon
<1>2. Tabbed = [k \in 1..TabWidth |-> sp]
  BY Zenon DEF Tabbed
<1> HIDE DEF sp
<1> QED BY <1>1, <1>2, EditorAssumption DEF Runes

(* What a key gives, and, of lines in arrays of their own, what it means.  *)
LEMMA EditorKeyIs ==
  ASSUME NEW g, NEW e, EditorAt(g, e), NEW k \in Keys, NEW r, r = EditorKey(g, e, k)
  PROVE  /\ EditorAt(r.h, r.e) /\ Slices(g) \subseteq Slices(r.h)
         /\ Single(k) /\ Apart(e) => Lines(r.h, r.e) = Means(Lines(g, e), k)
<1> DEFINE v == Lines(g, e)
           Done == /\ EditorAt(r.h, r.e) /\ Slices(g) \subseteq Slices(r.h)
                   /\ Single(k) /\ Apart(e) => Lines(r.h, r.e) = Means(v, k)
<1>1. v = Lines(g, e)
  OBVIOUS
<1> SUFFICES Done
  OBVIOUS
<1> HIDE DEF v
<1>2. Edits(g, e, r, Means(v, k)) => Done
  BY DEF Edits
<1> HIDE DEF Done
<1>3. CASE k.op = "type"
  <2>1. <<k.r>> \in Runes
    <3>1. k.r \in Rune
      BY <1>3, LineInputAssumption, Zenon
    <3> QED BY <3>1, OneRune
  <2>2. r = Typed(g, e, <<k.r>>)
    BY <1>3 DEF EditorKey
  <2>3. Edits(g, e, Typed(g, e, <<k.r>>), TypeMeans(v, <<k.r>>))
    BY ONLY EditorAt(g, e), <1>1, <2>1, TypedIs DEF TypeMeans
  <2>4. Means(v, k) = TypeMeans(v, <<k.r>>)
    BY ONLY EditorAt(g, e), <1>1, <1>3, EditorMeans
  <2> QED BY ONLY <1>2, <2>2, <2>3, <2>4
<1>4. CASE k.op = "tab"
  <2>1. r = Typed(g, e, Tabbed)
    BY <1>4 DEF EditorKey
  <2>2. Edits(g, e, Typed(g, e, Tabbed), TypeMeans(v, Tabbed))
    BY ONLY EditorAt(g, e), <1>1, TabbedIs, TypedIs DEF TypeMeans
  <2>3. Means(v, k) = TypeMeans(v, Tabbed)
    BY ONLY EditorAt(g, e), <1>1, <1>4, EditorMeans
  <2> QED BY ONLY <1>2, <2>1, <2>2, <2>3
<1>5. CASE k.op = "enter"
  <2>1. r = SplitLine(g, e)
    BY <1>5 DEF EditorKey
  <2>2. Edits(g, e, SplitLine(g, e), EnterMeans(v))
    BY ONLY EditorAt(g, e), <1>1, SplitLineIs DEF EnterMeans
  <2>3. Means(v, k) = EnterMeans(v)
    BY ONLY EditorAt(g, e), <1>1, <1>5, EditorMeans
  <2> QED BY ONLY <1>2, <2>1, <2>2, <2>3
<1>6. CASE k.op = "del"
  <2>1. r = Deleted(g, e)
    BY <1>6 DEF EditorKey
  <2>2. Edits(g, e, Deleted(g, e), DeleteMeans(v))
    BY ONLY EditorAt(g, e), <1>1, EditorDelete DEF DeleteMeans
  <2>3. Means(v, k) = DeleteMeans(v)
    BY ONLY EditorAt(g, e), <1>1, <1>6, EditorMeans
  <2> QED BY ONLY <1>2, <2>1, <2>2, <2>3
<1>7. CASE k.op = "bs"
  <2>1. r = Backspaced(g, e)
    BY <1>7 DEF EditorKey
  <2>2. Edits(g, e, Backspaced(g, e), BackspaceMeans(v))
    BY ONLY EditorAt(g, e), <1>1, EditorBackspace DEF BackspaceMeans
  <2>3. Means(v, k) = BackspaceMeans(v)
    BY ONLY EditorAt(g, e), <1>1, <1>7, EditorMeans
  <2> QED BY ONLY <1>2, <2>1, <2>2, <2>3
<1>8. CASE k.op = "up"
  <2>1. r = Same(g, CursorUp(e))
    BY <1>8 DEF EditorKey
  <2> QED BY <1>1, <1>2, <1>8, <2>1, EditorArrows, EditorMoves
<1>9. CASE k.op = "down"
  <2>1. r = Same(g, CursorDown(e))
    BY <1>9 DEF EditorKey
  <2> QED BY <1>1, <1>2, <1>9, <2>1, EditorArrows, EditorMoves
<1>10. CASE k.op = "left"
  <2>1. r = Same(g, CursorLeft(e))
    BY <1>10 DEF EditorKey
  <2> QED BY <1>1, <1>2, <1>10, <2>1, EditorArrows, EditorMoves
<1>11. CASE k.op = "right"
  <2>1. r = Same(g, CursorRight(e))
    BY <1>11 DEF EditorKey
  <2> QED BY <1>1, <1>2, <1>11, <2>1, EditorArrows, EditorMoves
<1>12. CASE k.op = "ctrl-a"
  <2>1. r = Same(g, At(e, e.i, 0))
    BY <1>12 DEF EditorKey
  <2> QED BY <1>1, <1>2, <1>12, <2>1, EditorArrows, EditorMoves
<1>13. CASE k.op = "ctrl-e"
  <2>1. r = Same(g, At(e, e.i, Width(e)))
    BY <1>13 DEF EditorKey
  <2> QED BY <1>1, <1>2, <1>13, <2>1, EditorArrows, EditorMoves
<1>14. CASE k.op = "ctrl-f"
  <2> DEFINE f == [NoFilter EXCEPT !.on = TRUE]  e2 == [e EXCEPT !.filter = f]
  <2>1. r = Same(g, e2)
    BY <1>14 DEF EditorKey
  <2>2. f \in Filters
    BY FilterStarts
  <2>3. e2 = [e EXCEPT !.filter = f]
    OBVIOUS
  <2> HIDE DEF f, e2
  <2>4. EditorAt(g, e2) /\ Lines(g, e2) = v
    BY <1>1, <2>2, <2>3, FilterTurns
  <2>5. Means(v, k) = v
    BY <1>14 DEF Means
  <2> QED BY <1>2, <2>1, <2>4, <2>5 DEF Edits, Same
<1>15. CASE k.op = "paste" /\ Len(PastedLines(k)) = 1
  <2> DEFINE u == PastedLines(k)[1]
  <2>1. u \in Runes
    <3>1. PastedLines(k) \in Seq(Runes) /\ Len(PastedLines(k)) \in 1..2
      BY <1>15, PastedIs
    <3> QED BY <3>1, SeqParts
  <2>2. r = PastedOne(g, e, u)
    BY <1>15 DEF EditorKey
  <2>3. Means(v, k) = TypeMeans(v, u)
    <3>1. PastesOne(k)
      BY <1>15 DEF PastesOne
    <3>2. Means(v, k) = TypeMeans(v, PastedText(k))
      BY ONLY EditorAt(g, e), <1>1, <3>1, PasteMeans
    <3> QED BY ONLY <3>2, Zenon DEF PastedText
  <2> HIDE DEF u
  <2>4. Edits(g, e, Typed(g, e, u), TypeMeans(v, u))
    BY ONLY EditorAt(g, e), <1>1, <2>1, TypedIs DEF TypeMeans
  <2>5. Edits(g, e, PastedOne(g, e, u), TypeMeans(v, u))
    BY ONLY EditorAt(g, e), <2>4, PastedOneIs
  <2> QED BY ONLY <1>2, <2>2, <2>3, <2>5
<1>16. CASE k.op = "paste" /\ Len(PastedLines(k)) # 1
  <2> DEFINE first == PastedLines(k)[1]  second == PastedLines(k)[2]
  <2>1. first \in Runes /\ second \in Runes
    <3>1. PastedLines(k) \in Seq(Runes) /\ Len(PastedLines(k)) = 2
      BY <1>16, PastedIs
    <3> QED BY <3>1, SeqParts
  <2>2. r = Pasted(g, e, first, second)
    BY <1>16 DEF EditorKey
  <2>3. ~Single(k)
    <3>1. Len(k.lines) = 1 => PastedLines(k) = <<FlattenSeq(k.lines)>>
      BY Zenon DEF PastedLines
    <3>2. Len(k.lines) # 1
      BY <1>16, <3>1
    <3> QED BY <1>16, <3>2 DEF Single
  <2> HIDE DEF first, second
  <2> QED BY <2>1, <2>2, <2>3, EditorPastes DEF Done
<1>17. CASE k.op \notin {"type", "tab", "enter", "del", "bs", "up", "down", "left", "right", "ctrl-a", "ctrl-e",
                         "ctrl-f", "paste"}
  <2>1. r = Same(g, e)
    BY <1>17 DEF EditorKey
  <2>2. Means(v, k) = v
    BY <1>17 DEF Means
  <2>3. Edits(g, e, Same(g, e), v)
    BY <1>1, SameIs
  <2> QED BY <1>2, <2>1, <2>2, <2>3
<1> QED BY ONLY <1>3, <1>4, <1>5, <1>6, <1>7, <1>8, <1>9, <1>10, <1>11, <1>12, <1>13, <1>14, <1>15, <1>16, <1>17

(* A key of the editor. *)
LEMMA EditKeyIs ==
  ASSUME Sound, ed # Closed, NEW k \in Keys, EditKey(k)
  PROVE  /\ Sound'
         /\ fate' = "edits" /\ Single(k) /\ Apart(ed) => Lines(h', ed') = Means(Lines(h, ed), k)
         /\ fate' \in {"edits", "panicked"}
<1> DEFINE r == EditorKey(h, ed, k)  g == r.h  e == r.e
<1>1. LineOK /\ EditorAt(h, ed)
  BY DEF Sound, EditorOK, EditorAt, LineOK
<1>2. /\ EditorAt(g, e) /\ Slices(h) \subseteq Slices(g)
      /\ Single(k) /\ Apart(ed) => Lines(g, e) = Means(Lines(h, ed), k)
  <2>1. r = EditorKey(h, ed, k)
    OBVIOUS
  <2> HIDE DEF r
  <2> QED BY <1>1, <2>1, EditorKeyIs
<1>3. line \in LineIn(g)
  BY <1>1, <1>2, LineLater DEF LineOK
<1>4. (Ends(g, line, e) /\ fate' = "edits") \/ Panics
  BY DEF EditKey
<1> HIDE DEF r
<1>5. CASE Ends(g, line, e) /\ fate' = "edits"
  <2>1. Sound' /\ SameEditor(g, e, h', ed')
    BY <1>2, <1>3, <1>5, EditSound
  <2>2. Lines(h', ed') = Lines(g, e)
    <3> DEFINE L == e.lines  L2 == ed'.lines  g2 == h'
    <3>1. /\ L \in Seq(Slices(g)) /\ L2 \in Seq(Slices(g2)) /\ Len(L2) = Len(L) /\ ed'.i = e.i /\ ed'.c = e.c
          /\ \A n \in 1..Len(L) : Cells(g2, L2[n]) = Cells(g, L[n])
      BY <1>2, <2>1, EditorParts DEF SameEditor, EditorIn
    <3>2. Texts(h', ed') = TextsOf(g2, L2) /\ Texts(g, e) = TextsOf(g, L)
      BY DEF Texts, TextsOf
    <3> HIDE DEF L, L2, g2
    <3>3. DOMAIN L = 1..Len(L) /\ DOMAIN L2 = 1..Len(L)
      BY <3>1, SeqParts
    <3>4. TextsOf(g2, L2) = TextsOf(g, L)
      BY <3>1, <3>3 DEF TextsOf
    <3> QED BY ONLY <3>1, <3>2, <3>4, Zenon DEF Lines
  <2> QED BY <1>2, <1>5, <2>1, <2>2
<1>6. CASE Panics
  <2>1. Sound' /\ fate' = "panicked"
    BY <1>6, LostSound DEF Panics, Lost
  <2> QED BY <2>1
<1> QED BY <1>4, <1>5, <1>6

-----------------------------------------------------------------------------
(* The filter of the editor *)

LEMMA FoundIs ==
  ASSUME NEW g, NEW e, EditorAt(g, e), NEW query
  PROVE  LinesFound(g, e, query) \in Seq(1..Len(e.lines))
<1> DEFINE n == Len(e.lines)
           Has(t) == \E f \in [DOMAIN query -> DOMAIN t] :
                       /\ \A p \in DOMAIN query : t[f[p]] = query[p]
                       /\ \A p, q \in DOMAIN query : p < q => f[p] < f[q]
           S == {k \in DOMAIN e.lines : Has(Cells(g, e.lines[k]))}
<1>1. LinesFound(g, e, query) = IF query = <<>> THEN <<>> ELSE InOrder(S)
  BY DEF LinesFound
<1>2. n \in Nat /\ DOMAIN e.lines = 1..n
  BY EditorParts, SeqParts
<1>3. S \subseteq 1..n
  BY <1>2
<1> HIDE DEF S, n
<1>4. InOrder(S) \in Seq(1..n)
  <2>1. S \in SUBSET (0..n)
    BY <1>2, <1>3
  <2>2. InOrder(S) \in Seq(S)
    BY <1>2, <2>1, InOrderIs
  <2> QED BY <1>3, <2>2, SeqOfMore
<1>5. <<>> \in Seq(1..n)
  OBVIOUS
<1> QED BY <1>1, <1>4, <1>5 DEF n

LEMMA ClampedIs ==
  ASSUME NEW g, NEW e, EditorAt(g, e), NEW query \in Runes, NEW index \in Nat
  PROVE  Clamped(g, e, query, index) \in Filters
<1> DEFINE n == Len(LinesFound(g, e, query))  m == IF n = 0 THEN 0 ELSE IF index < n THEN index ELSE n - 1
<1>1. n \in Nat
  BY FoundIs, SeqParts
<1>2. Clamped(g, e, query, index) = [on |-> TRUE, query |-> query, index |-> m]
  BY DEF Clamped
<1> HIDE DEF n
<1>3. m \in Nat
  BY <1>1
<1> HIDE DEF m
<1> QED BY <1>2, <1>3 DEF Filters

LEMMA ChosenIs ==
  ASSUME NEW g, NEW e, EditorAt(g, e), NEW r, r = Chosen(g, e)
  PROVE  EditorAt(g, r)
<1> DEFINE found == LinesFound(g, e, e.filter.query)  x == e.filter.index  i == found[x + 1]  c == LenOf(e.lines[i])
<1>1. found \in Seq(1..Len(e.lines)) /\ x \in Nat
  BY FoundIs, EditorParts DEF Filters
<1>2. ASSUME NEW w, EditorAt(g, w) PROVE EditorAt(g, FilterOff(w))
  BY <1>2, ClosedIs, FilterTurns DEF FilterOff
<1>3. r = IF x < Len(found) THEN FilterOff(At(e, i, c)) ELSE FilterOff(e)
  BY DEF Chosen
<1> HIDE DEF found, x
<1>4. CASE x < Len(found)
  <2>1. i \in 1..Len(e.lines)
    BY <1>1, <1>4, SeqParts
  <2> HIDE DEF i
  <2>2. c \in Nat /\ c <= LenOf(e.lines[i])
    <3>1. e.lines[i] \in Slices(g)
      BY <2>1, EditorParts
    <3>2. LenOf(e.lines[i]) \in Nat
      BY <3>1, SliceParts, EditorParts
    <3> QED BY <3>2
  <2> HIDE DEF c
  <2>3. Edits(g, e, Same(g, At(e, i, c)), [t |-> Lines(g, e).t, i |-> i, c |-> c])
    BY <2>1, <2>2, AtIs
  <2>4. EditorAt(g, At(e, i, c))
    BY <2>3 DEF Edits, Same
  <2> QED BY <1>2, <1>3, <1>4, <2>4
<1>5. CASE ~(x < Len(found))
  BY <1>2, <1>3, <1>5
<1> QED BY <1>4, <1>5

LEMMA FilteredIs ==
  ASSUME NEW g, NEW e, EditorAt(g, e), NEW k \in Keys, NEW r, r = Filtered(g, e, k)
  PROVE  EditorAt(g, r)
<1> DEFINE f == e.filter  n == Len(LinesFound(g, e, f.query))
           Filter(query, index) == [e EXCEPT !.filter = Clamped(g, e, query, index)]
<1>1. f \in Filters /\ f.query \in Runes /\ f.index \in Nat
  BY EditorParts DEF Filters
<1>2. n \in Nat
  BY FoundIs, SeqParts
<1>3. ASSUME NEW query \in Runes, NEW index \in Nat PROVE EditorAt(g, Filter(query, index))
  <2> DEFINE c == Clamped(g, e, query, index)
  <2>1. c \in Filters
    BY ClampedIs
  <2> HIDE DEF c
  <2> QED BY <2>1, FilterTurns DEF c
<1>4. EditorAt(g, FilterOff(e))
  BY ClosedIs, FilterTurns DEF FilterOff
<1>5. EditorAt(g, Chosen(g, e))
  BY ChosenIs
<1> HIDE DEF n, f
<1>6. CASE k.op = "enter"
  <2>1. r = Chosen(g, e)
    BY <1>6 DEF Filtered
  <2> QED BY <1>5, <2>1
<1>7. CASE k.op = "esc"
  <2>1. r = FilterOff(e)
    BY <1>7 DEF Filtered
  <2> QED BY <1>4, <2>1
<1>8. CASE k.op = "bs"
  <2> DEFINE q == IF f.query = <<>> THEN <<>> ELSE Front(f.query)
  <2>1. q \in Runes
    <3>1. <<>> \in Runes
      BY DEF Runes
    <3> QED BY <1>1, <3>1, FrontIs DEF Runes
  <2>2. r = Filter(q, f.index)
    BY <1>8 DEF Filtered, f
  <2> HIDE DEF q, Filter
  <2> QED BY <1>1, <1>3, <2>1, <2>2
<1>9. CASE k.op = "down"
  <2> DEFINE x == IF f.index + 1 < n THEN f.index + 1 ELSE f.index
  <2>1. x \in Nat
    BY <1>1, <1>2
  <2>2. r = Filter(f.query, x)
    BY <1>9 DEF Filtered, f, n
  <2> HIDE DEF x, Filter
  <2> QED BY <1>1, <1>3, <2>1, <2>2
<1>10. CASE k.op = "up"
  <2> DEFINE x == IF f.index > 0 THEN f.index - 1 ELSE 0
  <2>1. x \in Nat
    BY <1>1
  <2>2. r = Filter(f.query, x)
    BY <1>10 DEF Filtered, f
  <2> HIDE DEF x, Filter
  <2> QED BY <1>1, <1>3, <2>1, <2>2
<1>11. CASE k.op = "type"
  <2> DEFINE q == Append(f.query, k.r)
  <2>1. q \in Runes
    <3>1. k.r \in Rune
      BY <1>11, LineInputAssumption, Zenon
    <3> QED BY <1>1, <3>1 DEF Runes
  <2>2. r = Filter(q, f.index)
    BY <1>11 DEF Filtered, f
  <2> HIDE DEF q, Filter
  <2> QED BY <1>1, <1>3, <2>1, <2>2
<1>12. CASE k.op \notin {"enter", "esc", "bs", "down", "up", "type"}
  <2>1. r = Filter(f.query, f.index)
    BY <1>12 DEF Filtered, f
  <2> HIDE DEF Filter
  <2> QED BY <1>1, <1>3, <2>1
<1> QED BY ONLY <1>6, <1>7, <1>8, <1>9, <1>10, <1>11, <1>12

LEMMA FilterSound ==
  ASSUME Sound, ed # Closed, NEW k \in Keys, FilterKey(k)
  PROVE  Sound'
<1> DEFINE e == Filtered(h, ed, k)
<1>1. LineOK /\ EditorAt(h, ed)
  BY DEF Sound, EditorOK, EditorAt, LineOK
<1>2. EditorAt(h, e)
  BY <1>1, FilteredIs
<1>3. Ends(h, line, e) \/ Panics
  BY DEF FilterKey
<1> HIDE DEF e
<1>4. line \in LineIn(h)
  BY <1>1 DEF LineOK
<1>5. CASE Ends(h, line, e)
  BY <1>2, <1>4, <1>5, EditSound
<1>6. CASE Panics
  BY <1>6, LostSound DEF Panics, Lost
<1> QED BY <1>3, <1>5, <1>6

-----------------------------------------------------------------------------
(* What a step may do to the options shown *)

LEMMA ShownOK ==
  ASSUME HelpOK, NEW star \in Int, Shown(star)
  PROVE  HelpOK'
<1> DEFINE n == Len(Candidates(Cells(h', line'.word)))
<1>1. n \in Nat
  BY CandidatesIs, SeqParts
<1>2. help' = IF help.on THEN [on |-> TRUE, star |-> star, max |-> IF n = 0 THEN help.max ELSE n - 1] ELSE help
  BY DEF Shown
<1> HIDE DEF n
<1> QED BY <1>1, <1>2 DEF HelpOK

LEMMA OffOK ==
  ASSUME HelpOK, Off
  PROVE  HelpOK'
<1> DEFINE T == [on : BOOLEAN, star : Int, max : Int]  m == -1  w == [help EXCEPT !.on = FALSE, !.star = m]
<1>1. help' = w /\ help \in T
  BY DEF Off, HelpOK
<1>2. m \in Int
  OBVIOUS
<1> HIDE DEF m
<1>3. w \in T
  BY <1>1, <1>2
<1> QED BY ONLY <1>1, <1>3 DEF HelpOK

LEMMA TabOK ==
  ASSUME HelpOK, NEW k, Tab(k)
  PROVE  HelpOK'
<1> DEFINE n == Len(Offered)
<1>1. n \in Nat
  BY OfferedIs
<1>2. UNCHANGED help \/ Off \/ help' = [help EXCEPT !.on = TRUE, !.max = IF Offered = <<>> THEN @ ELSE n - 1]
  BY DEF Tab
<1> HIDE DEF n
<1>3. CASE help' = [help EXCEPT !.on = TRUE, !.max = IF Offered = <<>> THEN @ ELSE n - 1]
  <2> DEFINE T == [on : BOOLEAN, star : Int, max : Int]  m == IF Offered = <<>> THEN help.max ELSE n - 1
             w == [help EXCEPT !.on = TRUE, !.max = m]
  <2>1. m \in Int /\ help \in T /\ help' = w
    BY <1>1, <1>3 DEF HelpOK
  <2> HIDE DEF m
  <2>2. w \in T
    BY <2>1
  <2> QED BY ONLY <2>1, <2>2 DEF HelpOK
<1>4. CASE UNCHANGED help
  BY <1>4 DEF HelpOK
<1> QED BY <1>2, <1>3, <1>4, OffOK

(* The list is made again, put away or left as it is. *)
HelpStep == UNCHANGED help \/ Off \/ Shown(help.star) \/ Shown(-1) \/ \E n \in {-1, 1} : Shown(help.star + n)

LEMMA HelpStepOK ==
  ASSUME HelpOK, HelpStep
  PROVE  HelpOK'
<1>1. help.star \in Int
  BY DEF HelpOK
<1>2. CASE UNCHANGED help
  BY <1>2 DEF HelpOK
<1>3. CASE \E n \in {-1, 1} : Shown(help.star + n)
  <2>1. PICK n \in {-1, 1} : Shown(help.star + n)
    BY <1>3
  <2>2. help.star + n \in Int
    BY <1>1
  <2> QED BY <2>1, <2>2, ShownOK
<1>4. CASE Shown(help.star)
  BY <1>1, <1>4, ShownOK
<1>5. CASE Shown(-1)
  <2>1. -1 \in Int
    OBVIOUS
  <2> QED BY <1>5, <2>1, ShownOK
<1> QED BY <1>2, <1>3, <1>4, <1>5, OffOK DEF HelpStep

LEMMA LineHelp ==
  ASSUME NEW k, LineKey(k), ~Tab(k)
  PROVE  HelpStep
<1>1. ASSUME NEW cells, Insert(cells) PROVE HelpStep
  BY <1>1 DEF Insert, HelpStep
<1>2. CASE Type(k)
  BY <1>1, <1>2, Zenon DEF Type
<1>3. CASE Fast(k)
  BY <1>3, Zenon DEF Fast, HelpStep
<1>4. CASE Escape(k) \/ Garbled(k)
  BY <1>4 DEF Escape, Garbled, HelpStep
<1>5. CASE Space(k)
  BY <1>5, Zenon DEF Space, HelpStep
<1>6. CASE Backspace(k) \/ Delete(k)
  BY <1>6, Zenon DEF Backspace, Delete, HelpStep
<1>7. CASE KillAfter(k) \/ KillBefore(k)
  BY <1>7 DEF KillAfter, KillBefore, HelpStep
<1>8. CASE Home(k) \/ End(k)
  BY <1>8 DEF Home, End, HelpStep
<1>9. CASE Left(k)
  <2>1. help.star - 1 = help.star + (-1)
    OBVIOUS
  <2> QED BY <1>9, <2>1 DEF Left, HelpStep
<1>10. CASE Right(k)
  BY <1>10 DEF Right, HelpStep
<1>11. CASE IntoDirectory(k)
  BY <1>11, Zenon DEF IntoDirectory, HelpStep
<1>12. CASE TakeOption(k)
  BY <1>12, Zenon DEF TakeOption, HelpStep
<1>13. CASE OpenEditor(k)
  BY <1>13 DEF OpenEditor, HelpStep
<1> QED
  BY ONLY LineKey(k), ~Tab(k), <1>2, <1>3, <1>4, <1>5, <1>6, <1>7, <1>8, <1>9, <1>10, <1>11, <1>12, <1>13, Zenon DEF LineKey

LEMMA OtherHelp ==
  ASSUME NEW k
  PROVE  /\ Paste(k) => HelpStep
         /\ Break(k) \/ Suspend(k) \/ Enter(k) => HelpStep
         /\ BeginSearch(k) \/ SearchKey(k) => HelpStep
         /\ Up(k) => HelpStep
         /\ Down(k) => HelpStep
         /\ Choose(k) => HelpStep
         /\ InEditor(k) => HelpStep
<1>1. Paste(k) => HelpStep
  BY DEF Paste, Insert, HelpStep
<1>2. Break(k) \/ Suspend(k) \/ Enter(k) => HelpStep
  BY DEF Break, Suspend, Enter, HelpStep
<1>3. BeginSearch(k) \/ SearchKey(k) => HelpStep
  BY DEF BeginSearch, SearchKey, HelpStep
<1>4. Up(k) => HelpStep
  BY DEF Up, Recall, HelpStep
<1>5. Down(k) => HelpStep
  BY DEF Down, Recall, HelpStep
<1>6. Choose(k) => HelpStep
  BY DEF Choose, HelpStep
<1>7. InEditor(k) => HelpStep
  BY DEF InEditor, FilterKey, EditKey, CloseEditor, Accepted, HelpStep
<1> QED BY <1>1, <1>2, <1>3, <1>4, <1>5, <1>6, <1>7

LEMMA PressHelp ==
  ASSUME HelpOK, NEW k, Press(k)
  PROVE  HelpOK'
<1>1. \/ InEditor(k) \/ Paste(k) \/ Break(k) \/ Suspend(k) \/ SearchKey(k) \/ LineKey(k) \/ Enter(k) \/ BeginSearch(k)
      \/ Up(k) \/ Down(k) \/ Choose(k)
  BY Zenon DEF Press
<1>2. Tab(k) \/ HelpStep
  BY ONLY <1>1, LineHelp, OtherHelp, Zenon
<1> QED BY <1>2, TabOK, HelpStepOK

-----------------------------------------------------------------------------
(* What a step may do to the arrays and the line *)

LEMMA PanicSound ==
  ASSUME Sound, NEW how, Panics \/ Lost(how)
  PROVE  Sound'
BY LostSound DEF Panics, Lost

LEMMA LineSound ==
  ASSUME Sound, HelpOK, NEW k \in Keys, LineKey(k)
  PROVE  Sound'
<1>1. LineOK
  BY DEF Sound
<1>2. ASSUME NEW text, NEW cpos, Turns(text, cpos) PROVE Sound'
  BY <1>2, TurnsSound
<1>3. ASSUME NEW text, NEW cpos, Now(text, cpos) PROVE Sound'
  BY <1>3, NowSound
<1>4. Panics => Sound'
  BY PanicSound
<1>5. CASE Type(k) \/ Fast(k)
  BY ONLY <1>1, <1>2, <1>3, <1>4, <1>5, k \in Keys, ReadKeys, Zenon
<1>6. CASE Escape(k) \/ Home(k) \/ End(k) \/ Left(k) \/ Right(k)
  BY ONLY <1>1, <1>2, <1>6, CursorKeys, Zenon
<1>7. CASE Garbled(k)
  BY <1>7, PanicSound DEF Garbled
<1>8. CASE Space(k)
  BY ONLY <1>8, Sound, SpaceIs, Zenon
<1>9. CASE Backspace(k)
  <2>1. line.cpos > 0 \/ line.cpos = 0
    BY <1>1 DEF LineOK, LineIn
  <2> QED BY ONLY <1>1, <1>2, <1>9, <2>1, BackspaceIs, Zenon
<1>10. CASE Delete(k)
  BY ONLY <1>1, <1>2, <1>10, DeleteIs, Zenon
<1>11. CASE KillAfter(k)
  BY ONLY <1>1, <1>2, <1>4, <1>11, KillAfterIs, Zenon
<1>12. CASE KillBefore(k)
  BY ONLY <1>1, <1>2, <1>12, KillBeforeIs, Zenon
<1>13. CASE Tab(k) \/ IntoDirectory(k) \/ TakeOption(k)
  BY ONLY <1>1, <1>3, <1>4, <1>13, HelpOK, ChoosingKeys, Zenon DEF HelpOK
<1>14. CASE OpenEditor(k)
  BY ONLY <1>14, Sound, OpenSound, Zenon
<1> QED
  BY ONLY LineKey(k), <1>5, <1>6, <1>7, <1>8, <1>9, <1>10, <1>11, <1>12, <1>13, <1>14, Zenon DEF LineKey

LEMMA ReadSound ==
  ASSUME Sound, HelpOK, NEW k \in Keys, Paste(k) \/ Break(k) \/ Suspend(k) \/ Enter(k) \/ BeginSearch(k) \/ Choose(k)
  PROVE  Sound'
<1>1. LineOK
  BY DEF Sound
<1>2. ASSUME NEW text, NEW cpos, Turns(text, cpos) PROVE Sound'
  BY <1>2, TurnsSound
<1>3. ASSUME NEW text, NEW cpos, Now(text, cpos) PROVE Sound'
  BY <1>3, NowSound
<1>4. Panics => Sound'
  BY PanicSound
<1>5. CASE Paste(k)
  BY ONLY <1>1, <1>2, <1>4, <1>5, k \in Keys, ReadKeys, Zenon
<1>6. CASE Break(k) \/ Enter(k)
  BY <1>1, <1>6, ReturnsSound DEF Break, Enter
<1>7. CASE Suspend(k)
  BY ONLY <1>1, <1>2, <1>7, CursorKeys, Zenon
<1>8. CASE BeginSearch(k)
  <2>1. Keep(h, Draft(line)) \/ Stays
    BY <1>8 DEF BeginSearch
  <2>2. CASE Keep(h, Draft(line))
    <3>1. h \in Seq(Runes) /\ Draft(line) \in LineIn(h)
      BY <1>1, DraftLine DEF LineOK
    <3> QED BY <1>3, <2>2, <3>1, KeepIs
  <2>3. CASE Stays
    BY <1>1, <1>3, <2>3, StaysIs
  <2> QED BY <2>1, <2>2, <2>3
<1>9. CASE Choose(k)
  BY ONLY <1>1, <1>3, <1>4, <1>9, HelpOK, ChoosingKeys, Zenon DEF HelpOK
<1> QED BY <1>5, <1>6, <1>7, <1>8, <1>9

LEMMA EditorSound ==
  ASSUME Sound, ed # Closed, NEW k \in Keys, InEditor(k)
  PROVE  Sound'
<1>1. FilterKey(k) \/ EditKey(k) \/ CloseEditor(k)
  BY DEF InEditor
<1> QED BY <1>1, FilterSound, EditKeyIs, CloseSound

LEMMA PressSound ==
  ASSUME Sound, HistOK, NavOK, SearchOK, HelpOK, NEW k \in Keys, Press(k)
  PROVE  Sound'
<1>1. LineOK /\ mode' = mode
  BY DEF Sound, Press
<1>2. \/ ed # Closed /\ InEditor(k)
      \/ Paste(k) \/ Break(k) \/ Suspend(k) \/ LineKey(k) \/ Enter(k) \/ BeginSearch(k)
      \/ search.on /\ SearchKey(k)
      \/ UNCHANGED hist /\ (Up(k) \/ Down(k) \/ Choose(k))
  BY Zenon DEF Press
<1>3. CASE ed # Closed /\ InEditor(k)
  BY <1>3, EditorSound
<1>4. CASE Paste(k) \/ Break(k) \/ Suspend(k) \/ Enter(k) \/ BeginSearch(k) \/ Choose(k)
  BY <1>4, ReadSound
<1>5. CASE LineKey(k)
  BY <1>5, LineSound
<1>6. CASE search.on /\ SearchKey(k)
  BY <1>6, SearchSound
<1>7. CASE UNCHANGED hist /\ Up(k)
  BY ONLY <1>1, <1>7, HistOK, NavOK, UpIs, Zenon
<1>8. CASE UNCHANGED hist /\ Down(k)
  BY ONLY <1>1, <1>8, HistOK, NavOK, DownIs, Zenon
<1> QED BY ONLY <1>2, <1>3, <1>4, <1>5, <1>6, <1>7, <1>8, Zenon

-----------------------------------------------------------------------------
(* The history, the search and the next call *)

LEMMA EntryIs ==
  ASSUME HistOK, NEW entry \in Runes, AddToHistory(entry)
  PROVE  HistOK' /\ Len(hist) <= Len(hist')
<1> DEFINE all == Append(hist, entry)
<1>1. hist \in Seq(Runes) /\ all \in Seq(Runes) /\ Len(all) = Len(hist) + 1 /\ Len(hist) \in Nat
  BY DEF HistOK
<1>2. hist' = hist \/ hist' = Tail(all) \/ hist' = all
  BY DEF AddToHistory
<1> HIDE DEF all
<1>3. all # <<>> => Tail(all) \in Seq(Runes) /\ Len(Tail(all)) = Len(all) - 1
  BY <1>1
<1>4. all # <<>>
  BY <1>1
<1> QED BY <1>1, <1>2, <1>3, <1>4 DEF HistOK

(* The next call starts with arrays of its own. *)
LEMMA NewCall ==
  ASSUME NEW a \in Runes, NEW n \in Nat, n <= Len(a), NEW g, g = <<<<>>, <<>>, a, <<>>>>,
         NEW l, l = [s |-> Empty, orig |-> Empty, default |-> Slice(3, 0, n), word |-> Empty, cpos |-> 0]
  PROVE  g \in Seq(Runes) /\ l \in LineIn(g) /\ Closed \in EditorIn(g)
<1>1. <<>> \in Runes
  BY DEF Runes
<1>2. g \in Seq(Runes) /\ Len(g) = 4 /\ g[1] = <<>> /\ g[3] = a
  BY <1>1
<1>3. Empty \in Slices(g)
  <2> DEFINE z == 0  first == 1
  <2>1. z \in Nat /\ z <= z /\ first \in 1..Len(g) /\ z <= Len(g[first])
    BY <1>2
  <2> HIDE DEF z, first
  <2>2. Slice(first, z, z) \in Slices(g)
    BY <1>2, <2>1, SliceIs
  <2> QED BY ONLY <2>2, Zenon DEF z, first, Empty
<1>4. Slice(3, 0, n) \in Slices(g)
  <2> DEFINE z == 0  third == 3
  <2>1. z \in Nat /\ z <= n /\ third \in 1..Len(g) /\ n <= Len(g[third])
    BY <1>2
  <2> HIDE DEF z, third
  <2>2. Slice(third, z, n) \in Slices(g)
    BY <1>2, <2>1, SliceIs
  <2> QED BY <2>2 DEF z, third
<1>5. l \in LineIn(g)
  BY <1>3, <1>4 DEF LineIn
<1>6. Closed \in EditorIn(g)
  BY ClosedIs DEF EditorIn, Closed
<1> QED BY <1>2, <1>5, <1>6

LEMMA NothingOn ==
  /\ NoNav \in [on : BOOLEAN, cur : Nat] /\ ~NoNav.on
  /\ NoSearch \in [on : BOOLEAN, buffer : Runes, pick : Nat] /\ ~NoSearch.on
  /\ NoHelp \in [on : BOOLEAN, star : Int, max : Int]
<1>1. <<>> \in Runes
  BY DEF Runes
<1> QED BY <1>1 DEF NoNav, NoSearch, NoHelp

(* What the proofs keep from step to step. *)
Shape == Sound /\ HistOK /\ NavOK /\ SearchOK /\ HelpOK

LEMMA CallShape ==
  ASSUME Shape, Call
  PROVE  Shape'
<1>1. hist' = hist /\ HistOK
  BY DEF Call, Shape
<1>2. \E m, d : d \in Runes /\ Fresh(m, d)
  <2>1. <<>> \in Runes /\ Defaults \subseteq Runes
    <3>1. Defaults \subseteq Runes
      BY LineInputAssumption, Zenon
    <3> QED BY <3>1 DEF Runes
  <2> QED BY <2>1 DEF Call
<1>3. PICK m, d : d \in Runes /\ Fresh(m, d)
  BY <1>2
<1> DEFINE n == Len(d)  a == Cap(d, Paired(n))
<1>4. n \in Nat /\ n <= Len(a) /\ a \in Runes
  <2>1. n \in Nat
    BY <1>3 DEF Runes
  <2> QED BY <1>3, <2>1, PairedIs, CapIs
<1>5. /\ h' = <<<<>>, <<>>, a, <<>>>> /\ ed' = Closed /\ nav' = NoNav /\ search' = NoSearch /\ help' = NoHelp
      /\ line' = [s |-> Empty, orig |-> Empty, default |-> Slice(3, 0, n), word |-> Empty, cpos |-> 0]
  BY <1>3 DEF Fresh
<1> HIDE DEF n, a
<1>6. h' \in Seq(Runes) /\ line' \in LineIn(h') /\ ed' \in EditorIn(h')
  BY <1>4, <1>5, NewCall
<1>7. Sound'
  BY <1>5, <1>6 DEF Sound, LineOK, EditorOK
<1> QED BY <1>1, <1>5, <1>7, NothingOn DEF Shape, HistOK, NavOK, SearchOK, HelpOK

LEMMA FirstShape == Init => Shape
<1> SUFFICES ASSUME Init PROVE Shape
  OBVIOUS
<1> DEFINE n == 0  a == <<>>
<1>1. a \in Runes /\ n \in Nat /\ n <= Len(a)
  BY DEF Runes
<1>2. /\ h = <<<<>>, <<>>, a, <<>>>>
      /\ line = [s |-> Empty, orig |-> Empty, default |-> Slice(3, 0, n), word |-> Empty, cpos |-> 0]
      /\ ed = Closed /\ nav = NoNav /\ search = NoSearch /\ help = NoHelp /\ hist = <<>>
  BY DEF Init
<1> HIDE DEF n, a
<1>3. h \in Seq(Runes) /\ line \in LineIn(h) /\ ed \in EditorIn(h)
  BY <1>1, <1>2, NewCall
<1>4. Sound
  BY <1>2, <1>3 DEF Sound, LineOK, EditorOK
<1> QED BY <1>2, <1>4, NothingOn DEF Shape, HistOK, NavOK, SearchOK, HelpOK

LEMMA PressHist ==
  ASSUME Shape, NEW k \in Keys, Press(k)
  PROVE  HistOK' /\ NavOK' /\ SearchOK'
<1>1. /\ Sound /\ LineOK /\ HistOK /\ NavOK /\ SearchOK /\ mode' = mode
  BY DEF Shape, Sound, Press
<1>2. hist' = hist => HistOK'
  BY <1>1 DEF HistOK
<1>3. nav' = nav /\ hist' = hist => NavOK'
  BY <1>1 DEF NavOK
<1>4. search' = search /\ hist' = hist => SearchOK'
  BY <1>1 DEF SearchOK
<1>5. \/ UNCHANGED <<nav, hist, search>>
      \/ search.on /\ SearchKey(k)
      \/ ~search.on /\ UNCHANGED <<nav, search>> /\ Enter(k)
      \/ ~search.on /\ UNCHANGED <<nav, hist>> /\ BeginSearch(k)
      \/ ~search.on /\ UNCHANGED <<hist, search>> /\ (Up(k) \/ Down(k) \/ Choose(k))
  BY Zenon DEF Press, LineKey, InEditor
<1>6. CASE UNCHANGED <<nav, hist, search>>
  BY <1>2, <1>3, <1>4, <1>6
<1>7. CASE search.on /\ SearchKey(k)
  <2>1. nav' = nav /\ hist' = hist
    BY <1>7 DEF SearchKey
  <2> QED BY <1>1, <1>2, <1>3, <1>7, <2>1, SearchSound
<1>8. CASE ~search.on /\ UNCHANGED <<nav, search>> /\ Enter(k)
  <2>1. Text \in Runes
    BY <1>1, TextIs
  <2>2. AddToHistory(Text)
    BY <1>8 DEF Enter
  <2> DEFINE entry == Text
  <2> HIDE DEF entry
  <2>3. HistOK' /\ Len(hist) <= Len(hist')
    BY <1>1, <2>1, <2>2, EntryIs DEF entry
  <2>4. Len(hist) \in Nat /\ Len(hist') \in Nat
    BY <1>1, <2>3 DEF HistOK
  <2>5. NavOK'
    BY <1>1, <1>8, <2>3, <2>4 DEF NavOK
  <2>6. SearchOK'
    BY <1>1, <1>8 DEF SearchOK
  <2> QED BY <2>3, <2>5, <2>6
<1>9. CASE ~search.on /\ UNCHANGED <<nav, hist>> /\ BeginSearch(k)
  <2>1. search' = search \/ search' = [NoSearch EXCEPT !.on = TRUE]
    BY <1>9 DEF BeginSearch
  <2>2. CASE search' = [NoSearch EXCEPT !.on = TRUE]
    <3>1. search' \in [on : BOOLEAN, buffer : Runes, pick : Nat] /\ search'.pick = 0
      BY <2>2, NothingOn DEF NoSearch
    <3>2. SearchOK'
      BY <3>1 DEF SearchOK
    <3> QED BY <1>2, <1>3, <1>9, <3>2
  <2> QED BY <1>2, <1>3, <1>4, <1>9, <2>1, <2>2
<1>10. CASE ~search.on /\ UNCHANGED <<hist, search>> /\ (Up(k) \/ Down(k) \/ Choose(k))
  <2>1. Choose(k) => nav' = nav
    BY DEF Choose
  <2>2. Up(k) => NavOK'
    BY ONLY <1>1, <1>10, UpIs, Zenon
  <2>3. Down(k) => NavOK'
    BY ONLY <1>1, <1>10, DownIs, Zenon
  <2> QED BY <1>2, <1>3, <1>4, <1>10, <2>1, <2>2, <2>3
<1> QED BY <1>5, <1>6, <1>7, <1>8, <1>9, <1>10

LEMMA StepShape == Shape /\ [Next]_vars => Shape'
<1> SUFFICES ASSUME Shape, [Next]_vars PROVE Shape'
  OBVIOUS
<1>1. CASE Call
  BY <1>1, CallShape
<1>2. ASSUME NEW k \in Keys, Press(k) PROVE Shape'
  BY <1>2, PressHist, PressSound, PressHelp DEF Shape
<1>3. CASE UNCHANGED vars
  BY <1>3 DEF vars, Shape, Sound, LineOK, EditorOK, HistOK, NavOK, SearchOK, HelpOK
<1> QED BY <1>1, <1>2, <1>3 DEF Next

-----------------------------------------------------------------------------
(* The option taken *)

LEMMA BeginsIs ==
  ASSUME NEW a \in Runes, NEW b \in Runes
  PROVE  Begins(a, b) <=> Len(a) <= Len(b) /\ \A k \in 1..Len(a) : b[k] = a[k]
<1> DEFINE n == Len(a)  u == SubSeq(b, 1, n)
<1>1. a \in Seq(Rune) /\ b \in Seq(Rune) /\ n \in Nat /\ Len(b) \in Nat
  BY SeqParts DEF Runes
<1>2. Begins(a, b) <=> n <= Len(b) /\ u = a
  BY DEF Begins
<1>3. CASE n <= Len(b)
  <2>1. /\ u \in Seq(Rune) /\ Len(u) = IF 1 <= n THEN n - 1 + 1 ELSE 0
        /\ \A k \in 1..Len(u) : u[k] = b[1 + k - 1]
    BY <1>1, <1>3, PartOf
  <2> HIDE DEF u
  <2>2. Len(u) = n /\ \A k \in 1..n : u[k] = b[k]
    <3>1. Len(u) = n
      BY <1>1, <2>1
    <3>2. \A k \in 1..n : 1 + k - 1 = k
      BY <1>1
    <3> QED BY <2>1, <3>1, <3>2
  <2>3. u = a <=> \A k \in 1..n : u[k] = a[k]
    BY <1>1, <2>1, <2>2, SeqEqual
  <2> QED BY <1>2, <1>3, <2>2, <2>3
<1>4. CASE ~(n <= Len(b))
  BY <1>2, <1>4
<1> QED BY <1>3, <1>4

LEMMA ConcatIs ==
  ASSUME NEW a \in Runes, NEW b \in Runes
  PROVE  /\ a \o b \in Runes /\ Len(a \o b) = Len(a) + Len(b) /\ Len(a) \in Nat /\ Len(b) \in Nat
         /\ \A k \in 1..(Len(a) + Len(b)) : (a \o b)[k] = IF k <= Len(a) THEN a[k] ELSE b[k - Len(a)]
BY ConcatProperties, SeqParts DEF Runes

LEMMA ReplacesBegins ==
  ASSUME LineOK, ~PastEnd, NEW name \in Runes, NEW text \in Runes, Begins(name, text), Replaces(text)
  PROVE  fate' = "edits" /\ Begins(SubSeq(Text, 1, StartOf(Text, line.cpos, Separators)) \o name, Text')
<1> DEFINE start == StartOf(Text, line.cpos, Separators)  old == SubSeq(Text, 1, start)
<1>1. PICK cells \in Runes :
        /\ start <= Len(cells) /\ SubSeq(cells, 1, start) = old
        /\ \E cpos : Now(InText(cells, start, text), cpos)
  BY DEF Replaces
<1>2. start \in Nat
  BY TextIs, StartIs
<1> HIDE DEF start
<1>3. Text' = InText(cells, start, text) /\ fate' = "edits"
  BY <1>1 DEF Now, Text
<1>4. /\ Text' = (old \o text) \o SubSeq(cells, start + 1, Len(cells)) /\ Text' \in Runes
      /\ old \in Runes /\ old \o text \in Runes /\ Len(cells) \in Nat
  <2>1. /\ InText(cells, start, text) = (SubSeq(cells, 1, start) \o text) \o SubSeq(cells, start + 1, Len(cells))
        /\ InText(cells, start, text) \in Runes /\ SubSeq(cells, 1, start) \o text \in Runes
    BY ONLY <1>1, <1>2, text \in Runes, InTextIs
  <2>2. SubSeq(cells, 1, start) \in Runes
    <3> DEFINE z == 0
    <3>1. z \in Nat /\ start <= Len(cells)
      BY <1>1
    <3> HIDE DEF z
    <3>2. SubSeq(cells, z + 1, start) \in Runes
      BY <1>2, <3>1, TextPart
    <3> QED BY <3>2 DEF z
  <2>3. Len(cells) \in Nat
    BY SeqParts DEF Runes
  <2> QED BY ONLY <1>1, <1>3, <2>1, <2>2, <2>3
<1> DEFINE rest == SubSeq(cells, start + 1, Len(cells))  new == old \o text  goal == old \o name
<1>5. rest \in Runes
  <2>1. Len(cells) <= Len(cells)
    BY <1>4
  <2> QED BY <1>2, <1>4, <2>1, TextPart
<1> HIDE DEF old, rest
<1>6. /\ new \in Runes /\ Len(new) = Len(old) + Len(text) /\ Len(old) \in Nat /\ Len(text) \in Nat
      /\ \A k \in 1..(Len(old) + Len(text)) : new[k] = IF k <= Len(old) THEN old[k] ELSE text[k - Len(old)]
  BY <1>4, ConcatIs
<1>7. /\ goal \in Runes /\ Len(goal) = Len(old) + Len(name) /\ Len(name) \in Nat
      /\ \A k \in 1..(Len(old) + Len(name)) : goal[k] = IF k <= Len(old) THEN old[k] ELSE name[k - Len(old)]
  BY <1>4, ConcatIs
<1> HIDE DEF new, goal
<1>8. /\ new \o rest \in Runes /\ Len(new \o rest) = Len(new) + Len(rest) /\ Len(rest) \in Nat
      /\ \A k \in 1..(Len(new) + Len(rest)) : (new \o rest)[k] = IF k <= Len(new) THEN new[k] ELSE rest[k - Len(new)]
  BY <1>5, <1>6, ConcatIs
<1>9. Len(name) <= Len(text) /\ \A k \in 1..Len(name) : text[k] = name[k]
  BY BeginsIs
<1>10. Len(goal) <= Len(new \o rest) /\ \A k \in 1..Len(goal) : (new \o rest)[k] = goal[k]
  <2>1. Len(goal) <= Len(new) /\ Len(new) <= Len(new \o rest)
    BY <1>6, <1>7, <1>8, <1>9
  <2>2. ASSUME NEW k \in 1..Len(goal) PROVE (new \o rest)[k] = goal[k]
    <3>1. (new \o rest)[k] = new[k]
      BY <1>6, <1>7, <1>8, <2>1
    <3>2. CASE k <= Len(old)
      BY <1>6, <1>7, <1>9, <3>1, <3>2
    <3>3. CASE ~(k <= Len(old))
      <4>1. k - Len(old) \in 1..Len(name)
        BY <1>6, <1>7, <3>3
      <4>2. new[k] = text[k - Len(old)]
        BY <1>6, <1>7, <2>1, <3>3
      <4>3. goal[k] = name[k - Len(old)]
        BY <1>7, <3>3
      <4> QED BY ONLY <1>9, <3>1, <4>1, <4>2, <4>3
    <3> QED BY <3>2, <3>3
  <2> QED BY <1>6, <1>7, <1>8, <2>1, <2>2
<1>11. Begins(goal, new \o rest)
  BY <1>7, <1>8, <1>10, BeginsIs
<1>12. Text' = new \o rest
  BY <1>4 DEF new, rest
<1> QED BY <1>3, <1>11, <1>12 DEF goal, old, start

LEMMA EnterKeys ==
  ASSUME Plain, help.on, NEW k, Press(k), k.op = "enter"
  PROVE  IntoDirectory(k) \/ TakeOption(k)
<1>1. Type(k) => k.op = "type"
  BY Zenon DEF Type
<1>2. Space(k) => k.op = "type"
  BY Zenon DEF Space
<1>3. ~Type(k) /\ ~Space(k)
  BY <1>1, <1>2
<1>4. ~Paste(k) /\ ~Break(k) /\ ~Suspend(k) /\ ~Enter(k) /\ ~BeginSearch(k) /\ ~Up(k) /\ ~Down(k) /\ ~Choose(k)
  BY DEF Paste, Break, Suspend, Enter, BeginSearch, Up, Down, Choose
<1>5. /\ ~Fast(k) /\ ~Escape(k) /\ ~Garbled(k) /\ ~Backspace(k) /\ ~Delete(k) /\ ~KillAfter(k) /\ ~KillBefore(k)
      /\ ~Home(k) /\ ~End(k) /\ ~Left(k) /\ ~Right(k) /\ ~Tab(k) /\ ~OpenEditor(k)
  BY DEF Fast, Escape, Garbled, Backspace, Delete, KillAfter, KillBefore, Home, End, Left, Right, Tab, OpenEditor
<1> QED BY ONLY Plain, Press(k), <1>3, <1>4, <1>5, PlainKeys, Zenon DEF LineKey

LEMMA TakenIs ==
  ASSUME LineOK, HelpOK, Plain, help.on, ~PastEnd, help.star + 1 \in DOMAIN Offered,
         NEW k, Press(k), k.op = "enter",
         NEW name, name = Offered[help.star + 1].text, NEW old, old = SubSeq(Text, 1, StartOf(Text, line.cpos, Separators))
  PROVE  /\ fate' = "edits"
         /\ Begins(old \o name, Text') \/ (Contains(name, "(") /\ Begins(old \o Front(name), Text'))
<1> DEFINE n == help.star + 1  o == Offered[n]
<1>1. help.star \in Int
  BY DEF HelpOK
<1>2. Offered \in Seq(Option) /\ Len(Offered) \in Nat /\ DOMAIN Offered = 1..Len(Offered)
  BY OfferedIs, SeqParts
<1>3. n \in 1..Len(Offered) /\ o \in Option /\ AtKey[n] = o
  BY <1>2, OfferedIs
<1>4. name \in Runes /\ name = o.text
  BY <1>3 DEF Option
<1>5. Begins(name, name)
  <2>1. Len(name) \in Nat
    BY <1>4, SeqParts DEF Runes
  <2> QED BY <1>4, <2>1, BeginsIs
<1>6. CASE IntoDirectory(k)
  <2> DEFINE slash == "/"  text == Append(name, slash)
  <2>1. Replaces(text)
    BY ONLY LineOK, <1>1, <1>3, <1>4, <1>6, IntoDirectoryIs, Zenon
  <2>2. slash \in Rune
    BY LineInputAssumption, Zenon
  <2> HIDE DEF slash
  <2>3. text \in Runes /\ Len(text) = Len(name) + 1 /\ Len(name) \in Nat /\ \A j \in 1..Len(name) : text[j] = name[j]
    BY <1>4, <2>2 DEF Runes
  <2> HIDE DEF text
  <2>4. Begins(name, text)
    BY <1>4, <2>3, BeginsIs
  <2> QED BY ONLY LineOK, ~PastEnd, <1>4, <2>1, <2>3, <2>4, old = SubSeq(Text, 1, StartOf(Text, line.cpos, Separators)),
                  ReplacesBegins
<1>7. CASE TakeOption(k)
  <2>1. Take(o)
    <3>1. Offered # <<>> /\ ~(help.star = -1) /\ ~(help.star >= Len(Offered)) /\ help.star > -1
      BY <1>1, <1>2, <1>3
    <3> QED BY <1>7, <3>1 DEF TakeOption
  <2> DEFINE bracket == "("
  <2>2. Replaces(name) \/ (Contains(name, bracket) /\ Replaces(Front(name)))
    BY ONLY LineOK, <1>3, <1>4, <2>1, TakeIs, Zenon
  <2> HIDE DEF bracket
  <2>3. CASE Replaces(name)
    BY ONLY LineOK, ~PastEnd, <1>4, <1>5, <2>3, old = SubSeq(Text, 1, StartOf(Text, line.cpos, Separators)), ReplacesBegins
  <2>4. CASE Contains(name, bracket) /\ Replaces(Front(name))
    <3> DEFINE front == Front(name)
    <3>1. name # <<>>
      BY <2>4 DEF Contains
    <3>2. front \in Runes /\ Len(front) \in Nat
      BY <1>4, <3>1, FrontIs, SeqParts DEF Runes
    <3>3. Replaces(front)
      BY <2>4
    <3> HIDE DEF front
    <3>4. Begins(front, front)
      BY <3>2, BeginsIs
    <3>5. fate' = "edits" /\ Begins(old \o front, Text')
      BY ONLY LineOK, ~PastEnd, <3>2, <3>3, <3>4, old = SubSeq(Text, 1, StartOf(Text, line.cpos, Separators)), ReplacesBegins
    <3> QED BY ONLY <2>4, <3>5, Zenon DEF front, bracket
  <2> QED BY ONLY <2>2, <2>3, <2>4, Zenon
<1> QED BY <1>6, <1>7, EnterKeys

-----------------------------------------------------------------------------
(* The arrays, the line, the lines of the editor, the history, the search  *)
(* and the options keep their shape: every slice lies in its array, the    *)
(* history shown, the result chosen and the cursor of the editor exist.    *)
THEOREM LineShape == Spec => []Shape
<1>1. Init => Shape
  BY FirstShape
<1>2. Shape /\ [Next]_vars => Shape'
  BY StepShape
<1> QED BY <1>1, <1>2, PTL DEF Spec

(* With the cursor in the line every editing key does to the text, the     *)
(* cursor and the draft what it is for, and nothing panics (insertAt,      *)
(* removeBefore, insertWord and the history keys of getInput).             *)
THEOREM KeysAsMeant == Spec => AsMeant
<1> DEFINE A == Plain /\ ~help.on /\ ~PastEnd /\ DraftApart /\ mode # "box"
                /\ key'.op \in EditOps /\ Single(key') /\ ~Leaves(key'.op) =>
                  fate' = "edits" /\ View' = LineMeans(View, key')
<1>1. Shape /\ [Next]_vars => [A]_vars
  <2> SUFFICES ASSUME Shape, Next, Plain, ~help.on, ~PastEnd, DraftApart, mode # "box",
                      key'.op \in EditOps, Single(key')
               PROVE  fate' = "edits" /\ View' = LineMeans(View, key')
    BY DEF A
  <2>1. ~Call
    BY DEF Call, Plain
  <2>2. PICK k \in Keys : Press(k)
    BY <2>1 DEF Next
  <2>3. key' = k
    BY <2>2 DEF Press
  <2>4. Sound /\ HistOK /\ NavOK
    BY DEF Shape
  <2>5. k.op \in EditOps /\ Single(k)
    BY <2>3
  <2>6. fate' = "edits" /\ View' = LineMeans(View, k)
    BY ONLY Plain, ~help.on, ~PastEnd, DraftApart, mode # "box", <2>2, <2>4, <2>5, MeantIs
  <2> QED BY ONLY <2>3, <2>6
<1>2. Init => Shape
  BY FirstShape
<1>3. Shape /\ [Next]_vars => Shape'
  BY StepShape
<1> QED BY <1>1, <1>2, <1>3, PTL DEF Spec, AsMeant, A

(* ENTER on a starred option puts that option where the word began, and    *)
(* keeps what was before it (deleteWord and insertWord of getInput).       *)
THEOREM StarTaken == Spec => StarredTaken
<1>1. Shape /\ [Next]_vars =>
        [Plain /\ help.on /\ ~PastEnd /\ help.star + 1 \in DOMAIN Offered /\ key'.op = "enter" =>
           LET start == StartOf(Text, line.cpos, Separators)
               name  == Offered[help.star + 1].text
               old   == SubSeq(Text, 1, start)
           IN  /\ fate' = "edits"
               /\ \/ Begins(old \o name, Text')
                  \/ Contains(name, "(") /\ Begins(old \o Front(name), Text')]_vars
  <2> DEFINE name == Offered[help.star + 1].text  old == SubSeq(Text, 1, StartOf(Text, line.cpos, Separators))
  <2>1. ASSUME Shape, Next, Plain, help.on, ~PastEnd, help.star + 1 \in DOMAIN Offered, key'.op = "enter"
        PROVE  /\ fate' = "edits"
               /\ Begins(old \o name, Text') \/ (Contains(name, "(") /\ Begins(old \o Front(name), Text'))
    <3>1. ~Call
      BY <2>1 DEF Call, Plain
    <3>2. PICK k \in Keys : Press(k)
      BY <2>1, <3>1 DEF Next
    <3>3. k.op = "enter"
      BY <2>1, <3>2 DEF Press
    <3>4. LineOK /\ HelpOK
      BY <2>1 DEF Shape, Sound
    <3> QED BY ONLY <2>1, <3>2, <3>3, <3>4, TakenIs, Zenon
  <2> QED BY ONLY <2>1, Zenon
<1>2. Init => Shape
  BY FirstShape
<1>3. Shape /\ [Next]_vars => Shape'
  BY StepShape
<1> QED BY <1>1, <1>2, <1>3, PTL DEF Spec, StarredTaken

(* What is drawn in the editor of several lines *)

DrawnOK == ed # Closed => ed.height <= Len(ed.lines)

FitIs == \A n \in Nat : Fit(n) \in Nat /\ Fit(n) <= n

LEMMA FitsIs == FitIs
BY EditorAssumption DEF FitIs, Fit

LEMMA LinePut ==
  ASSUME NEW L, NEW S, L \in Seq(S), NEW i \in 1..Len(L), NEW s, NEW n, NEW put, put = [L EXCEPT ![i] = s]
  PROVE  /\ put \in Seq(S \union {s, n}) /\ Len(put) = Len(L) /\ Len(L) \in Nat
         /\ n \in S \union {s, n}
<1> DEFINE T == S \union {s, n}
<1>1. Len(L) \in Nat /\ DOMAIN L = 1..Len(L) /\ \A k \in 1..Len(L) : L[k] \in S
  BY SeqParts
<1>2. put \in [1..Len(L) -> T] /\ n \in T
  BY <1>1
<1> HIDE DEF T
<1>3. put \in Seq(T) /\ Len(put) = Len(L)
  BY ONLY <1>1, <1>2, SeqIs
<1> QED BY <1>1, <1>2, <1>3 DEF T

LEMMA LinesFewer ==
  ASSUME NEW L, NEW S, L \in Seq(S), NEW i \in 1..Len(L), i < Len(L), NEW s, NEW put, put = [L EXCEPT ![i] = s]
  PROVE  Len(RemoveAt(put, i + 1)) = Len(L) - 1
<1> DEFINE T == S \union {s}  j == i + 1
<1>1. put \in Seq(T) /\ Len(put) = Len(L) /\ Len(L) \in Nat
  <2>1. put \in Seq(S \union {s, s}) /\ Len(put) = Len(L) /\ Len(L) \in Nat
    BY LinePut
  <2>2. {s, s} = {s}
    OBVIOUS
  <2> QED BY <2>1, <2>2
<1>2. j \in 1..Len(put)
  BY <1>1
<1> HIDE DEF T, j
<1>3. Len(RemoveAt(put, j)) = Len(put) - 1
  BY ONLY <1>1, <1>2, RemoveAtIs
<1> QED BY <1>1, <1>3 DEF j

(* After a key there are as many lines as are drawn, but for the DEL that  *)
(* takes away an empty line when all are drawn.                            *)
LEMMA EditorDraws ==
  ASSUME NEW g, NEW e, EditorAt(g, e), e.height <= Len(e.lines), NEW k \in Keys,
         ~(k.op = "del" /\ Width(e) = 0 /\ Len(e.lines) > 1 /\ e.height = Len(e.lines)),
         NEW r, r = EditorKey(g, e, k)
  PROVE  r.e.height <= Len(r.e.lines)
<1>1. /\ e.lines \in Seq(Slices(g)) /\ Len(e.lines) \in Nat /\ e.i \in 1..Len(e.lines) /\ e.height \in Int
      /\ e \in EditorIn(g)
  BY EditorParts
<1>3. ASSUME NEW d, NEW c
      PROVE  /\ Rewritten(d, e, c).e.height = e.height
             /\ Len(Rewritten(d, e, c).e.lines) = Len(e.lines)
  <2> DEFINE e2 == [e EXCEPT !.lines[e.i] = d.s, !.c = c]
  <2>1. Rewritten(d, e, c).e = e2
    BY DEF Rewritten
  <2>2. e2.height = e.height /\ e2.lines = [e.lines EXCEPT ![e.i] = d.s]
    BY <1>1 DEF EditorIn
  <2>3. Len([e.lines EXCEPT ![e.i] = d.s]) = Len(e.lines)
    BY <1>1
  <2> QED BY <2>1, <2>2, <2>3
<1>4. ASSUME NEW i, NEW c
      PROVE  At(e, i, c).height = e.height /\ At(e, i, c).lines = e.lines
  BY <1>1 DEF At, EditorIn
<1>5. ASSUME NEW u PROVE Typed(g, e, u).e.height <= Len(Typed(g, e, u).e.lines)
  BY <1>1, <1>3 DEF Typed
<1>6. CASE k.op \in {"type", "tab"}
  BY <1>5, <1>6 DEF EditorKey
<1>7. CASE k.op = "enter"
  <2> DEFINE upper == Prefix(This(e), e.c)  lower == Suffix(This(e), e.c)  m == Len(e.lines) + 1
             L == InsertAt([e.lines EXCEPT ![e.i] = upper], e.i + 1, lower)
  <2>1. r = IF m >= MaxHeight THEN Same(g, e)
            ELSE Same(g, [e EXCEPT !.lines = L, !.i = @ + 1, !.c = 0, !.height = Fit(m)])
    BY <1>7 DEF EditorKey, SplitLine
  <2>2. Len(L) = m
    <3> DEFINE S == Slices(g)  lines == e.lines  i == e.i
    <3>1. lines \in Seq(S) /\ i \in 1..Len(lines)
      BY <1>1
    <3> HIDE DEF S, lines, i
    <3> DEFINE put == [lines EXCEPT ![i] = upper]  j == i + 1  T == S \union {upper, lower}
    <3> HIDE DEF upper, lower
    <3>2. put \in Seq(T) /\ Len(put) = Len(lines) /\ Len(lines) \in Nat /\ lower \in T
      BY <3>1, LinePut
    <3>4. j \in 1..(Len(put) + 1)
      BY <3>1, <3>2
    <3>5. put = [lines EXCEPT ![i] = upper] /\ j = i + 1
      OBVIOUS
    <3> HIDE DEF put, j, T
    <3>6. Len(InsertAt(put, j, lower)) = Len(put) + 1
      BY ONLY <3>2, <3>4, InsertAtIs
    <3>7. InsertAt([lines EXCEPT ![i] = upper], i + 1, lower) = InsertAt(put, j, lower)
      BY ONLY <3>5
    <3>8. Len(InsertAt([lines EXCEPT ![i] = upper], i + 1, lower)) = Len(lines) + 1
      BY ONLY <3>2, <3>6, <3>7
    <3> QED BY <3>8 DEF lines, i
  <2>3. Fit(m) \in Nat /\ Fit(m) <= m
    BY <1>1, FitsIs DEF FitIs
  <2> HIDE DEF L, m
  <2>4. ASSUME ~(m >= MaxHeight) PROVE r.e.height = Fit(m) /\ r.e.lines = L
    <3> DEFINE j == e.i + 1  c == 0  n == Fit(m)
    <3>1. r.e = Edited(e, L, j, c, n)
      BY <2>1, <2>4 DEF Same, Edited
    <3> HIDE DEF j, c, n
    <3>2. r.e = Edit(e, L, j, c, n)
      BY <1>1, <3>1, EditedIs
    <3> QED BY <3>2 DEF Edit, n
  <2>5. ASSUME m >= MaxHeight PROVE r.e = e
    BY <2>1, <2>5 DEF Same
  <2> QED BY <2>2, <2>3, <2>4, <2>5
<1>8. CASE k.op = "del"
  <2>1. r = Deleted(g, e)
    BY <1>8 DEF EditorKey
  <2>2. CASE e.c < Width(e)
    <3>1. r = Rewritten(RemovedBefore(g, This(e), e.c + 1), e, e.c)
      BY <2>1, <2>2 DEF Deleted
    <3> QED BY <1>1, <1>3, <3>1
  <2>3. CASE ~(e.c < Width(e)) /\ Width(e) = 0 /\ Len(e.lines) > 1
    <3> DEFINE L == RemoveAt(e.lines, e.i)
    <3>1. r.e = [e EXCEPT !.lines = L, !.i = IF @ < Len(e.lines) THEN @ ELSE @ - 1, !.c = 0]
      BY <2>1, <2>3 DEF Deleted, Same
    <3>2. Len(L) = Len(e.lines) - 1
      <4> DEFINE S == Slices(g)
      <4>1. e.lines \in Seq(S)
        BY <1>1
      <4> HIDE DEF S
      <4> QED BY ONLY <1>1, <4>1, RemoveAtIs
    <3> HIDE DEF L
    <3>3. r.e.height = e.height /\ r.e.lines = L
      BY <1>1, <3>1 DEF EditorIn
    <3>4. e.height # Len(e.lines)
      BY <1>8, <2>3
    <3> QED BY <1>1, <3>2, <3>3, <3>4
  <2>4. CASE ~(e.c < Width(e)) /\ ~(Width(e) = 0 /\ Len(e.lines) > 1)
    <3>1. r = Same(g, e)
      BY <2>1, <2>4 DEF Deleted
    <3> QED BY <3>1 DEF Same
  <2> QED BY <2>2, <2>3, <2>4
<1>9. CASE k.op = "bs"
  <2>1. r = Backspaced(g, e)
    BY <1>9 DEF EditorKey
  <2>2. CASE e.c > 0
    <3>1. r = Rewritten(RemovedBefore(g, This(e), e.c), e, e.c - 1)
      BY <2>1, <2>2 DEF Backspaced
    <3> QED BY <1>1, <1>3, <3>1
  <2>3. CASE ~(e.c > 0) /\ e.i = 1
    <3>1. r = Same(g, e)
      BY <2>1, <2>3 DEF Backspaced
    <3> QED BY <3>1 DEF Same
  <2>4. CASE ~(e.c > 0) /\ e.i # 1
    <3> DEFINE j == e.i - 1  a == Appended(g, e.lines[j], Cells(g, This(e)))  m == Len(e.lines) - 1
               L == RemoveAt([e.lines EXCEPT ![j] = a.s], e.i)
    <3>1. r.e = [e EXCEPT !.lines = L, !.i = @ - 1, !.c = LenOf(e.lines[j]), !.height = Fit(m)]
      BY <2>1, <2>4 DEF Backspaced
    <3>2. j \in 1..Len(e.lines) /\ j < Len(e.lines) /\ e.i = j + 1 /\ m \in Nat
      BY <1>1, <2>4
    <3>3. Len(L) = m
      <4> DEFINE S == Slices(g)  lines == e.lines  put == [lines EXCEPT ![j] = a.s]
      <4>1. lines \in Seq(S) /\ L = RemoveAt(put, j + 1) /\ j \in 1..Len(lines) /\ j < Len(lines)
        BY <1>1, <3>2
      <4>2. m = Len(lines) - 1
        OBVIOUS
      <4> HIDE DEF S, j, a, L, lines, m
      <4>3. put = [lines EXCEPT ![j] = a.s]
        OBVIOUS
      <4> HIDE DEF put
      <4> QED BY ONLY <4>1, <4>2, <4>3, LinesFewer
    <3>4. Fit(m) \in Nat /\ Fit(m) <= m
      BY <3>2, FitsIs DEF FitIs
    <3> HIDE DEF L, m, j
    <3>5. r.e.height = Fit(m) /\ r.e.lines = L
      BY <1>1, <3>1 DEF EditorIn
    <3> QED BY <3>3, <3>4, <3>5
  <2> QED BY <2>2, <2>3, <2>4
<1>10. CASE k.op \in {"up", "down", "left", "right", "ctrl-a", "ctrl-e"}
  <2>1. \/ r.e = e
        \/ \E i, c : r.e = At(e, i, c)
    BY <1>10, Zenon DEF EditorKey, Same, CursorUp, CursorDown, CursorLeft, CursorRight, InLine
  <2> QED BY <1>4, <2>1
<1>11. CASE k.op = "ctrl-f"
  <2>1. r.e = [e EXCEPT !.filter = [NoFilter EXCEPT !.on = TRUE]]
    BY <1>11 DEF EditorKey, Same
  <2>2. r.e.height = e.height /\ r.e.lines = e.lines
    BY <1>1, <2>1 DEF EditorIn
  <2> QED BY <2>2
<1>12. CASE k.op = "paste" /\ Len(PastedLines(k)) = 1
  <2>1. Len(PastedLines(k)) = 1
    BY <1>12
  <2> DEFINE u == PastedLines(k)[1]  t == Typed(g, e, u)  m == Len(e.lines)
  <2>2. r = [t EXCEPT !.e.height = Fit(m)]
    BY <1>12, <2>1 DEF EditorKey, PastedOne
  <2>3. t = [h |-> t.h, e |-> t.e] /\ t.e = [t.e EXCEPT !.height = t.e.height]
    BY <1>1 DEF Typed, Rewritten, EditorIn
  <2>4. Len(t.e.lines) = m
    BY <1>3 DEF Typed
  <2>5. Fit(m) \in Nat /\ Fit(m) <= m
    BY <1>1, FitsIs DEF FitIs
  <2>6. r.e.height = Fit(m) /\ r.e.lines = t.e.lines
    <3>1. t.e = [lines |-> t.e.lines, i |-> t.e.i, c |-> t.e.c, height |-> t.e.height, filter |-> t.e.filter]
      BY <1>1 DEF Typed, Rewritten, EditorIn
    <3> HIDE DEF t, m
    <3> QED BY <2>2, <2>3, <3>1
  <2> QED BY <2>4, <2>5, <2>6
<1>2. CASE k.op = "paste" /\ Len(PastedLines(k)) # 1
  <2> DEFINE first == PastedLines(k)[1]  second == PastedLines(k)[2]  t == Typed(g, e, first)
             n == FromText(t.h, second)  none == FromText(n.h, <<>>)
             lines == IF e.i = Len(e.lines) THEN Append(t.e.lines, none.s) ELSE t.e.lines
             all == InsertAt(lines, e.i + 1, n.s)  i == t.e.i + 1  c == Len(second)  m == Fit(Len(all))
  <2>1. first \in Runes /\ second \in Runes
    <3>1. PastedLines(k) \in Seq(Runes) /\ Len(PastedLines(k)) = 2
      BY <1>2, PastedIs
    <3> QED BY <3>1, SeqParts
  <2>2. r = Pasted(g, e, first, second)
    BY <1>2 DEF EditorKey
  <2>3. r.e = Edited(t.e, all, i, c, m)
    BY <2>2 DEF Pasted, Edited
  <2>4. EditorAt(r.h, r.e)
    <3> HIDE DEF first, second
    <3> QED BY <2>1, <2>2, EditorPastes
  <2>5. EditorAt(t.h, t.e)
    <3> DEFINE v == Lines(g, e)
    <3>1. v = Lines(g, e)
      OBVIOUS
    <3> HIDE DEF v, first
    <3>2. Edits(g, e, t, PutLine(v, InText(v.t[v.i], v.c, first), v.c + Len(first)))
      BY <2>1, <3>1, TypedIs
    <3> QED BY <3>2 DEF Edits
  <2> HIDE DEF t, all, i, c, m
  <2>6. r.e = Edit(t.e, all, i, c, m)
    BY <2>3, <2>5, EditedIs, EditorParts
  <2>7. r.e.height = m /\ r.e.lines = all
    BY <2>6 DEF Edit
  <2>8. Len(all) \in Nat
    BY <2>4, <2>7, EditorParts
  <2> QED BY <2>7, <2>8, FitsIs DEF FitIs, m
<1>13. CASE k.op \notin {"type", "tab", "enter", "del", "bs", "up", "down", "left", "right", "ctrl-a", "ctrl-e",
                         "ctrl-f", "paste"}
  BY <1>13 DEF EditorKey, Same
<1> QED BY <1>2, <1>6, <1>7, <1>8, <1>9, <1>10, <1>11, <1>12, <1>13

(* The filter changes neither the lines nor how many are drawn. *)
LEMMA FilterDraws ==
  ASSUME NEW g, NEW e, EditorAt(g, e), NEW k, NEW r, r = Filtered(g, e, k)
  PROVE  r.height = e.height /\ r.lines = e.lines
<1>1. e \in EditorIn(g)
  BY EditorParts
<1>2. ASSUME NEW f PROVE [e EXCEPT !.filter = f].height = e.height /\ [e EXCEPT !.filter = f].lines = e.lines
  BY <1>1 DEF EditorIn
<1>3. ASSUME NEW i, NEW c PROVE FilterOff(At(e, i, c)).height = e.height /\ FilterOff(At(e, i, c)).lines = e.lines
  BY <1>1 DEF EditorIn, FilterOff, At
<1>4. \/ \E f : r = [e EXCEPT !.filter = f]
      \/ \E i, c : r = FilterOff(At(e, i, c))
  <2>1. Chosen(g, e) = FilterOff(e) \/ \E i, c : Chosen(g, e) = FilterOff(At(e, i, c))
    BY Zenon DEF Chosen
  <2>2. FilterOff(e) = [e EXCEPT !.filter = NoFilter]
    BY DEF FilterOff
  <2>3. r = Chosen(g, e) \/ \E f : r = [e EXCEPT !.filter = f]
    <3> DEFINE P(x) == x = Chosen(g, e) \/ \E f : x = [e EXCEPT !.filter = f]
               Filter(query, index) == [e EXCEPT !.filter = Clamped(g, e, query, index)]
    <3>1. P(Chosen(g, e)) /\ P(FilterOff(e)) /\ \A query, index : P(Filter(query, index))
      BY ONLY <2>2, Zenon
    <3>2. \/ r = Chosen(g, e)
          \/ r = FilterOff(e)
          \/ \E query, index : r = Filter(query, index)
      <4> HIDE DEF Filter
      <4> DEFINE f == e.filter  n == Len(LinesFound(g, e, f.query))
      <4>1. r = CASE k.op = "enter" -> Chosen(g, e)
                  [] k.op = "esc"   -> FilterOff(e)
                  [] k.op = "bs"    -> Filter(IF f.query = <<>> THEN <<>> ELSE Front(f.query), f.index)
                  [] k.op = "down"  -> Filter(f.query, IF f.index + 1 < n THEN f.index + 1 ELSE f.index)
                  [] k.op = "up"    -> Filter(f.query, IF f.index > 0 THEN f.index - 1 ELSE 0)
                  [] k.op = "type"  -> Filter(Append(f.query, k.r), f.index)
                  [] OTHER          -> Filter(f.query, f.index)
        BY Zenon DEF Filtered, Filter
      <4> QED BY ONLY <4>1
    <3> HIDE DEF P, Filter
    <3>3. P(r)
      BY ONLY <3>1, <3>2
    <3> QED BY <3>3 DEF P
  <2> QED BY ONLY <2>1, <2>2, <2>3, Zenon
<1>5. CASE \E f : r = [e EXCEPT !.filter = f]
  <2>1. PICK f : r = [e EXCEPT !.filter = f]
    BY <1>5
  <2>2. [e EXCEPT !.filter = f].height = e.height /\ [e EXCEPT !.filter = f].lines = e.lines
    BY <1>2
  <2> QED BY ONLY <2>1, <2>2
<1>6. CASE \E i, c : r = FilterOff(At(e, i, c))
  <2>1. PICK i, c : r = FilterOff(At(e, i, c))
    BY <1>6
  <2>2. FilterOff(At(e, i, c)).height = e.height /\ FilterOff(At(e, i, c)).lines = e.lines
    BY <1>3
  <2> QED BY ONLY <2>1, <2>2
<1> QED BY ONLY <1>4, <1>5, <1>6

(* The editor opens with all its lines drawn; the other keys of the line   *)
(* leave it closed.                                                        *)
LEMMA ClosedDraws ==
  ASSUME Sound, ed = Closed, NEW k, Press(k)
  PROVE  DrawnOK'
<1>1. (ed' = Closed) => DrawnOK'
  BY DEF DrawnOK
<1>2. ASSUME NEW g, NEW l, Ends(g, l, Closed) PROVE ed' = Closed
  BY <1>2 DEF Ends, Closed
<1>3. \A g, l : Keep(g, l) => ed' = Closed
  BY <1>2 DEF Keep
<1>4. \A how : Lost(how) => ed' = Closed
  BY DEF Lost
<1>5. Panics => ed' = Closed
  BY <1>4 DEF Panics
<1>6. (\A r, cpos : Becomes(r, cpos) => ed' = Closed) /\ (\A cpos : Moves(cpos) => ed' = Closed)
  BY <1>3 DEF Becomes, Moves
<1>7. Stays => ed' = Closed
  BY <1>3 DEF Stays
<1>8. \A cells : Insert(cells) => ed' = Closed
  BY ONLY <1>5, <1>6, Zenon DEF Insert
<1>9. Type(k) \/ Fast(k) \/ Paste(k) \/ Space(k) => ed' = Closed
  BY ONLY <1>5, <1>6, <1>8, Zenon DEF Type, Fast, Paste, Space
<1>10. Escape(k) \/ Garbled(k) \/ Home(k) \/ End(k) \/ Left(k) \/ Right(k) \/ Suspend(k) => ed' = Closed
  BY ONLY <1>4, <1>6, <1>7, Zenon DEF Escape, Garbled, Home, End, Left, Right, Suspend
<1>11. Backspace(k) \/ Delete(k) \/ KillAfter(k) \/ KillBefore(k) => ed' = Closed
  BY ONLY <1>3, <1>5, <1>6, <1>7, Zenon DEF Backspace, Delete, KillAfter, KillBefore
<1>12. Tab(k) \/ IntoDirectory(k) \/ TakeOption(k) => ed' = Closed
  BY ONLY <1>3, <1>5, <1>6, <1>7, Zenon DEF Tab, IntoDirectory, TakeOption, Take
<1>13. Break(k) \/ Enter(k) => ed' = Closed
  BY <1>2, Zenon DEF Break, Enter, Returns
<1>14. BeginSearch(k) \/ Up(k) \/ Down(k) \/ Choose(k) => ed' = Closed
  BY ONLY <1>3, <1>5, <1>6, <1>7, Zenon DEF BeginSearch, Up, Down, Choose, Recall
<1>15. SearchKey(k) => ed' = Closed
  BY ONLY <1>3, <1>4, <1>7, Zenon DEF SearchKey, SearchAccept, SearchCancel, SearchType, SearchBackspace, SearchClear,
     SearchStep, SearchOther
<1>16. OpenEditor(k) => DrawnOK'
  <2> SUFFICES ASSUME OpenEditor(k) PROVE DrawnOK'
    OBVIOUS
  <2>1. Sound' /\ ed'.height = Len(ed'.lines)
    BY OpenSound
  <2>2. Len(ed'.lines) \in Nat
    BY <2>1, SeqParts DEF Sound, EditorOK, EditorIn
  <2> QED BY <2>1, <2>2 DEF DrawnOK
<1>17. \/ Paste(k) \/ Break(k) \/ Suspend(k) \/ SearchKey(k) \/ LineKey(k) \/ Enter(k) \/ BeginSearch(k)
       \/ Up(k) \/ Down(k) \/ Choose(k)
  BY ONLY ed = Closed, Press(k), Zenon DEF Press
<1> QED BY ONLY <1>1, <1>9, <1>10, <1>11, <1>12, <1>13, <1>14, <1>15, <1>16, <1>17, Zenon DEF LineKey

(* There are always as many lines as are drawn. *)
LEMMA StepDraws == Shape /\ DrawnOK /\ [Next]_vars => DrawnOK'
<1> SUFFICES ASSUME Shape, DrawnOK, [Next]_vars PROVE DrawnOK'
  OBVIOUS
<1>1. CASE UNCHANGED vars
  BY <1>1 DEF vars, DrawnOK
<1>2. CASE Call
  BY <1>2 DEF Call, Fresh, DrawnOK
<1>3. ASSUME NEW k \in Keys, Press(k) PROVE DrawnOK'
  <2>1. CASE ed = Closed
    BY <1>3, <2>1, ClosedDraws DEF Shape
  <2>5. LineOK /\ line \in LineIn(h) /\ (ed # Closed => EditorAt(h, ed) /\ ed.height <= Len(ed.lines))
    BY DEF Shape, Sound, LineOK, EditorOK, EditorAt, DrawnOK
  <2>6. Panics => DrawnOK'
    BY DEF Panics, Lost, DrawnOK
  <2>2. CASE ed # Closed /\ FilterKey(k)
    <3> DEFINE e == Filtered(h, ed, k)
    <3>1. EditorAt(h, e) /\ e.height = ed.height /\ e.lines = ed.lines
      BY <1>3, <2>5, <2>2, FilteredIs, FilterDraws
    <3>2. Ends(h, line, e) \/ Panics
      BY <2>2, Zenon DEF FilterKey
    <3> HIDE DEF e
    <3>3. ASSUME Ends(h, line, e) PROVE DrawnOK'
      <4>1. SameEditor(h, e, h', ed')
        BY <2>5, <3>1, <3>3, EditSound
      <4> QED BY <2>5, <2>2, <3>1, <4>1 DEF SameEditor, DrawnOK
    <3> QED BY <2>6, <3>2, <3>3
  <2>3. CASE ed # Closed /\ ~ed.filter.on /\ EditKey(k)
    <3> DEFINE r == EditorKey(h, ed, k)
    <3>1. \/ Ends(r.h, line, r.e) /\ Drawable(r.e)
          \/ Panics
      BY <2>3, Zenon DEF EditKey
    <3>2. EditorAt(r.h, r.e) /\ Slices(h) \subseteq Slices(r.h)
      <4>1. r = EditorKey(h, ed, k)
        OBVIOUS
      <4> HIDE DEF r
      <4> QED BY <1>3, <2>5, <2>3, <4>1, EditorKeyIs
    <3>3. r.e.height <= Len(r.e.lines) \/ (k.op = "del" /\ r.e.filter = ed.filter)
      <4>1. CASE k.op = "del" /\ Width(ed) = 0 /\ Len(ed.lines) > 1 /\ ed.height = Len(ed.lines)
        <5>1. r = Deleted(h, ed)
          BY <4>1 DEF EditorKey
        <5>2. ed \in EditorIn(h) /\ ~(ed.c < Width(ed))
          BY <2>5, <2>3, <4>1, EditorParts
        <5> DEFINE L == RemoveAt(ed.lines, ed.i)  i == IF ed.i < Len(ed.lines) THEN ed.i ELSE ed.i - 1  c == 0
        <5>3. r.e = MovedTo(ed, L, i, c)
          BY <4>1, <5>1, <5>2 DEF Deleted, Same, MovedTo
        <5> HIDE DEF L, i, c, r
        <5>4. r.e = Edit(ed, L, i, c, ed.height)
          BY <5>2, <5>3, MovedToIs
        <5> QED BY <4>1, <5>4 DEF Edit
      <4>2. CASE ~(k.op = "del" /\ Width(ed) = 0 /\ Len(ed.lines) > 1 /\ ed.height = Len(ed.lines))
        <5>1. r = EditorKey(h, ed, k)
          OBVIOUS
        <5> HIDE DEF r
        <5> QED BY <1>3, <2>5, <2>3, <4>2, <5>1, EditorDraws
      <4> QED BY <4>1, <4>2
    <3>4. ~ed.filter.on
      BY <2>3
    <3> HIDE DEF r
    <3>5. ASSUME Ends(r.h, line, r.e), Drawable(r.e) PROVE DrawnOK'
      <4>1. r.e.height <= Len(r.e.lines)
        BY <3>3, <3>4, <3>5 DEF Drawable, Filtering
      <4>2. line \in LineIn(r.h)
        BY <2>5, <3>2, LineLater
      <4>3. SameEditor(r.h, r.e, h', ed')
        BY <3>2, <3>5, <4>2, EditSound
      <4> QED BY <4>1, <4>3 DEF SameEditor, DrawnOK
    <3> QED BY <2>6, <3>1, <3>5
  <2>4. CASE ed # Closed /\ CloseEditor(k)
    <3>1. \E g, l : Keep(g, l)
      BY <2>4 DEF CloseEditor, Accepted, Stays
    <3>2. ed' = Closed
      BY <3>1 DEF Keep, Ends, Closed
    <3> QED BY <3>2 DEF DrawnOK
  <2>7. ed # Closed => FilterKey(k) \/ (~ed.filter.on /\ EditKey(k)) \/ CloseEditor(k)
    BY <1>3, Zenon DEF Press, InEditor, Filtering
  <2> QED BY ONLY <2>1, <2>2, <2>3, <2>4, <2>7
<1> QED BY <1>1, <1>2, <1>3 DEF Next

(* In the editor of several lines every key does to the text what it is    *)
(* for and nothing panics, when no two lines are parts of one array, but   *)
(* for pastes of several lines and the DEL that takes away an empty line   *)
(* when all are drawn (multilineEditor).                                   *)
THEOREM EditorAsMeant == Spec => LinesAsMeant
<1> DEFINE A == fate = "edits" /\ ed # Closed /\ ~Filtering(ed) /\ Apart(ed)
                /\ Single(key') /\ ~TakesLine(key'.op) /\ key'.op \notin {"ctrl-d", "ctrl-r", "esc"} =>
                  fate' = "edits" /\ Lines(h', ed') = Means(Lines(h, ed), key')
<1>1. Shape /\ DrawnOK /\ [Next]_vars => [A]_vars
  <2> SUFFICES ASSUME Shape, DrawnOK, Next, fate = "edits", ed # Closed, ~Filtering(ed), Apart(ed),
                      Single(key'), ~TakesLine(key'.op), key'.op \notin {"ctrl-d", "ctrl-r", "esc"}
               PROVE  fate' = "edits" /\ Lines(h', ed') = Means(Lines(h, ed), key')
    BY DEF A
  <2>1. ~Call
    BY DEF Call, Fresh
  <2>2. PICK k \in Keys : Press(k)
    BY <2>1 DEF Next
  <2>3. key' = k /\ InEditor(k)
    BY <2>2 DEF Press
  <2>4. EditKey(k) /\ Sound /\ Single(k)
    BY <2>3 DEF Shape, InEditor, CloseEditor
  <2>5. fate' = "edits"
    <3> DEFINE r == EditorKey(h, ed, k)
    <3>1. (Drawable(r.e) => fate' = "edits")
      BY <2>4, Zenon DEF EditKey
    <3>2. r = EditorKey(h, ed, k)
      OBVIOUS
    <3> HIDE DEF r
    <3>3. EditorAt(h, ed) /\ ed.height <= Len(ed.lines)
      BY <2>4 DEF Sound, LineOK, EditorOK, EditorAt, DrawnOK
    <3>4. ~(k.op = "del" /\ Width(ed) = 0 /\ Len(ed.lines) > 1 /\ ed.height = Len(ed.lines))
      BY <2>3 DEF TakesLine
    <3>5. r.e.height <= Len(r.e.lines)
      BY ONLY <2>2, <3>2, <3>3, <3>4, EditorDraws
    <3> QED BY <3>1, <3>5 DEF Drawable
  <2>6. Lines(h', ed') = Means(Lines(h, ed), key')
    BY ONLY ed # Closed, Apart(ed), <2>2, <2>3, <2>4, <2>5, EditKeyIs
  <2> QED BY ONLY <2>5, <2>6
<1>2. Init => Shape /\ DrawnOK
  BY FirstShape DEF Init, DrawnOK
<1>3. Shape /\ DrawnOK /\ [Next]_vars => Shape' /\ DrawnOK'
  BY StepShape, StepDraws
<1> QED BY <1>1, <1>2, <1>3, PTL DEF Spec, LinesAsMeant, A
=============================================================================

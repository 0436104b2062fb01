----------------------------- MODULE RuneSlices -----------------------------
(***************************************************************************)
(* Slices of runes, as Go has them: parts of arrays, which other slices    *)
(* may be parts of too, and what the editors of the console do with them.  *)
(* h is the sequence of the arrays; an operation that may write gives      *)
(* [h |-> ..., s |-> ...].                                                 *)
(***************************************************************************)
EXTENDS Integers, Sequences, SequencesExt, FiniteSets, FiniteSetsExt

Slice(a, from, to) == [array |-> a, from |-> from, to |-> to]

LenOf(s)    == s.to - s.from
CapOf(h, s) == Len(h[s.array]) - s.from
Cells(h, s) == SubSeq(h[s.array], s.from + 1, s.to)

(* s[:n] and s[n:] *)
Prefix(s, n) == [s EXCEPT !.to = s.from + n]
Suffix(s, n) == [s EXCEPT !.from = @ + n]

(* Arrays of runes are allocated in pairs. *)
Paired(n) == n + (n % 2)

Junk == "?"

(* The members of a set of numbers in order, and what they are places of. *)
Nth(S, k)    == CHOOSE n \in S : Cardinality({m \in S : m < n}) = k - 1
InOrder(S)   == [k \in 1..Cardinality(S) |-> Nth(S, k)]
Picked(t, S) == [k \in 1..Cardinality(S) |-> t[Nth(S, k)]]

(* The array of a new slice with this capacity. *)
Cap(cells, cap) == cells \o [i \in 1..(cap - Len(cells)) |-> Junk]

Allocated(h, cells, cap) ==
  [h |-> Append(h, Cap(cells, cap)),
   s |-> Slice(Len(h) + 1, 0, Len(cells))]

(* []rune(text) *)
FromText(h, text) == Allocated(h, text, Paired(Len(text)))

(* append(s, cells...) *)
Appended(h, s, cells) ==
  LET len == LenOf(s) + Len(cells)
      at  == s.to
  IN  IF len <= CapOf(h, s)
      THEN [h |-> [h EXCEPT ![s.array] =
                     [i \in DOMAIN @ |-> IF i \in at + 1..at + Len(cells) THEN cells[i - at] ELSE @[i]]],
            s |-> Prefix(s, len)]
      ELSE Allocated(h, Cells(h, s) \o cells,
                     Paired(IF len > 2 * CapOf(h, s) THEN len ELSE 2 * CapOf(h, s)))

(* insertAt and insertWord: what follows the position is copied, and       *)
(* appended to what is before it, in its array.                            *)
Inserted(h, s, pos, cells) ==
  Appended(h, Prefix(s, pos), cells \o Cells(h, Suffix(s, pos)))

(* removeBefore *)
RemovedBefore(h, s, pos) ==
  IF pos = 0 \/ pos > LenOf(s) THEN [h |-> h, s |-> s]
  ELSE Appended(h, Prefix(s, pos - 1), Cells(h, Suffix(s, pos)))

(* The start of a word around a position, and the rune after its end.      *)
StartOf(t, pos, seps) == Max({0} \union {p \in 1..pos : t[p] \in seps})
EndOf(t, pos, seps)   == Min({Len(t)} \union {p \in pos..(Len(t) - 1) : t[p + 1] \in seps})

(* getWord *)
Word(h, s, pos) ==
  LET t == Cells(h, s)
      p == IF pos > Len(t) THEN Len(t) ELSE pos
      b == StartOf(t, p, {" "})
  IN  [s EXCEPT !.from = s.from + b, !.to = s.from + EndOf(t, p, {" "})]

(* deleteWord, which also takes the rune after the word, and puts a space  *)
(* in its place if something is before the word.                           *)
DeletedBetween(h, s, pos, seps) ==
  LET t     == Cells(h, s)
      start == StartOf(t, pos, seps)
      end   == EndOf(t, pos, seps)
      rest  == IF end = Len(t) THEN <<>>
               ELSE (IF start = 0 THEN <<>> ELSE <<" ">>) \o SubSeq(t, end + 2, Len(t))
      r     == IF start = 0 THEN Allocated(h, rest, Paired(Len(rest)))
               ELSE Appended(h, Prefix(s, start), rest)
  IN  IF pos > Len(t) THEN [h |-> h, s |-> s, start |-> 0]
      ELSE [h |-> r.h, s |-> r.s, start |-> start]

Separators == {" ", ".", "/"}

(* A mutant of DeletedWord: the words of getWord.                          *)
DeletedWordWhole(h, s, pos) == DeletedBetween(h, s, pos, {" "})

DeletedWord(h, s, pos) == DeletedBetween(h, s, pos, Separators)

(* What the slices of a sequence reach: each array in the place of its     *)
(* first slice, without what is before all of its slices.  A rune that no  *)
(* slice holds any more is not told apart from any other.                  *)
Place(held, a) == CHOOSE k \in DOMAIN held : held[k].array = a /\ \A j \in 1..(k - 1) : held[j].array # a

Of(held, a)   == {held[k] : k \in {j \in DOMAIN held : held[j].array = a}}
Base(held, a) == Min({s.from : s \in Of(held, a)})

Renumbered(held, s) ==
  LET base == Base(held, s.array)
  IN  Slice(Place(held, s.array), s.from - base, s.to - base)

Shared(cells, of, base) ==
  [p \in 1..(Len(cells) - base) |->
     IF \E s \in of : p + base \in (s.from + 1)..s.to THEN cells[p + base] ELSE Junk]

Reached(h, held) ==
  [k \in DOMAIN held |->
     LET a == held[k].array
     IN  IF Place(held, a) = k THEN Shared(h[a], Of(held, a), Base(held, a)) ELSE <<>>]
=============================================================================

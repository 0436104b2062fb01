-------------------------- MODULE MultilineEditor --------------------------
(***************************************************************************)
(* The editor of several lines that Ctrl-O opens (multilineEditor of       *)
(* console_common.go): what each key does to the lines, which are slices   *)
(* of runes over the arrays h.  An operation gives [h, e], e the state of  *)
(* the editor:                                                             *)
(*   lines, i, c   the lines, the line of the cursor and its place in it;  *)
(*   height        how many lines are drawn;                               *)
(*   filter        whether lines are searched, for what, and which of      *)
(*                 those found is chosen.                                  *)
(***************************************************************************)
EXTENDS RuneSlices

CONSTANTS MaxHeight,  \* lines that fit the screen
          TabWidth    \* spaces for TAB (4 in the code)

ASSUME EditorAssumption == MaxHeight \in Nat /\ TabWidth \in Nat

NoFilter == [on |-> FALSE, query |-> <<>>, index |-> 0]

Closed == [lines |-> <<>>, i |-> 0, c |-> 0, height |-> 0, filter |-> NoFilter]

Texts(h, e) == [k \in DOMAIN e.lines |-> Cells(h, e.lines[k])]

Joined(texts) ==
  FlattenSeq([k \in DOMAIN texts |-> (IF k = 1 THEN <<>> ELSE <<"nl">>) \o texts[k]])

(* Split at the ends of lines. *)
LineAt(text, k) ==
  LET ends == {0} \union {p \in DOMAIN text : text[p] = "nl"} \union {Len(text) + 1}
  IN  SubSeq(text, Nth(ends, k) + 1, Nth(ends, k + 1) - 1)
SplitLines(text) ==
  [k \in 1..(1 + Cardinality({p \in DOMAIN text : text[p] = "nl"})) |-> LineAt(text, k)]

(* FromText of one line after the other. *)
Lined(h, texts) ==
  [h     |-> h \o [k \in DOMAIN texts |-> Cap(texts[k], Paired(Len(texts[k])))],
   lines |-> [k \in DOMAIN texts |-> Slice(Len(h) + k, 0, Len(texts[k]))]]

Opened(h, text) ==
  LET r == Lined(h, SplitLines(text))
      n == Len(r.lines)
  IN  [h |-> r.h,
       e |-> [lines |-> r.lines, i |-> n, c |-> LenOf(r.lines[n]), height |-> n, filter |-> NoFilter]]

-----------------------------------------------------------------------------
This(e)  == e.lines[e.i]
Width(e) == LenOf(This(e))

Fit(n) == IF n > MaxHeight THEN MaxHeight ELSE n

Same(h, e) == [h |-> h, e |-> e]

At(e, i, c) == [e EXCEPT !.i = i, !.c = c]

(* The line of the cursor becomes r.s. *)
Rewritten(r, e, c) == [h |-> r.h, e |-> [e EXCEPT !.lines[e.i] = r.s, !.c = c]]

Typed(h, e, cells) == Rewritten(Inserted(h, This(e), e.c, cells), e, e.c + Len(cells))

(* A mutant of SplitLine: the cursor stays in the upper line.              *)
SplitLineStays(h, e) ==
  LET upper == Prefix(This(e), e.c)
      lower == Suffix(This(e), e.c)
      n     == Len(e.lines) + 1
  IN  IF n >= MaxHeight THEN Same(h, e)
      ELSE Same(h, [e EXCEPT !.lines = InsertAt([@ EXCEPT ![e.i] = upper], e.i + 1, lower),
                             !.c = 0, !.height = Fit(n)])

(* ENTER: both halves stay in the array. *)
SplitLine(h, e) ==
  LET upper == Prefix(This(e), e.c)
      lower == Suffix(This(e), e.c)
      n     == Len(e.lines) + 1
  IN  IF n >= MaxHeight THEN Same(h, e)
      ELSE Same(h, [e EXCEPT !.lines = InsertAt([@ EXCEPT ![e.i] = upper], e.i + 1, lower),
                             !.i = @ + 1, !.c = 0, !.height = Fit(n)])

(* DEL removes an empty line too, but not from what is drawn. *)
Deleted(h, e) ==
  IF e.c < Width(e) THEN Rewritten(RemovedBefore(h, This(e), e.c + 1), e, e.c)
  ELSE IF Width(e) = 0 /\ Len(e.lines) > 1
  THEN Same(h, [e EXCEPT !.lines = RemoveAt(@, e.i),
                         !.i = IF @ < Len(e.lines) THEN @ ELSE @ - 1, !.c = 0])
  ELSE Same(h, e)

Backspaced(h, e) ==
  LET above == e.lines[e.i - 1]
      r     == Appended(h, above, Cells(h, This(e)))
  IN  IF e.c > 0 THEN Rewritten(RemovedBefore(h, This(e), e.c), e, e.c - 1)
      ELSE IF e.i = 1 THEN Same(h, e)
      ELSE [h |-> r.h,
            e |-> [e EXCEPT !.lines = RemoveAt([@ EXCEPT ![e.i - 1] = r.s], e.i),
                            !.i = @ - 1, !.c = LenOf(above), !.height = Fit(Len(e.lines) - 1)]]

InLine(e, i) == At(e, i, IF e.c < LenOf(e.lines[i]) THEN e.c ELSE LenOf(e.lines[i]))

CursorUp(e)    == IF e.i > 1 THEN InLine(e, e.i - 1) ELSE e
CursorDown(e)  == IF e.i < Len(e.lines) THEN InLine(e, e.i + 1) ELSE e
CursorLeft(e)  == IF e.c > 0 THEN At(e, e.i, e.c - 1)
            ELSE IF e.i > 1 THEN At(e, e.i - 1, LenOf(e.lines[e.i - 1])) ELSE e
CursorRight(e) == IF e.c < Width(e) THEN At(e, e.i, e.c + 1)
            ELSE IF e.i < Len(e.lines) THEN At(e, e.i + 1, 0) ELSE e

(* A paste of two lines: the first into the line of the cursor, and the    *)
(* second below it, above an empty line if that was the last one.          *)
Pasted(h, e, first, second) ==
  LET t     == Typed(h, e, first)
      n     == FromText(t.h, second)
      none  == FromText(n.h, <<>>)
      lines == IF e.i = Len(e.lines) THEN Append(t.e.lines, none.s) ELSE t.e.lines
      all   == InsertAt(lines, e.i + 1, n.s)
  IN  [h |-> none.h, e |-> [t.e EXCEPT !.lines = all, !.i = @ + 1, !.c = Len(second),
                                       !.height = Fit(Len(all))]]

(* A paste of one line: how many are drawn is found again. *)
PastedOne(h, e, text) == [Typed(h, e, text) EXCEPT !.e.height = Fit(Len(e.lines))]

(* Carriage returns are taken out of what is pasted. *)
PastedLines(key) ==
  IF Len(key.lines) = 1 \/ key.ends = "cr" THEN <<FlattenSeq(key.lines)>> ELSE key.lines

-----------------------------------------------------------------------------
(* The filter: lines in which the query's runes appear in order. *)
LinesFound(h, e, query) ==
  LET Has(t) == \E f \in [DOMAIN query -> DOMAIN t] :
                  /\ \A p \in DOMAIN query : t[f[p]] = query[p]
                  /\ \A p, q \in DOMAIN query : p < q => f[p] < f[q]
  IN  IF query = <<>> THEN <<>>
      ELSE InOrder({k \in DOMAIN e.lines : Has(Cells(h, e.lines[k]))})

(* The choice is brought back into the list after every key. *)
Clamped(h, e, query, index) ==
  LET n == Len(LinesFound(h, e, query))
  IN  [on |-> TRUE, query |-> query, index |-> IF n = 0 THEN 0 ELSE IF index < n THEN index ELSE n - 1]

Filtering(e) == e.filter.on

(* Ctrl-F starts it afresh. *)
FilterOff(e) == [e EXCEPT !.filter = NoFilter]

Chosen(h, e) ==
  LET found == LinesFound(h, e, e.filter.query)
  IN  IF e.filter.index < Len(found)
      THEN LET i == found[e.filter.index + 1] IN FilterOff(At(e, i, LenOf(e.lines[i])))
      ELSE FilterOff(e)

Filtered(h, e, key) ==
  LET f == e.filter
      n == Len(LinesFound(h, e, f.query))
      Filter(query, index) == [e EXCEPT !.filter = Clamped(h, e, query, index)]
  IN  CASE key.op = "enter" -> Chosen(h, e)
        [] key.op = "esc"   -> FilterOff(e)
        [] key.op = "bs"    -> Filter(IF f.query = <<>> THEN <<>> ELSE Front(f.query), f.index)
        [] key.op = "down"  -> Filter(f.query, IF f.index + 1 < n THEN f.index + 1 ELSE f.index)
        [] key.op = "up"    -> Filter(f.query, IF f.index > 0 THEN f.index - 1 ELSE 0)
        [] key.op = "type"  -> Filter(Append(f.query, key.r), f.index)
        [] OTHER            -> Filter(f.query, f.index)

(* What TAB puts in. *)
Tabbed == [k \in 1..TabWidth |-> " "]

EditorKey(h, e, key) ==
  CASE key.op = "type"  -> Typed(h, e, <<key.r>>)
    [] key.op = "tab"   -> Typed(h, e, Tabbed)
    [] key.op = "enter" -> SplitLine(h, e)
    [] key.op = "del"   -> Deleted(h, e)
    [] key.op = "bs"    -> Backspaced(h, e)
    [] key.op = "up"    -> Same(h, CursorUp(e))
    [] key.op = "down"  -> Same(h, CursorDown(e))
    [] key.op = "left"  -> Same(h, CursorLeft(e))
    [] key.op = "right" -> Same(h, CursorRight(e))
    [] key.op = "ctrl-a" -> Same(h, At(e, e.i, 0))
    [] key.op = "ctrl-e" -> Same(h, At(e, e.i, Width(e)))
    [] key.op = "ctrl-f" -> Same(h, [e EXCEPT !.filter = [NoFilter EXCEPT !.on = TRUE]])
    [] key.op = "paste" -> LET p == PastedLines(key)
                           IN  IF Len(p) = 1 THEN PastedOne(h, e, p[1]) ELSE Pasted(h, e, p[1], p[2])
    [] OTHER -> Same(h, e)

(* What it draws it has to have. *)
Drawable(e) == Filtering(e) \/ e.height <= Len(e.lines)

-----------------------------------------------------------------------------
(* What the keys mean for a text of lines, t, and a cursor. *)
Lines(h, e) == [t |-> Texts(h, e), i |-> e.i, c |-> e.c]

AtPlace(v, i, c) == [v EXCEPT !.i = i, !.c = c]

Cut(t, from, to) == SubSeq(t, 1, from) \o SubSeq(t, to + 1, Len(t))
InText(t, at, u) == SubSeq(t, 1, at) \o u \o SubSeq(t, at + 1, Len(t))

Means(v, key) ==
  LET line == v.t[v.i]
      len  == Len(line)
      last == v.i = Len(v.t)
  IN  CASE key.op \in {"type", "tab"} \/ (key.op = "paste" /\ Len(PastedLines(key)) = 1) ->
             LET u == CASE key.op = "type" -> <<key.r>>
                        [] key.op = "tab" -> Tabbed
                        [] OTHER -> PastedLines(key)[1]
             IN  [v EXCEPT !.t[v.i] = InText(@, v.c, u), !.c = @ + Len(u)]
        [] key.op = "enter" /\ Len(v.t) + 1 < MaxHeight ->
             [t |-> InsertAt([v.t EXCEPT ![v.i] = SubSeq(@, 1, v.c)], v.i + 1, SubSeq(line, v.c + 1, len)),
              i |-> v.i + 1, c |-> 0]
        [] key.op = "del" /\ v.c < len -> [v EXCEPT !.t[v.i] = Cut(@, v.c, v.c + 1)]
        [] key.op = "del" /\ len = 0 /\ Len(v.t) > 1 ->
             [t |-> RemoveAt(v.t, v.i), i |-> IF last THEN v.i - 1 ELSE v.i, c |-> 0]
        [] key.op = "bs" /\ v.c > 0 -> [v EXCEPT !.t[v.i] = Cut(@, v.c - 1, v.c), !.c = @ - 1]
        [] key.op = "bs" /\ v.c = 0 /\ v.i > 1 ->
             [t |-> RemoveAt([v.t EXCEPT ![v.i - 1] = @ \o line], v.i),
              i |-> v.i - 1, c |-> Len(v.t[v.i - 1])]
        [] key.op \in {"up", "down"} ->
             LET i == IF key.op = "up" THEN IF v.i > 1 THEN v.i - 1 ELSE v.i
                      ELSE IF last THEN v.i ELSE v.i + 1
             IN  AtPlace(v, i, IF v.c < Len(v.t[i]) THEN v.c ELSE Len(v.t[i]))
        [] key.op = "left" /\ v.c > 0 -> AtPlace(v, v.i, v.c - 1)
        [] key.op = "left" /\ v.c = 0 /\ v.i > 1 -> AtPlace(v, v.i - 1, Len(v.t[v.i - 1]))
        [] key.op = "right" /\ v.c < len -> AtPlace(v, v.i, v.c + 1)
        [] key.op = "right" /\ v.c = len /\ ~last -> AtPlace(v, v.i + 1, 0)
        [] key.op = "ctrl-a" -> AtPlace(v, v.i, 0)
        [] key.op = "ctrl-e" -> AtPlace(v, v.i, len)
        [] OTHER -> v
=============================================================================

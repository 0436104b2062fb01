------------------------------- MODULE Lists -------------------------------
(***************************************************************************)
(* Lists of scripts (lib-list.go, assigner.go, eval.go).  A list is a Go   *)
(* slice: part of an array that other lists may be parts of too.  Some     *)
(* operations make an array of their own, some give another part of the    *)
(* same one, and some write into it.                                       *)
(*                                                                         *)
(* A script declares its variables and then makes MaxSteps statements.  A  *)
(* statement that fails (an index out of range, an item of another type)   *)
(* ends the script and is no step here.                                    *)
(***************************************************************************)
EXTENDS Naturals, Sequences, SequencesExt, FiniteSets

CONSTANTS
  Vars,       \* the variables of the script, all of them lists
  Numbers,    \* the numbers it writes, from 1
  FirstCap,   \* the capacity of a list that a library function makes (31 in the code)
  RangeEnd,   \* the script has a statement v = 1..RangeEnd
  Statements, \* the statements it may make: an operation and its operands
  MaxSteps,
  None

ASSUME ListsAssumption ==
  /\ None \notin [array : Nat, from : Nat, to : Nat]
  /\ FirstCap \in Nat /\ RangeEnd \in Nat
  /\ Statements \subseteq [op : STRING, v : Vars, w : Vars, x : Vars, i : Nat, j : Nat, n : Nat]
  /\ \A st \in Statements : st.op \in {"pop", "append_to", "set", "inner"} => st.v = st.w

VARIABLES
  heap,   \* the arrays: whether they hold integers only, and their cells
  lists,  \* the list of each variable
  steps,  \* statements made
  last,   \* the last one
  owned   \* whether every statement so far kept to lists of its own (Own)

vars == <<heap, lists, steps, last, owned>>

-----------------------------------------------------------------------------
(* Slices *)

Number(n) == <<"number", n>>
Text(n)   == <<"text", n>>    \* the text of a number
Item(s)   == <<"list", s>>    \* a list as an element
Nil       == <<"nil", 0>>

IsList(c) == c[1] = "list"

Slice(a, from, to) == [array |-> a, from |-> from, to |-> to]

LenOf(s) == s.to - s.from
CapOf(s) == Len(heap[s.array].cells) - s.from
Cells(s) == SubSeq(heap[s.array].cells, s.from + 1, s.to)
Typed(s) == heap[s.array].typed
Flat(s)  == \A k \in DOMAIN Cells(s) : ~IsList(Cells(s)[k])

Zero(typed) == IF typed THEN Number(0) ELSE Nil

Filled(cells, cap, typed) ==
  [typed |-> typed,
   cells |-> cells \o [k \in 1..(cap - Len(cells)) |-> Zero(typed)]]

Written(s, at, cells) ==
  [heap EXCEPT ![s.array].cells =
     [k \in DOMAIN @ |-> IF k \in at + 1..at + Len(cells) THEN cells[k - at] ELSE @[k]]]

(* Results: the heap, and a list in it. *)
MadeIn(h, cells, cap, typed) ==
  [heap |-> Append(h, Filled(cells, cap, typed)), list |-> Slice(Len(h) + 1, 0, Len(cells))]

Made(cells, cap, typed) == MadeIn(heap, cells, cap, typed)

(* Go allocates arrays of integers of more than four in pairs (while they  *)
(* are small).                                                             *)
Rounded(cap, typed) == IF typed /\ cap > 4 /\ cap % 2 = 1 THEN cap + 1 ELSE cap

Larger(cap, len, typed) == Rounded(IF len > 2 * cap THEN len ELSE 2 * cap, typed)

(* Go's append: into the array, if the slice's capacity allows. *)
Appended(s, cells) ==
  IF LenOf(s) + Len(cells) <= CapOf(s)
  THEN [heap |-> Written(s, s.to, cells), list |-> [s EXCEPT !.to = @ + Len(cells)]]
  ELSE Made(Cells(s) \o cells, Larger(CapOf(s), LenOf(s) + Len(cells), Typed(s)), Typed(s))

(* The capacity of a slice that was appended to up to len items, some at a *)
(* time.                                                                   *)
Grown(cap, len, typed) == IF len <= cap THEN cap ELSE Larger(cap, len, typed)

(* What capacity a slice has that was appended to item by item (up to 256, *)
(* from where Go no longer doubles it).                                    *)
Doubled(len) ==
  LET caps == {c \in {1, 2, 4, 8, 16, 32, 64, 128, 256} : c < 2 * len}
  IN  IF len = 0 THEN 0 ELSE CHOOSE c \in caps : \A d \in caps : d <= c

(* Sorting is stable.  Lists of any values are sorted by text: a number    *)
(* and its text are equal there, numbers have one digit here, and nil is   *)
(* "<nil>", which comes after the digits.                                  *)
Below(c, d) == c # Nil /\ (d = Nil \/ c[2] < d[2])

Place(cells, k) ==
  1 + Cardinality({l \in DOMAIN cells :
        Below(cells[l], cells[k]) \/ (~Below(cells[k], cells[l]) /\ l < k)})

SortedCells(cells) ==
  [p \in DOMAIN cells |-> cells[CHOOSE k \in DOMAIN cells : Place(cells, k) = p]]

-----------------------------------------------------------------------------
(* Statements.  w is the list that a statement reads, v the variable that  *)
(* it assigns to; pop, append_to and assignments to elements have the      *)
(* same for both.                                                          *)

Gives(st, r) ==
  /\ heap' = r.heap
  /\ lists' = [lists EXCEPT ![st.v] = r.list]

Shows(st, s) == Gives(st, [heap |-> heap, list |-> s])

w(st) == lists[st.w]

literal(st) == Gives(st, Made(<<Number(st.n)>>, 1, FALSE))

(* v = 1..RangeEnd: the list is a constant of the compiled statement.      *)
TheRange == Slice(1, 0, RangeEnd)

range(st) == Shows(st, TheRange)

nest(st) ==
  /\ Flat(w(st)) /\ Flat(lists[st.x])
  /\ Gives(st, Made(<<Item(w(st)), Item(lists[st.x])>>, 2, FALSE))

assign(st) == Shows(st, w(st))

element(st) ==
  /\ st.i < LenOf(w(st)) /\ IsList(Cells(w(st))[st.i + 1])
  /\ Shows(st, Cells(w(st))[st.i + 1][2])

slice(st) ==
  /\ st.i <= st.j /\ st.j <= LenOf(w(st))
  /\ Shows(st, Slice(w(st).array, w(st).from + st.i, w(st).from + st.j))

tail(st) ==
  IF LenOf(w(st)) = 0 THEN Gives(st, Made(<<>>, 0, Typed(w(st))))
  ELSE Shows(st, [w(st) EXCEPT !.from = @ + 1])

pop(st) == LenOf(w(st)) > 0 /\ Shows(st, [w(st) EXCEPT !.to = @ - 1])

(* A mutant of esplit: the item at the position is in neither half.        *)
esplitOff(st) ==
  /\ st.i \in 1..LenOf(w(st))
  /\ LET mid == w(st).from + st.i
     IN  lists' = [[lists EXCEPT ![st.v] = [w(st) EXCEPT !.to = mid - 1]]
                     EXCEPT ![st.x] = [w(st) EXCEPT !.from = mid]]
  /\ UNCHANGED heap

esplit(st) ==
  /\ st.i \in 1..LenOf(w(st))
  /\ LET mid == w(st).from + st.i - 1
     IN  lists' = [[lists EXCEPT ![st.v] = [w(st) EXCEPT !.to = mid]]
                     EXCEPT ![st.x] = [w(st) EXCEPT !.from = mid]]
  /\ UNCHANGED heap

append(st) ==
  LET s == w(st)
      cap == CapOf(s)
  IN  Gives(st, IF LenOf(s) < cap THEN Appended(s, <<Number(st.n)>>)
                ELSE Made(Append(Cells(s), Number(st.n)),
                          IF cap <= 1 THEN cap + 1 ELSE (3 * cap) \div 2, Typed(s)))

append_to(st) == Gives(st, Appended(w(st), <<Number(st.n)>>))

concat(st) ==
  /\ Typed(w(st)) = Typed(lists[st.x])
  /\ Gives(st, Appended(w(st), Cells(lists[st.x])))

(* A number put in front of a list of any values becomes its text. *)
Front_(st) == IF Typed(w(st)) THEN Number(st.n) ELSE Text(st.n)

push_front(st) ==
  LET typed == Typed(w(st))
  IN  Gives(st, Made(<<Front_(st)>> \o Cells(w(st)),
                     Grown(Grown(FirstCap, 1, typed), LenOf(w(st)) + 1, typed), typed))

insert(st) ==
  /\ st.i \in 1..LenOf(w(st)) + 1
  /\ LET typed == Typed(w(st))
         before == Grown(FirstCap, st.i - 1, typed)
     IN  Gives(st, Made(InsertAt(Cells(w(st)), st.i, Number(st.n)),
                        Grown(Grown(before, st.i, typed), LenOf(w(st)) + 1, typed), typed))

(* A mutant of remove: the items after it move up in the array.            *)
removeInPlace(st) ==
  /\ st.i \in 1..LenOf(w(st))
  /\ Gives(st, [heap |-> Written(w(st), w(st).from, RemoveAt(Cells(w(st)), st.i)),
                list |-> [w(st) EXCEPT !.to = @ - 1]])

remove(st) ==
  /\ st.i \in 1..LenOf(w(st))
  /\ LET typed == Typed(w(st))
         before == Grown(FirstCap, st.i - 1, typed)
     IN  Gives(st, Made(RemoveAt(Cells(w(st)), st.i), Grown(before, LenOf(w(st)) - 1, typed), typed))

list_fill(st) ==
  LET len == LenOf(w(st))
  IN  Gives(st, Made([k \in 1..len |-> Number(st.n)], len, Typed(w(st))))

(* v = w + n, element by element: a list of integers if it has any. *)
Plus(cells, n) == [k \in DOMAIN cells |-> Number(cells[k][2] + n)]

add(st) ==
  /\ \A k \in DOMAIN Cells(w(st)) : Cells(w(st))[k][1] = "number"
  /\ Gives(st, Made(Plus(Cells(w(st)), st.n), LenOf(w(st)), Typed(w(st)) \/ LenOf(w(st)) > 0))

sort(st) ==
  LET s == w(st)
  IN  /\ Flat(s)
      /\ Gives(st, [heap |-> Written(s, s.from, SortedCells(Cells(s))), list |-> s])

(* The argument is sorted where it is; the result is new from two items up. *)
Once(cells) == SortedCells(SetToSeq(ToSet(cells)))

uniq(st) ==
  LET s == w(st)
      h == Written(s, s.from, SortedCells(Cells(s)))
      u == Once(Cells(s))
  IN  /\ Typed(s)
      /\ IF LenOf(s) <= 1 THEN Shows(st, s)
         ELSE Gives(st, MadeIn(h, u, Doubled(Len(u)), TRUE))

(* v[i] = n.  An assignment past the end copies the list, even if there is *)
(* room in its array.                                                      *)
Put(cells, i, typed, c) ==
  [k \in 1..(IF i < Len(cells) THEN Len(cells) ELSE i + 1) |->
     CASE k = i + 1 -> c
       [] k # i + 1 /\ k <= Len(cells) -> cells[k]
       [] OTHER -> Zero(typed)]

set(st) ==
  LET s == w(st)
      cap == CapOf(s)
      want == CASE cap = 0 -> 1 [] st.i < cap -> cap [] OTHER -> 2 * cap
  IN  Gives(st,
        IF st.i < LenOf(s)
        THEN [heap |-> Written(s, s.from + st.i, <<Number(st.n)>>), list |-> s]
        ELSE Made(Put(Cells(s), st.i, Typed(s), Number(st.n)),
                  IF st.i < want THEN want ELSE st.i + 1, Typed(s)))

(* v[i][j] = n: recursiveAssign copies the list and, one by one, the lists *)
(* in it.  A nil in the list, or in the list in it that is assigned to,    *)
(* ends the script; so only a list of integers can be assigned to past its *)
(* end.                                                                    *)
Changed(t, j, n) ==
  Filled(Put(Cells(t), j, Typed(t), Number(n)),
         IF j < CapOf(t) THEN CapOf(t) ELSE IF j + 1 < 2 * CapOf(t) THEN 2 * CapOf(t) ELSE j + 1,
         Typed(t))

inner(st) ==
  LET s == w(st)
      old == Cells(s)
      copies == [k \in DOMAIN old |->
        CASE ~IsList(old[k]) -> Filled(<<>>, 0, FALSE)
          [] IsList(old[k]) /\ k # st.i + 1 ->
               Filled(Cells(old[k][2]), Doubled(LenOf(old[k][2])), Typed(old[k][2]))
          [] IsList(old[k]) /\ k = st.i + 1 -> Changed(old[k][2], st.j, st.n)]
      lens == [k \in DOMAIN old |->
        IF k = st.i + 1 /\ LenOf(old[k][2]) <= st.j THEN st.j + 1 ELSE LenOf(old[k][2])]
      new == [k \in DOMAIN old |->
        IF IsList(old[k]) THEN Item(Slice(Len(heap) + k, 0, lens[k])) ELSE old[k]]
  IN  /\ st.i < LenOf(s) /\ IsList(old[st.i + 1]) /\ Nil \notin ToSet(old)
      /\ Nil \notin ToSet(Cells(old[st.i + 1][2]))
      /\ st.j < LenOf(old[st.i + 1][2]) \/ Typed(old[st.i + 1][2])
      /\ Gives(st, MadeIn(heap \o copies, new, CapOf(s), FALSE))

Do(st) ==
  \/ st.op = "literal" /\ literal(st)
  \/ st.op = "range" /\ range(st)
  \/ st.op = "nest" /\ nest(st)
  \/ st.op = "assign" /\ assign(st)
  \/ st.op = "element" /\ element(st)
  \/ st.op = "slice" /\ slice(st)
  \/ st.op = "tail" /\ tail(st)
  \/ st.op = "pop" /\ pop(st)
  \/ st.op = "esplit" /\ esplit(st)
  \/ st.op = "append" /\ append(st)
  \/ st.op = "append_to" /\ append_to(st)
  \/ st.op = "concat" /\ concat(st)
  \/ st.op = "push_front" /\ push_front(st)
  \/ st.op = "insert" /\ insert(st)
  \/ st.op = "remove" /\ remove(st)
  \/ st.op = "list_fill" /\ list_fill(st)
  \/ st.op = "add" /\ add(st)
  \/ st.op = "sort" /\ sort(st)
  \/ st.op = "uniq" /\ uniq(st)
  \/ st.op = "set" /\ set(st)
  \/ st.op = "inner" /\ inner(st)

-----------------------------------------------------------------------------
(* Statements that keep every list in one variable: they copy, or give     *)
(* their result to the variable they read.                                 *)
Own(st) ==
  \/ st.op \in {"literal", "push_front", "insert", "remove", "list_fill", "add", "set", "inner"}
  \/ st.op \in {"append", "append_to", "concat", "sort", "uniq", "tail", "pop", "slice"} /\ st.v = st.w

(* A variable is declared as [1], append(1), or push_front([1], 1). *)
FirstLists ==
  {<<Filled(<<Number(1)>>, 1, FALSE), 1>>, <<Filled(<<Number(1)>>, FirstCap, TRUE), 1>>,
   <<Filled(<<Text(1), Number(1)>>, FirstCap, FALSE), 2>>}

Init ==
  /\ heap = <<Filled([k \in 1..RangeEnd |-> Number(k)], RangeEnd, FALSE)>>
  /\ lists = [v \in Vars |-> None]
  /\ steps = 0
  /\ last = None
  /\ owned = TRUE

Declare(v) ==
  /\ lists[v] = None
  /\ \E f \in FirstLists :
       /\ heap' = Append(heap, f[1])
       /\ lists' = [lists EXCEPT ![v] = Slice(Len(heap) + 1, 0, f[2])]
  /\ UNCHANGED <<steps, last, owned>>

Statement(st) ==
  /\ steps < MaxSteps
  /\ \A v \in Vars : lists[v] # None
  /\ Do(st)
  /\ steps' = steps + 1
  /\ last' = st
  /\ owned' = (owned /\ Own(st))

Next ==
  \/ \E v \in Vars : Declare(v)
  \/ \E st \in Statements : Statement(st)

Spec == Init /\ [][Next]_vars

-----------------------------------------------------------------------------
(* What a statement means for lists that share nothing. *)

Value(s) == [k \in 1..LenOf(s) |->
  IF IsList(Cells(s)[k]) THEN <<"list", Cells(Cells(s)[k][2])>> ELSE Cells(s)[k]]

FirstN(n) == [k \in 1..n |-> Number(k)]

Meaning(st) ==
  LET x == Value(w(st))
  IN  CASE st.op = "literal"    -> <<Number(st.n)>>
        [] st.op = "range"      -> FirstN(RangeEnd)
        [] st.op = "nest"       -> <<<<"list", x>>, <<"list", Value(lists[st.x])>>>>
        [] st.op = "assign"     -> x
        [] st.op = "element"    -> x[st.i + 1][2]
        [] st.op = "slice"      -> SubSeq(x, st.i + 1, st.j)
        [] st.op = "tail"       -> IF x = <<>> THEN x ELSE Tail(x)
        [] st.op = "pop"        -> Front(x)
        [] st.op = "esplit"     -> SubSeq(x, IF st.v = st.x THEN st.i ELSE 1,
                                             IF st.v = st.x THEN Len(x) ELSE st.i - 1)
        [] st.op \in {"append", "append_to"} -> Append(x, Number(st.n))
        [] st.op = "concat"     -> x \o Value(lists[st.x])
        [] st.op = "push_front" -> <<Front_(st)>> \o x
        [] st.op = "insert"     -> InsertAt(x, st.i, Number(st.n))
        [] st.op = "remove"     -> RemoveAt(x, st.i)
        [] st.op = "list_fill"  -> [k \in DOMAIN x |-> Number(st.n)]
        [] st.op = "add"        -> Plus(x, st.n)
        [] st.op = "sort"       -> SortedCells(x)
        [] st.op = "uniq"       -> Once(x)
        [] st.op = "set"        -> Put(x, st.i, Typed(w(st)), Number(st.n))
        [] st.op = "inner"      ->
             [x EXCEPT ![st.i + 1][2] = Put(@, st.j, TRUE, Number(st.n))]

(* A list that shares its array may have been written to through another   *)
(* list, and the range too.                                                *)
RangeSpoilt == Cells(TheRange) # FirstN(RangeEnd)

(* The statements that write into an array they are given, and the arrays  *)
(* of the lists that are elements of a list.                               *)
Writers == {"append", "append_to", "concat", "sort", "uniq", "set"}

Inside(s) == {c[2].array : c \in {d \in ToSet(Cells(s)) : IsList(d)}}
Arrays(s) == {s.array} \union Inside(s)

(* A statement may write into the array of an element of the list it is    *)
(* making, which changes with it and may come to contain itself.           *)
IntoItself(st) ==
  /\ st.op \in Writers
  /\ \/ w(st).array \in Inside(w(st))
     \/ st.op = "concat" /\ w(st).array \in Inside(lists[st.x])

(* Every statement gives its variable the list it means, whatever shares   *)
(* arrays with what, unless it writes into an element of that list; only   *)
(* 1..RangeEnd is what the last owner left of it.  An element that has     *)
(* lists in it is a list deeper than Meaning looks.                        *)
AsMeant == [][
  steps' # steps =>
    \/ last'.op = "range" /\ RangeSpoilt
    \/ IntoItself(last')
    \/ last'.op = "element" /\ ~Flat(lists[last.v])'
    \/ Value(lists[last.v])' = Meaning(last')]_vars

(* A list changes behind its variable only by a statement that writes into *)
(* an array it shares.                                                     *)
Assigned(st) == IF st.op = "esplit" THEN {st.v, st.x} ELSE {st.v}

OnlyShared == [][
  steps' # steps =>
    \A v \in Vars \ Assigned(last') : Value(lists[v])' # Value(lists[v]) =>
      last'.op \in Writers /\ w(last').array \in Arrays(lists[v])]_vars

(* In a script that only copies lists, or gives results to the variable    *)
(* they came from, no two variables share an array: with OnlyShared, no    *)
(* list changes behind its variable.                                       *)
OwnApart ==
  owned => \A v, u \in Vars :
    (v # u /\ lists[v] # None /\ lists[u] # None) =>
      Arrays(lists[v]) \intersect Arrays(lists[u]) = {}
=============================================================================

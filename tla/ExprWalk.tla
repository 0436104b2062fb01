------------------------------ MODULE ExprWalk ------------------------------
(***************************************************************************)
(* The other evaluator (Eval and dparse in eval.go), for what is not       *)
(* compiled: it computes while it parses.  A call of dparse that panics    *)
(* recovers, stays where it was among the tokens and gives back nil and an *)
(* error.                                                                  *)
(***************************************************************************)
EXTENDS ExprTree

(* A call under way, or its result: the tokens consumed, the value on the  *)
(* left, whether the last operand failed, and whether the call panicked.   *)
At(pos) == [pos |-> pos, left |-> Nil, err |-> FALSE, panics |-> FALSE]
Panicked(s) == [s EXCEPT !.panics = TRUE]
Got(s, v) == IF Panics(v) THEN Panicked(s) ELSE [s EXCEPT !.left = v]
Recovered(s) == IF s.panics THEN [At(s.pos) EXCEPT !.err = TRUE] ELSE s

PeekAt(ts, pos) == IF pos + 1 > Len(ts) THEN Token("eof") ELSE ts[pos + 1]

(* dparse with "skip": over an operand that is not evaluated, as far as a  *)
(* comma, a closing parenthesis or an operator that binds no tighter, or a *)
(* colon.  It counts parentheses, and not brackets.                        *)
RECURSIVE Skipped(_, _, _, _)
StopsSkipLate(t, prec, level) ==
  t.tok \in {":", "eof"} \/ (level = 0 /\ t.tok \in {")", ","})

StopsSkip(t, prec, level) ==
  \/ t.tok \in {":", "eof"}
  \/ level = 0 /\ t.tok \in {")", ","}
  \/ level = 0 /\ t.tok # "(" /\ Prec(t.tok) > 1 /\ prec >= Prec(t.tok)

Skipped(ts, prec, pos, level) ==
  LET t == PeekAt(ts, pos) IN
  IF StopsSkip(t, prec, level) THEN pos
  ELSE Skipped(ts, prec, pos + 1,
               CASE t.tok = "(" -> level + 1 [] t.tok = ")" -> level - 1 [] OTHER -> level)
Skip(ts, prec, pos) == Skipped(ts, prec, pos, 0)

RECURSIVE Dparse(_, _, _), Operators(_, _, _), ArrayItems(_, _)

(* A panic of the caller if the operand failed; else on from its end. *)
Needs(s, r) ==
  [pos |-> r.pos, left |-> r.left, err |-> s.err, panics |-> r.err]

(* array_concat, which allows for a comma at the end. *)
ArrayItems(ts, s) ==
  LET r == Dparse(ts, 0, s.pos)
      items == ListVal(Append(s.left.list, r.left), <<"any">>)
  IN  CASE PeekAt(ts, s.pos).tok = "]" -> [s EXCEPT !.pos = @ + 1]
        [] r.err -> Panicked([s EXCEPT !.pos = r.pos])
        [] PeekAt(ts, r.pos).tok = "," -> ArrayItems(ts, [s EXCEPT !.pos = r.pos + 1, !.left = items])
        [] OTHER -> [s EXCEPT !.pos = r.pos + (IF PeekAt(ts, r.pos).tok = "]" THEN 1 ELSE 0),
                              !.left = items]

(* What begins an operand. *)
Operand_(ts, pos) ==
  LET t == ts[pos + 1]
      s == At(pos + 1)
      inner(prec) == Dparse(ts, prec, pos + 1)
  IN  CASE t.tok = "lit" -> Got(s, t.val)
        [] t.tok = "ident" -> Got(s, t.val)
        [] t.tok \in {"-", "+", "!"} ->
             LET r == Needs(s, inner(UnaryPrec(t.tok)))
             IN  IF r.panics THEN r ELSE Got(r, UnaryApplied(t.tok, r.left))
        [] t.tok = "(" ->
             LET r == Needs(s, inner(0)) IN
             IF r.panics THEN r
             ELSE IF r.pos + 1 > Len(ts) THEN Panicked(r) ELSE [r EXCEPT !.pos = @ + 1]
        [] t.tok = "[" -> ArrayItems(ts, Got(s, ListVal(<<>>, <<"any">>)))
        [] OTHER -> Panicked(s)

(* SYM_LAND, SYM_LOR *)
And(ts, s) ==
  CASE ~CanBool(s.left) -> Panicked(s)
    [] asBool(s.left) ->
         LET r == Needs(s, Dparse(ts, Prec("&&") + 1, s.pos))
         IN  IF r.panics THEN r ELSE Got([r EXCEPT !.err = FALSE], Bools(r.left))
    [] OTHER -> [s EXCEPT !.pos = Skip(ts, Prec("&&") + 1, @), !.left = BoolVal(FALSE)]
Or(ts, s) ==
  LET r == Needs(s, Dparse(ts, Prec("||") + 1, s.pos)) IN
  CASE ~CanBool(s.left) -> Panicked(s)
    [] asBool(s.left) ->
         [s EXCEPT !.pos = Skip(ts, Prec("||") + 1, @),
                   !.left = IF Is(@, "str") THEN @ ELSE BoolVal(TRUE)]
    [] r.panics -> r
    [] Is(s.left, "str") -> [r EXCEPT !.err = FALSE]
    [] OTHER -> Got([r EXCEPT !.err = FALSE], Bools(r.left))

(* accessArray of the parser: an index that is not an int or a float is    *)
(* as good as none, and then the whole is taken.  An index of a number is  *)
(* a lower limit for it.                                                   *)
Taken(v, i) ==
  CASE Numeric(v) -> IF Compare(">", i, v) = BoolVal(TRUE) THEN i ELSE v
    [] ~IsList(v) /\ ~Is(v, "str") -> Nil
    [] Is(i, "int") \/ Is(i, "float") -> Access(v, i)
    [] OTHER -> v
Subscript(ts, s) ==
  LET r == Needs(s, Dparse(ts, 0, s.pos)) IN
  CASE r.panics -> r
    [] PeekAt(ts, r.pos).tok # "]" -> Panicked(r)
    [] OTHER -> Got([r EXCEPT !.pos = @ + 1], Taken(s.left, r.left))

(* The branch that is not taken is skipped. *)
Query(ts, s) ==
  LET true == IF s.left = BoolVal(TRUE) THEN Dparse(ts, 0, s.pos) ELSE At(Skip(ts, 0, s.pos))
      colon == true.pos + 1
      false == Dparse(ts, 0, colon)
  IN  CASE ~Is(s.left, "bool") -> Panicked(s)
        [] PeekAt(ts, true.pos).tok # ":" -> Panicked([s EXCEPT !.pos = true.pos])
        [] s.left.bool -> [true EXCEPT !.pos = Skip(ts, 0, colon)]
        [] OTHER -> false

(* int64 from a shift: ev_shift_left, ev_shift_right *)
Shift64(tok, a, b) ==
  IF Integral(a) /\ Integral(b)
  THEN Int64Val(Shift(tok, Number(a), IF Number(b) < 0 THEN WORD ELSE Number(b)))
  ELSE Panic
WalkApplied(tok, a, b) ==
  IF tok \in {"<<", ">>"} THEN Shift64(tok, a, b) ELSE Applied(tok, a, b)

(* The other binary operators do not ask whether their right side failed. *)
Dyadic(ts, tok, s) ==
  LET r == Dparse(ts, Prec(tok) + 1, s.pos) IN
  Got([r EXCEPT !.left = s.left], WalkApplied(tok, s.left, r.left))

Operator(ts, t, s) ==
  CASE t.tok = "&&" -> And(ts, s)
    [] t.tok = "||" -> Or(ts, s)
    [] t.tok = "[" -> Subscript(ts, s)
    [] t.tok = "?" -> Query(ts, s)
    [] t.tok \in {"lit", "ident", "(", "!"} -> Panicked(s)
    [] OTHER -> Dyadic(ts, t.tok, s)

Operators(ts, prec, s) ==
  LET t == PeekAt(ts, s.pos) IN
  IF s.panics \/ prec >= Prec(t.tok) THEN s
  ELSE Operators(ts, prec, Operator(ts, t, [s EXCEPT !.pos = @ + 1]))

Dparse(ts, prec, pos) ==
  IF pos >= Len(ts) THEN At(pos) ELSE Recovered(Operators(ts, prec, Operand_(ts, pos)))

(* The tokens with the values of the variables, where a variable that has *)
(* none makes its operand panic; and the result of Eval.                   *)
Bound(ts, env) ==
  [i \in DOMAIN ts |->
     IF ts[i].tok = "ident" THEN [tok |-> "ident", val |-> env[ts[i].name]] ELSE ts[i]]
Walk(ts, env) ==
  LET r == Dparse(Bound(ts, env), 0, 0) IN IF r.err THEN Panic ELSE r.left
=============================================================================

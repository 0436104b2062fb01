--------------------------- MODULE MCExpressions ---------------------------
(* Scripts of one expression over constants, or of a variable x and one    *)
(* expression over it.                                                     *)
EXTENDS Expressions

I(n) == Lit(IntVal(n))
Halves(n) == Lit(FloatVal(Fraction(n, 2)))
Chars(cs) == Lit(StrVal([i \in DOMAIN cs |-> <<cs[i]>>]))
Empty == Chars(<<>>)
A == Chars(<<97>>)
True == Lit(BoolVal(TRUE))
False == Lit(BoolVal(FALSE))
X == Var("x")

Leaves_ == {I(0), I(2), I(100), Halves(3), Halves(0), Empty, A, True, False, Lit(Nil)}
Operators_ == {"+", "-", "*", "/", "%", "**", "<", ">=", "==", "!=", "&&", "||", "..", "in",
               "&", "|", "^", "<<", ">>"}

(* Left out: powers that are no fraction or too large, and what panics     *)
(* while the script is read.                                               *)
IsFloat(e) == e.node = "lit" /\ Is(e.val, "float")
RECURSIVE Accepted(_)
Accepted(e) ==
  /\ e.node = "binary" =>
       /\ e.tok = "**" => e.y \in {I(0), I(2), A, Lit(Nil)}
       /\ e.tok \in {"&&", "||"} => ~IsFloat(e.x)
       /\ e.tok \in {"<<", ">>"} => ~(e.y.node = "unary" /\ e.y.x.node = "lit")
  /\ \A child \in Children(e) : Accepted(child)
Select(es) == {e \in es : Accepted(e)}

Alone(modes, es) == {[mode |-> t[1], phrases |-> <<Phrase("y", t[2], FALSE)>>] : t \in modes \X es}
With(modes, xs, es) ==
  {[mode |-> t[1], phrases |-> <<Phrase("x", t[2], FALSE), Phrase("y", t[3], FALSE)>>] :
     t \in modes \X xs \X es}

Applied_(es, fs) == Select({Binary(t[1], t[2], t[3]) : t \in Operators_ \X es \X fs})
Twice(a, b, c) ==
  Select({Binary(t[1], Binary(t[2], a, b), c) : t \in Operators_ \X Operators_}
         \cup {Binary(t[1], a, Binary(t[2], b, c)) : t \in Operators_ \X Operators_})

Pairs_ ==
  Alone({"main", "walked"}, Applied_(Leaves_, Leaves_))
  \cup With({"main", "function"}, Leaves_, Applied_({X}, Leaves_) \cup Applied_(Leaves_, {X}))
Triples ==
  Alone({"main", "walked"}, Twice(I(5), I(2), I(1)) \cup Twice(True, I(2), I(0))
                             \cup Twice(False, I(2), I(1)))
  \cup With(Modes, {I(2)}, Twice(I(5), X, I(1)) \cup Twice(X, I(2), X))

Signs == {"-", "!"}
Few == {I(2), True}
Unaries ==
  Alone({"main", "walked"},
        {Unary(u, e) : u \in {"-", "+", "!"}, e \in Leaves_ \cup Applied_(Few, {I(1), Halves(3)})}
        \cup Applied_({Unary(u, e) : u \in Signs, e \in Few}, {I(2), Halves(3)})
        \cup Applied_(Few, {Unary(u, e) : u \in Signs, e \in Few}))
  \cup With(Modes, Leaves_,
            {Unary(u, X) : u \in {"-", "+", "!"}}
            \cup {Unary(u, Unary(w, X)) : u \in Signs, w \in Signs}
            \cup Applied_({Unary(u, X) : u \in Signs}, {X})
            \cup Applied_({X}, {Unary(u, X) : u \in Signs}))

Conditions == {True, False, I(2), A, Lit(Nil), X, Binary(">=", X, I(2)), Binary("||", X, False)}
Picks(e, f) == {Ternary(c, e, f) : c \in {True, Binary(">=", X, I(2))}}
Ternaries ==
  With(Modes, {I(2), True, Halves(3), A},
       {Ternary(c, e, f) : c \in Conditions, e \in {I(1), Binary("+", X, I(1))},
                           f \in {I(5), Binary("*", I(5), X)}}
       \cup {Ternary(c, t, f) : c \in {True, False}, t \in Picks(I(1), I(2)), f \in Picks(I(3), I(4))}
       \cup Applied_({I(5)}, Picks(I(1), I(2))) \cup Applied_(Picks(I(1), I(2)), {I(5)})
       \cup Applied_({Halves(3)}, {Binary("|", I(1), t) : t \in Picks(I(1), I(2))}))

Lists == {Array(<<>>), Array(<<I(1)>>), Array(<<X, I(2)>>), Array(<<Halves(3), Halves(1)>>),
          Array(<<I(1), Binary("+", X, I(2)), A>>)}
Indexes ==
  {Index(e, i) : e \in Lists, i \in {I(0), I(1), X, Unary("-", X), Halves(3), A}}
  \cup {Index(X, i) : i \in {I(0), I(1), X}}
Arrays ==
  With(Modes, {I(0), I(2), A},
       Lists \cup Indexes
       \cup Applied_(Lists, Lists \cup {I(2), X}) \cup Applied_({I(2), X, Halves(3), Lit(Nil)}, Lists)
       \cup Applied_({Index(e, I(0)) : e \in Lists}, {I(2)})
       \cup {Ternary(True, e, Index(e, I(0))) : e \in Lists}
       \cup {Ternary(X, Index(e, I(0)), e) : e \in Lists})

(* x = a; if ...; x = b; endif; y = x + c *)
Branch(modes, as, bs) ==
  {[mode |-> m, phrases |-> <<Phrase("z", I(2), FALSE), Phrase("x", a, FALSE),
                              Phrase("x", b, TRUE), Phrase("y", Binary(tok, X, c), FALSE)>>] :
     m \in modes, a \in as, b \in bs, tok \in {"+", "<"}, c \in {I(1), Halves(3)}}
Branches ==
  Branch(Modes, {I(1), Halves(3)},
         {Binary("+", Var("z"), I(1)), Binary("/", Var("z"), Halves(1)), Var("z")})

(* The first token of an assignment tells another type than its value has; *)
(* the order of texts below other operators.                               *)
Misleading ==
  Branch(Modes, {I(1), Halves(3), Binary("+", I(2), Halves(3))}, {I(1), Halves(3), A})
  \cup With(Modes, {Binary("+", I(2), Halves(3)), Binary("<", A, Empty), Index(Array(<<A>>), I(0))},
            Applied_({X}, {I(2), Halves(3), A}) \cup {Unary("-", X)})
Texts ==
  With({"main", "function"}, {A},
       Twice(X, A, I(2)) \cup Twice(X, X, A) \cup Twice(I(2), X, A) \cup Twice(A, A, X) \cup Twice(X, Empty, A)
       \cup Applied_({Unary("+", X), X}, {Unary("+", A)})
       \cup {Ternary(Binary(tok, X, A), I(1), e) : tok \in {"<", "=="}, e \in {I(2), X}}
       \cup {Array(<<Binary("<", X, A), Binary(tok, I(1), X)>>) : tok \in {"+", "=="}})

MCScripts == <<Pairs_, Triples, Unaries, Ternaries, Arrays, Branches, Misleading, Texts>>
=============================================================================

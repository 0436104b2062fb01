------------------------------ MODULE ExprTree ------------------------------
(***************************************************************************)
(* Expressions as trees, the tokens that write them with no more           *)
(* parentheses than the table of precedences asks for, and what they mean. *)
(***************************************************************************)
EXTENDS ExprValues

Lit(v) == [node |-> "lit", val |-> v]
Var(name) == [node |-> "var", name |-> name]
Unary(tok, x) == [node |-> "unary", tok |-> tok, x |-> x]
Binary(tok, x, y) == [node |-> "binary", tok |-> tok, x |-> x, y |-> y]
Index(x, i) == [node |-> "index", x |-> x, i |-> i]
Array(xs) == [node |-> "array", xs |-> xs]
Ternary(c, x, y) == [node |-> "ternary", c |-> c, x |-> x, y |-> y]

-----------------------------------------------------------------------------
(* default_prectable.  What has no entry there does not continue an        *)
(* expression.                                                             *)
Invalid == -100
Comparisons == Orders \cup {"==", "!="}
Prec(tok) ==
  CASE tok = "eof" -> -1
    [] tok \in {"lit", "ident"} -> 1
    [] tok = "||" -> 14
    [] tok = "&&" -> 16
    [] tok = "|" -> 19
    [] tok \in {"&", "^"} -> 20
    [] tok \in {"<<", ">>"} -> 21
    [] tok = "?" -> 23
    [] tok = "!" -> 24
    [] tok \in Comparisons -> 25
    [] tok = "in" -> 26
    [] tok = ".." -> 29
    [] tok \in {"+", "-"} -> 31
    [] tok \in {"*", "/", "%"} -> 35
    [] tok = "**" -> 37
    [] tok = "[" -> 45
    [] tok = "(" -> 100
    [] OTHER -> Invalid

UnaryPrec(tok) == IF tok = "!" THEN 24 ELSE 38

Token(tok) == [tok |-> tok]
PrecOf(e) ==
  CASE e.node = "binary" -> Prec(e.tok)
    [] e.node = "unary" -> UnaryPrec(e.tok)
    [] e.node = "ternary" -> 0
    [] OTHER -> Prec("[")

RECURSIVE Written(_)
(* An operand, in parentheses unless it binds at least so tightly. *)
Operand(e, prec) ==
  IF PrecOf(e) >= prec THEN Written(e) ELSE <<Token("(")>> \o Written(e) \o <<Token(")")>>
Written(e) ==
  CASE e.node = "lit" -> <<[tok |-> "lit", val |-> e.val]>>
    [] e.node = "var" -> <<[tok |-> "ident", name |-> e.name]>>
    [] e.node = "unary" -> <<Token(e.tok)>> \o Operand(e.x, UnaryPrec(e.tok) + 1)
    [] e.node = "binary" ->
         Operand(e.x, Prec(e.tok)) \o <<Token(e.tok)>> \o Operand(e.y, Prec(e.tok) + 1)
    [] e.node = "index" -> Operand(e.x, Prec("[")) \o <<Token("[")>> \o Written(e.i) \o <<Token("]")>>
    [] e.node = "array" ->
         <<Token("[")>>
           \o FlattenSeq([i \in 1..Len(e.xs) |->
                (IF i = 1 THEN <<>> ELSE <<Token(",")>>) \o Written(e.xs[i])])
           \o <<Token("]")>>
    [] e.node = "ternary" ->
         Operand(e.c, Prec("?") + 1) \o <<Token("?")>> \o Written(e.x) \o <<Token(":")>> \o Written(e.y)

-----------------------------------------------------------------------------
(* What an expression means, where the variables are "env".  && and ||    *)
(* look at their right side only when the left does not decide; || gives   *)
(* back a string.                                                          *)
Bools(v) == IF Panics(v) \/ ~CanBool(v) THEN Panic ELSE BoolVal(asBool(v))
Shifted(tok, a, b) ==
  CASE ~Integral(a) \/ ~Integral(b) -> Panic
    [] Number(b) < 0 -> Panic
    [] OTHER -> IntVal(Shift(tok, Number(a), Number(b)))
Applied(tok, a, b) ==
  CASE tok \in Arithmetics \cup Orders -> Elementwise(tok, a, b)
    [] tok = "==" -> DeepEqual(a, b)
    [] tok = "!=" -> IF Panics(DeepEqual(a, b)) THEN Panic ELSE BoolVal(~DeepEqual(a, b).bool)
    [] tok = ".." -> Range_(a, b)
    [] tok = "in" -> In(a, b)
    [] tok \in {"&", "|", "^"} ->
         IF HasInteger(a) /\ HasInteger(b)
         THEN IntVal(Bitwise(tok, as_integer(a), as_integer(b))) ELSE Panic
    [] tok \in {"<<", ">>"} -> Shifted(tok, a, b)

(* unaryMinus, unaryPlus, unaryNegate *)
Negated(v) ==
  CASE Integral(v) -> IntVal(Wrap(-Number(v)))
    [] Is(v, "float") -> FloatVal(Minus(v.float))
    [] OTHER -> Panic
UnaryApplied(tok, v) ==
  CASE tok = "-" -> Negated(v)
    [] tok = "+" -> IF Integral(v) THEN IntVal(Number(v)) ELSE IF Is(v, "float") THEN v ELSE Panic
    [] tok = "!" -> IF CanBool(v) THEN BoolVal(~asBool(v)) ELSE Panic

RECURSIVE Meaning(_, _)
MeaningOr(e, env) ==
  LET a == Meaning(e.x, env)
      b == Meaning(e.y, env)
  IN  CASE Panics(a) -> Panic
        [] Is(a, "str") -> IF a.str # <<>> THEN a ELSE b
        [] ~CanBool(a) -> Panic
        [] OTHER -> IF asBool(a) THEN BoolVal(TRUE) ELSE Bools(b)
MeaningAnd(e, env) ==
  LET a == Meaning(e.x, env) IN
  CASE Panics(a) \/ ~CanBool(a) -> Panic
    [] OTHER -> IF asBool(a) THEN Bools(Meaning(e.y, env)) ELSE BoolVal(FALSE)
Meaning(e, env) ==
  CASE e.node = "lit" -> e.val
    [] e.node = "var" -> env[e.name]
    [] e.node = "unary" ->
         LET v == Meaning(e.x, env) IN IF Panics(v) THEN Panic ELSE UnaryApplied(e.tok, v)
    [] e.node = "binary" /\ e.tok = "&&" -> MeaningAnd(e, env)
    [] e.node = "binary" /\ e.tok = "||" -> MeaningOr(e, env)
    [] e.node = "binary" ->
         LET a == Meaning(e.x, env)  b == Meaning(e.y, env)
         IN  IF Panics(a) \/ Panics(b) THEN Panic ELSE Applied(e.tok, a, b)
    [] e.node = "index" ->
         LET a == Meaning(e.x, env)  i == Meaning(e.i, env)
         IN  IF Panics(a) \/ Panics(i) THEN Panic ELSE Access(a, i)
    [] e.node = "array" ->
         LET xs == [i \in 1..Len(e.xs) |-> Meaning(e.xs[i], env)]
         IN  IF \E i \in DOMAIN xs : Panics(xs[i]) THEN Panic ELSE ListVal(xs, <<"any">>)
    [] e.node = "ternary" ->
         LET c == Meaning(e.c, env)
         IN  IF Panics(c) \/ ~Is(c, "bool") THEN Panic
             ELSE Meaning(IF c.bool THEN e.x ELSE e.y, env)
=============================================================================

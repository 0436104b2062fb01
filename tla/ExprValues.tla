----------------------------- MODULE ExprValues -----------------------------
(***************************************************************************)
(* The values of expressions and the operators on them (eval_ops.go,       *)
(* array_ops.go).  A value has one field, named for its Go type, so that   *)
(* values of two types are different; a list also says the type of its     *)
(* elements, <<"any">> for []any.  int and int64 have WORD bits.  A float  *)
(* is an exact fraction, <<1, 0>> and <<-1, 0>> are the infinities and     *)
(* <<0, 0>> is NaN.  A string is a sequence of letters: <<code>> for a     *)
(* character, the fraction for a formatted number.  float32, big numbers,  *)
(* unsigned integers, maps and structs are left out, and so is -0.0.       *)
(***************************************************************************)
EXTENDS Integers, Sequences, SequencesExt, Functions

CONSTANT WORD   \* bits of an int

ASSUME WordAssumption == WORD \in 4..12

IntVal(n) == [int |-> n]
Int64Val(n) == [int64 |-> n]
FloatVal(f) == [float |-> f]
StrVal(s) == [str |-> s]
BoolVal(b) == [bool |-> b]
Nil == [nil |-> TRUE]
ListVal(xs, of) == [list |-> xs, of |-> of]

(* A panic, as a result. *)
Panic == [panic |-> TRUE]

Is(v, type) == type \in DOMAIN v
IsList(v) == Is(v, "list")
Panics(v) == Is(v, "panic")
Kind(v) == IF IsList(v) THEN <<"list">> \o v.of ELSE <<CHOOSE t \in DOMAIN v : TRUE>>

-----------------------------------------------------------------------------
(* Integers of WORD bits. *)
Words == 2 ^ WORD
Unsigned(n) == n % Words
Wrap(n) == IF Unsigned(n) >= Words \div 2 THEN Unsigned(n) - Words ELSE Unsigned(n)
MinInt == -(Words \div 2)

Abs(n) == IF n < 0 THEN -n ELSE n
Sign(n) == IF n < 0 THEN -1 ELSE IF n > 0 THEN 1 ELSE 0

(* Go divides towards zero. *)
Quotient(a, b) == Sign(a) * Sign(b) * (Abs(a) \div Abs(b))
Remainder(a, b) == Sign(a) * (Abs(a) % Abs(b))

Bit(n, i) == (Unsigned(n) \div 2 ^ i) % 2
Bits(set) == Wrap(FoldFunctionOnSet(+, 0, [i \in 0..(WORD - 1) |-> 2 ^ i], set))
Bitwise(tok, a, b) ==
  Bits({i \in 0..(WORD - 1) :
          CASE tok = "&" -> Bit(a, i) + Bit(b, i) = 2
            [] tok = "|" -> Bit(a, i) + Bit(b, i) > 0
            [] tok = "^" -> Bit(a, i) # Bit(b, i)})

(* A shift by WORD bits or more leaves nothing, or the sign. *)
Shift(tok, a, n) ==
  IF tok = "<<" THEN IF n >= WORD THEN 0 ELSE Wrap(Unsigned(a) * 2 ^ n)
  ELSE IF n >= WORD THEN (IF a < 0 THEN -1 ELSE 0) ELSE a \div 2 ^ n

-----------------------------------------------------------------------------
(* Fractions. *)
NaN == <<0, 0>>
Infinity(sign) == <<sign, 0>>
Finite(f) == f[2] # 0
Whole(n) == <<n, 1>>

RECURSIVE Gcd(_, _)
Gcd(a, b) == IF b = 0 THEN a ELSE Gcd(b, a % b)

(* The fraction n/d; over zero, an infinity or NaN. *)
Fraction(n, d) ==
  IF d = 0 THEN <<Sign(n), 0>>
  ELSE LET g == Gcd(Abs(n), Abs(d)) IN <<(Sign(d) * n) \div g, Abs(d) \div g>>

Minus(f) == <<-f[1], f[2]>>
Plus(f, g) ==
  CASE f = NaN \/ g = NaN -> NaN
    [] ~Finite(f) /\ ~Finite(g) -> IF f = g THEN f ELSE NaN
    [] ~Finite(f) -> f
    [] ~Finite(g) -> g
    [] OTHER -> Fraction(f[1] * g[2] + g[1] * f[2], f[2] * g[2])
Times(f, g) ==
  IF f = NaN \/ g = NaN THEN NaN ELSE Fraction(f[1] * g[1], f[2] * g[2])
Over(f, g) ==
  CASE f = NaN \/ g = NaN \/ (~Finite(f) /\ ~Finite(g)) -> NaN
    [] ~Finite(g) -> Whole(0)
    [] ~Finite(f) -> Infinity(Sign(f[1]) * (IF g[1] < 0 THEN -1 ELSE 1))
    [] OTHER -> Fraction(f[1] * g[2], f[2] * g[1])

(* math.Mod *)
Mod(f, g) ==
  CASE f = NaN \/ g = NaN \/ ~Finite(f) \/ g = Whole(0) -> NaN
    [] ~Finite(g) -> f
    [] OTHER -> Fraction(Remainder(f[1] * g[2], g[1] * f[2]), f[2] * g[2])

(* math.Pow, for finite numbers and an exponent that is a whole number. *)
To(m, n) == IF n = 0 THEN 1 ELSE m ^ n
Pow(f, g) ==
  IF g[1] >= 0 THEN Fraction(To(f[1], g[1]), To(f[2], g[1]))
  ELSE Fraction(To(f[2], -g[1]), To(f[1], -g[1]))

Less(f, g) ==
  CASE f = NaN \/ g = NaN -> FALSE
    [] ~Finite(f) /\ ~Finite(g) -> f[1] < g[1]
    [] ~Finite(f) -> f[1] < 0
    [] ~Finite(g) -> g[1] > 0
    [] OTHER -> f[1] * g[2] < g[1] * f[2]
LessEq(f, g) == Less(f, g) \/ (f = g /\ f # NaN)

(* int(f): what is out of range is the smallest integer. *)
Truncated(f) ==
  IF ~Finite(f) THEN MinInt
  ELSE LET n == Quotient(f[1], f[2]) IN IF n = Wrap(n) THEN n ELSE MinInt

-----------------------------------------------------------------------------
(* Conversions. *)
Numeric(v) == Is(v, "int") \/ Is(v, "int64") \/ Is(v, "float")
AsFloat(v) ==
  IF Is(v, "int") THEN Whole(v.int) ELSE IF Is(v, "int64") THEN Whole(v.int64) ELSE v.float

(* Any int64, also a zero, differs from the constant 0 it is compared with. *)
CanBool(v) == ~Is(v, "float") /\ ~IsList(v)
asBool(v) ==
  CASE Is(v, "bool") -> v.bool
    [] Is(v, "nil") -> FALSE
    [] Is(v, "str") -> v.str # <<>>
    [] Is(v, "int") -> v.int # 0
    [] Is(v, "int64") -> TRUE

HasInteger(v) == ~Is(v, "str") /\ ~IsList(v)
as_integer(v) ==
  CASE Is(v, "nil") -> 0
    [] Is(v, "bool") -> IF v.bool THEN 1 ELSE 0
    [] Is(v, "int") -> v.int
    [] Is(v, "int64") -> v.int64
    [] Is(v, "float") -> Truncated(v.float)

(* GetAsInt; a string of characters is not a number. *)
GetsInt(v) == Numeric(v) \/ Is(v, "bool")

Text(v) ==
  CASE Numeric(v) -> <<AsFloat(v)>>
    [] Is(v, "nil") -> <<<<1000>>>>
    [] Is(v, "bool") -> IF v.bool THEN <<<<1001>>>> ELSE <<<<1002>>>>

(* Digits come before letters. *)
Before(l, m) ==
  IF Len(l) # Len(m) THEN Len(l) > Len(m) ELSE IF Len(l) = 1 THEN l[1] < m[1] ELSE Less(l, m)
StrLess(s, t) ==
  \/ s # t /\ IsPrefix(s, t)
  \/ \E i \in 1..Len(s) :
       /\ i <= Len(t) /\ SubSeq(s, 1, i - 1) = SubSeq(t, 1, i - 1)
       /\ s[i] # t[i] /\ Before(s[i], t[i])

(* strings.Contains *)
Within(s, t) == \E i \in 0..(Len(t) - Len(s)) : SubSeq(t, i + 1, i + Len(s)) = s

-----------------------------------------------------------------------------
(* Operators on two values that are not lists. *)
Both(type, a, b) == Is(a, type) /\ Is(b, type)

(* An operation on two integers of the same type, or else on floats. *)
Arithmetic(a, b, n, f, other) ==
  CASE Both("int", a, b) -> IntVal(Wrap(n))
    [] Both("int64", a, b) -> Int64Val(Wrap(n))
    [] Numeric(a) /\ Numeric(b) -> FloatVal(f)
    [] OTHER -> other

Number(v) == IF Is(v, "int64") THEN v.int64 ELSE IF Is(v, "int") THEN v.int ELSE 0
FloatOf(v) == IF Numeric(v) THEN AsFloat(v) ELSE NaN

(* ev_add *)
Add(a, b) ==
  Arithmetic(a, b, Number(a) + Number(b), Plus(FloatOf(a), FloatOf(b)),
    CASE Is(a, "int") /\ Is(b, "nil") -> a
      [] Is(a, "nil") /\ Is(b, "int") -> b
      [] Both("str", a, b) -> StrVal(a.str \o b.str)
      [] Is(a, "str") -> StrVal(a.str \o Text(b))
      [] Is(b, "str") -> StrVal(Text(a) \o b.str)
      [] OTHER -> Panic)

(* ev_sub *)
Sub(a, b) ==
  Arithmetic(a, b, Number(a) - Number(b), Plus(FloatOf(a), Minus(FloatOf(b))), Panic)

Repeated(s, n) == IF n < 0 THEN Panic ELSE StrVal(FlattenSeq([i \in 1..n |-> s]))

(* ev_mul *)
Mul(a, b) ==
  Arithmetic(a, b, Number(a) * Number(b), Times(FloatOf(a), FloatOf(b)),
    CASE Is(a, "int") /\ Is(b, "str") -> Repeated(b.str, a.int)
      [] Is(a, "str") /\ Is(b, "int") -> Repeated(a.str, b.int)
      [] OTHER -> Panic)

(* ev_div *)
Div(a, b) ==
  IF ~Numeric(a) \/ ~Numeric(b) \/ AsFloat(b) = Whole(0) THEN Panic
  ELSE Arithmetic(a, b, Quotient(Number(a), IF Number(b) = 0 THEN 1 ELSE Number(b)),
                  Over(AsFloat(a), AsFloat(b)), Panic)

(* ev_mod: of another number by an int64 it takes the int64 by zero. *)
Modulo(a, b) ==
  CASE ~Numeric(a) \/ ~Numeric(b) -> Panic
    [] Kind(a) = Kind(b) /\ ~Is(a, "float") ->
         IF Number(b) = 0 THEN Panic
         ELSE Arithmetic(a, b, Remainder(Number(a), Number(b)), NaN, Panic)
    [] Is(b, "int64") -> FloatVal(NaN)
    [] OTHER -> FloatVal(Mod(AsFloat(a), AsFloat(b)))

(* intPow overflows when the power of the unsigned base does. *)
RECURSIVE UpTo(_, _)
UpTo(m, n) == IF n = 0 THEN 1 ELSE LET p == UpTo(m, n - 1) IN IF p >= Words THEN p ELSE m * p
IntPower(a, n) ==
  IF n < 0 \/ UpTo(Unsigned(a), n) >= Words THEN FloatVal(Pow(Whole(a), Whole(n)))
  ELSE IntVal(Wrap(UpTo(Unsigned(a), n)))

(* ev_pow *)
Power(a, b) ==
  CASE Both("int", a, b) -> IntPower(a.int, b.int)
    [] Numeric(a) /\ Numeric(b) /\ ~Is(a, "int64") /\ ~Is(b, "int64") ->
         FloatVal(Pow(AsFloat(a), AsFloat(b)))
    [] OTHER -> Panic

Compared(tok, less, lessEq, greater, greaterEq) ==
  CASE tok = "<" -> BoolVal(less) [] tok = "<=" -> BoolVal(lessEq)
    [] tok = ">" -> BoolVal(greater) [] tok = ">=" -> BoolVal(greaterEq)
CompareFloats(tok, f, g) == Compared(tok, Less(f, g), LessEq(f, g), Less(g, f), LessEq(g, f))
CompareInts(tok, m, n) == Compared(tok, m < n, m <= n, m > n, m >= n)

(* compare: with an int64 among them, two integers are unsigned, and a     *)
(* negative one is neither less nor greater.                               *)
Integral(v) == Is(v, "int") \/ Is(v, "int64")
Compare(tok, a, b) ==
  CASE Both("int", a, b) -> CompareInts(tok, a.int, b.int)
    [] Integral(a) /\ Integral(b) ->
         IF Number(a) < 0 \/ Number(b) < 0 THEN BoolVal(FALSE)
         ELSE CompareInts(tok, Number(a), Number(b))
    [] Numeric(a) /\ Numeric(b) /\ ~Is(a, "int64") /\ ~Is(b, "int64") ->
         CompareFloats(tok, AsFloat(a), AsFloat(b))
    [] Is(a, "int64") \/ Is(b, "int64") ->
         IF Numeric(a) /\ Numeric(b)
         THEN CompareInts(tok, Truncated(AsFloat(a)), Truncated(AsFloat(b)))
         ELSE BoolVal(FALSE)
    [] Both("str", a, b) ->
         Compared(tok, StrLess(a.str, b.str), ~StrLess(b.str, a.str),
                  StrLess(b.str, a.str), ~StrLess(a.str, b.str))
    [] Is(a, "nil") \/ Is(b, "nil") -> BoolVal(Both("nil", a, b))
    [] OTHER -> Panic

-----------------------------------------------------------------------------
(* Operators on any two values.  An operation on a list is one on each    *)
(* element (ApplyElementwiseBinaryOp); an addition or a multiplication     *)
(* takes the element first, whichever side the list is on.  The elements   *)
(* of the result have the type of the first.                               *)
Orders == {"<", "<=", ">", ">="}
Arithmetics == {"+", "-", "*", "/", "%", "**"}

Scalar(tok, a, b) ==
  CASE tok = "+" -> Add(a, b)
    [] tok = "-" -> Sub(a, b)
    [] tok = "*" -> Mul(a, b)
    [] tok = "/" -> Div(a, b)
    [] tok = "%" -> Modulo(a, b)
    [] tok = "**" -> Power(a, b)
    [] tok \in Orders -> Compare(tok, a, b)

RECURSIVE SameShape(_, _)
SameShape(a, b) ==
  /\ Len(a.list) = Len(b.list)
  /\ \A i \in 1..Len(a.list) :
       LET x == a.list[i]  y == b.list[i]
       IN  \/ ~IsList(x) /\ ~IsList(y)
           \/ IsList(x) /\ IsList(y) /\ SameShape(x, y)

RECURSIVE Elementwise(_, _, _)
Pairs(tok, a, b) ==
  IF ~IsList(b) THEN [i \in 1..Len(a.list) |-> <<a.list[i], b>>]
  ELSE [i \in 1..Len(b.list) |->
          CASE IsList(a) -> <<a.list[i], b.list[i]>>
            [] ~IsList(a) /\ tok \in {"+", "*"} -> <<b.list[i], a>>
            [] OTHER -> <<a, b.list[i]>>]
Elementwise(tok, a, b) ==
  CASE ~IsList(a) /\ ~IsList(b) -> Scalar(tok, a, b)
    [] tok \in Orders /\ ~(IsList(a) /\ IsList(b)) ->
         IF Is(a, "nil") \/ Is(b, "nil") THEN BoolVal(FALSE) ELSE Panic
    [] IsList(a) /\ IsList(b) /\ ~SameShape(a, b) -> Panic
    [] OTHER ->
         LET pairs == Pairs(tok, a, b)
             result == [i \in DOMAIN pairs |-> Elementwise(tok, pairs[i][1], pairs[i][2])]
         IN  CASE pairs = <<>> -> IF IsList(a) THEN a ELSE b
               [] \/ \E i \in DOMAIN pairs : Panics(result[i])
                  \/ \E i \in DOMAIN pairs : Kind(result[i]) # Kind(result[1]) -> Panic
               [] OTHER -> ListVal(result, Kind(result[1]))

(* deepEqual, which panics for two lists of the same other type. *)
Comparable == {<<"any">>, <<"int">>, <<"float">>, <<"str">>}
RECURSIVE EqualValues(_, _)
EqualValues(a, b) ==
  CASE IsList(a) /\ IsList(b) ->
         /\ {a.of, b.of} \subseteq Comparable
         /\ a.of = b.of \/ <<"any">> \in {a.of, b.of}
         /\ Len(a.list) = Len(b.list)
         /\ \A i \in 1..Len(a.list) : EqualValues(a.list[i], b.list[i])
    [] Is(a, "float") /\ Is(b, "float") -> a = b
    [] Is(a, "float") /\ Is(b, "int64") -> FALSE
    [] Numeric(a) /\ Numeric(b) -> AsFloat(a) = AsFloat(b)
    [] OTHER -> a = b
DeepEqual(a, b) ==
  IF IsList(a) /\ Kind(a) = Kind(b) /\ a.of \notin Comparable THEN Panic
  ELSE BoolVal(EqualValues(a, b))

(* ev_range; nil if the types differ. *)
Range_(a, b) ==
  IF Kind(a) # Kind(b) \/ ~GetsInt(a) THEN ListVal(<<>>, <<"int">>)
  ELSE LET m == as_integer(a)  n == as_integer(b)
       IN  ListVal([i \in 1..(Abs(m - n) + 1) |-> IntVal(m + Sign(n - m) * (i - 1))], <<"int">>)

(* ev_in: an element counts if it is the same value of the same type. *)
In(a, b) ==
  CASE IsList(b) ->
         IF IsList(a) /\ \E i \in 1..Len(b.list) : Kind(b.list[i]) = Kind(a) THEN Panic
         ELSE BoolVal(a # FloatVal(NaN) /\ \E i \in 1..Len(b.list) : b.list[i] = a)
    [] Both("str", a, b) -> BoolVal(Within(a.str, b.str))
    [] OTHER -> Panic

(* An index counts from 0 (accessArray in eval_ops.go). *)
Access(v, i) ==
  LET elements == IF IsList(v) THEN v.list ELSE v.str IN
  CASE ~IsList(v) /\ ~Is(v, "str") -> Nil
    [] ~GetsInt(i) -> Panic
    [] as_integer(i) \notin 0..(Len(elements) - 1) -> Panic
    [] OTHER -> IF IsList(v) THEN elements[as_integer(i) + 1] ELSE StrVal(<<elements[as_integer(i) + 1]>>)
=============================================================================

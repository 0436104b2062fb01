------------------------------ MODULE ExprCode ------------------------------
(***************************************************************************)
(* The compiler of expressions (expr_compile.go): from tokens, in one      *)
(* pass, to instructions for a machine with a stack.  Beside the code it   *)
(* keeps what it knows of each value the machine will have on its stack:   *)
(* the type, and the constant with the instruction that loads it.          *)
(***************************************************************************)
EXTENDS ExprTree

Unknown == "unknown"
NoInstr == 0

(* compileValue *)
Value(hint) == [hint |-> hint, constVal |-> Nil, instrIdx |-> NoInstr]
Hint(v) == IF Is(v, "nil") \/ IsList(v) THEN Unknown ELSE Kind(v)[1]
Constant(v, i) ==
  IF IsList(v) THEN Value(Unknown) ELSE [hint |-> Hint(v), constVal |-> v, instrIdx |-> i]
IsConstant(x) == ~Is(x.constVal, "nil")

(* exprCompiler.  "hints" gives the types of variables. *)
Compiler(tokens, hints) ==
  [tokens |-> tokens, pos |-> 0, hints |-> hints, code |-> <<>>, values |-> <<>>, failed |-> FALSE]

Peek(c) == IF c.pos + 1 > Len(c.tokens) THEN Token("eof") ELSE c.tokens[c.pos + 1]
Next_(c) == [c EXCEPT !.pos = @ + 1]
Failed(c) == [c EXCEPT !.failed = TRUE]
Expect(c, tok) == IF c.failed \/ Peek(c).tok # tok THEN Failed(c) ELSE Next_(c)

Emit(c, instr) == [c EXCEPT !.code = Append(@, instr)]
Push(c, value) == [c EXCEPT !.values = Append(@, value)]
Top(c) == IF c.values = <<>> THEN Value(Unknown) ELSE Last(c.values)
Pop(c) == IF c.values = <<>> THEN c ELSE [c EXCEPT !.values = Front(@)]
Left(c) == Top(Pop(c))

(* The code up to before the i-th instruction. *)
Truncate(c, i) == [c EXCEPT !.code = SubSeq(@, 1, i - 1)]
Load(v) == [op |-> "const", val |-> v]
Produce(c, instr, hint) == Push(Emit(c, instr), Value(hint))
PushConst(c, v) == Push(Emit(c, Load(v)), Constant(v, Len(c.code) + 1))

-----------------------------------------------------------------------------
(* What is computed at compile time, or NoFold. *)
NoFold == Panic

(* bits.Add64, Sub64 and Mul64 take the words as unsigned. *)
SumFolds(m, n) ==
  /\ Unsigned(m) + Unsigned(n) < Words
  /\ ~(m >= 0 /\ Wrap(m + n) < 0) /\ ~(m < 0 /\ Wrap(m + n) > 0)
DifferenceFolds(m, n) ==
  /\ Unsigned(m) >= Unsigned(n)
  /\ ~(m >= 0 /\ n < 0 /\ Wrap(m - n) < 0) /\ ~(m < 0 /\ n > 0 /\ Wrap(m - n) > 0)
FoldsInts(tok, m, n) ==
  CASE tok = "+" -> SumFolds(m, n)
    [] tok = "-" -> DifferenceFolds(m, n)
    [] tok = "*" -> Unsigned(m) * Unsigned(n) < Words
    [] tok \in {"/", "%"} -> n # 0
    [] tok = "**" -> TRUE

(* foldBinary *)
FoldArithmetic(tok, a, b) ==
  CASE Both("int", a, b) -> IF FoldsInts(tok, a.int, b.int) THEN Scalar(tok, a, b) ELSE NoFold
    [] Numeric(a) /\ Numeric(b) ->
         IF (tok = "/" /\ AsFloat(b) = Whole(0)) \/ (tok = "%" /\ b = IntVal(0))
         THEN NoFold ELSE Scalar(tok, a, b)
    [] Both("str", a, b) /\ tok = "+" -> Add(a, b)
    [] OTHER -> NoFold

(* foldComparison *)
FoldComparison(tok, a, b) ==
  CASE tok \in Orders ->
         IF (Numeric(a) /\ Numeric(b)) \/ Both("str", a, b) THEN Compare(tok, a, b) ELSE NoFold
    [] Kind(a) # Kind(b) -> NoFold
    [] OTHER -> BoolVal((a = b) = (tok = "=="))

(* foldRange counts up only; foldIn, foldBitwise *)
FoldOther(tok, a, b) ==
  CASE tok = ".." /\ Both("int", a, b) ->
         ListVal([i \in 1..(b.int - a.int + 1) |-> IntVal(a.int + i - 1)], <<"any">>)
    [] tok = "in" /\ Both("str", a, b) -> BoolVal(Within(a.str, b.str))
    [] tok \in {"&", "|", "^"} /\ Both("int", a, b) -> IntVal(Bitwise(tok, a.int, b.int))
    [] tok \in {"<<", ">>"} /\ Both("int", a, b) -> IntVal(Shift(tok, a.int, b.int))
    [] OTHER -> NoFold

Fold(tok, a, b) ==
  CASE tok \in Arithmetics -> FoldArithmetic(tok, a, b)
    [] tok \in Comparisons -> FoldComparison(tok, a, b)
    [] OTHER -> FoldOther(tok, a, b)

(* foldNeg, foldNot *)
FoldUnary(tok, v) ==
  CASE tok = "-" -> IF Numeric(v) /\ v # IntVal(MinInt) THEN Negated(v) ELSE NoFold
    [] tok = "!" -> BoolVal(IF Is(v, "float") THEN v.float = Whole(0) ELSE ~asBool(v))

-----------------------------------------------------------------------------
(* The instruction of an operator takes operands of one known type, or any *)
(* two; emitBinary, emitComparison.                                        *)
TypedFor(tok) ==
  CASE tok \in Arithmetics -> {"int", "float"} \cup (IF tok = "+" THEN {"str"} ELSE {})
    [] tok \in Orders -> {"int", "float"}
    [] tok \in {"==", "!="} -> {"int", "float", "str"}
    [] OTHER -> {}
ChooseLeft(tok, left, right) == IF left.hint \in TypedFor(tok) THEN left.hint ELSE "any"

Choose(tok, left, right) ==
  IF left.hint = right.hint /\ left.hint \in TypedFor(tok) THEN left.hint ELSE "any"

(* emitComparison has no instruction for the order of two texts and emits   *)
(* opcode 0, which loads the first constant, nil, and takes no operand.    *)
Instruction(tok, left, right) ==
  IF tok \in Orders /\ left.hint = "str" /\ right.hint = "str" THEN Load(Nil)
  ELSE [op |-> "binary", tok |-> tok, type |-> Choose(tok, left, right)]

(* The type of what it leaves. *)
Leaves(tok, type) ==
  CASE tok \in Comparisons \cup {"in"} -> "bool"
    [] tok = ".." -> "list"
    [] tok \in {"&", "|", "^", "<<", ">>"} -> "int"
    [] OTHER -> IF type = "any" THEN Unknown ELSE type

EmitBinary(c, tok) ==
  LET right == Top(c)
      left == Left(c)
      folded == IF IsConstant(left) /\ IsConstant(right) /\ left.instrIdx # NoInstr
                THEN Fold(tok, left.constVal, right.constVal) ELSE NoFold
  IN  IF folded # NoFold
      THEN PushConst(Truncate(Pop(Pop(c)), left.instrIdx), folded)
      ELSE Produce(Pop(Pop(c)), Instruction(tok, left, right), Leaves(tok, Choose(tok, left, right)))

(* The start of the operand, to drop its code when it is folded. *)
EmitUnary(c, tok, start) ==
  LET x == Top(c)
      folded == IF IsConstant(x) THEN FoldUnary(tok, x.constVal) ELSE NoFold
      type == IF tok = "-" /\ x.hint \in {"int", "float"} THEN x.hint ELSE "any"
  IN  IF folded # NoFold THEN PushConst(Truncate(Pop(c), start), folded)
      ELSE Produce(Pop(c), [op |-> "unary", tok |-> tok, type |-> type],
                   IF tok = "!" THEN "bool" ELSE IF type = "any" THEN Unknown ELSE type)

-----------------------------------------------------------------------------
(* A jump goes as many instructions on as its "arg" says; it is patched    *)
(* when the code it jumps over is complete.                                *)
Jump(op) == [op |-> op, arg |-> 0]
PatchPast(c, i) == [c EXCEPT !.code[i].arg = Len(c.code) + 2 - i]
Patch(c, i) == [c EXCEPT !.code[i].arg = Len(c.code) + 1 - i]

Patched(c, i) == IF c.failed THEN c ELSE Patch(c, i)

RECURSIVE Expression(_, _), Leds(_, _), Elements(_, _)

(* compileLand, compileLor: a constant on the left decides here whether    *)
(* the right side is compiled, without the jump.                           *)
Decides(tok, v) ==
  IF tok = "&&" THEN ~asBool(v) ELSE asBool(v)
DecidedBy(tok, v) ==
  IF tok = "&&" THEN BoolVal(FALSE) ELSE IF Is(v, "str") THEN v ELSE BoolVal(TRUE)
ShortCircuit(c, tok) ==
  LET left == Top(c)
      coerce == [op |-> IF tok = "&&" THEN "tobool" ELSE "lorresult"]
      leaves == IF tok = "&&" THEN "bool" ELSE Unknown
      jump == Len(c.code) + 1
      cut == Truncate(Pop(c), left.instrIdx)
      right(d) == Emit(Expression(d, Prec(tok) + 1), coerce)
  IN  CASE IsConstant(left) /\ Is(left.constVal, "float") -> Failed(c)
        [] IsConstant(left) /\ Decides(tok, left.constVal) ->
             PushConst(cut, DecidedBy(tok, left.constVal))
        [] IsConstant(left) -> Push(right(cut), Value(leaves))
        [] OTHER ->
             Push(Patched(right(Emit(Emit(Pop(c), Jump(tok)), [op |-> "pop"])), jump), Value(leaves))

(* compileTernary leaves what it knew of the condition and of both         *)
(* branches under what it knows of the result.                             *)
CompileTernary(c) ==
  LET jumpFalse == Len(c.code) + 1
      true == Expression(Emit(c, Jump("jumpiffalse")), 0)
      jumpPast == Len(true.code) + 1
      colon == Expect(Patched(Emit(true, Jump("jump")), jumpFalse), ":")
      false == Expression(colon, 0)
  IN  Push(Patched(false, jumpPast), Value(Unknown))

(* compileArrayLiteral, with what it knew of the elements left below. *)
Elements(c, n) ==
  LET x == Expression(c, 0) IN
  IF ~x.failed /\ Peek(x).tok = "," THEN Elements(Next_(x), n + 1) ELSE [c |-> x, n |-> n + 1]
CompileArray(c) ==
  LET all == IF Peek(c).tok = "]" THEN [c |-> c, n |-> 0] ELSE Elements(c, 0)
  IN  Produce(Expect(all.c, "]"), [op |-> "array", n |-> all.n], "list")

CompileIndex(c) ==
  Produce(Pop(Pop(Expect(Expression(c, 0), "]"))), [op |-> "index"], Unknown)

CompileIdentifier(c, name) ==
  Produce(c, [op |-> "ident", name |-> name],
          IF name \in DOMAIN c.hints THEN c.hints[name] ELSE Unknown)

Nud(c, t) ==
  CASE t.tok = "lit" -> PushConst(c, t.val)
    [] t.tok = "ident" -> CompileIdentifier(c, t.name)
    [] t.tok \in {"!", "-"} ->
         LET x == Expression(c, UnaryPrec(t.tok))
         IN  IF x.failed THEN x ELSE EmitUnary(x, t.tok, Len(c.code) + 1)
    [] t.tok = "+" -> Expression(c, UnaryPrec(t.tok))
    [] t.tok = "(" -> Expect(Expression(c, 0), ")")
    [] t.tok = "[" -> CompileArray(c)
    [] OTHER -> Failed(c)

Led(c, t) ==
  CASE t.tok \in {"&&", "||"} -> ShortCircuit(c, t.tok)
    [] t.tok = "?" -> CompileTernary(c)
    [] t.tok = "[" -> CompileIndex(c)
    [] t.tok \in {"lit", "ident", "!", "("} -> Failed(c)
    [] OTHER -> LET right == Expression(c, Prec(t.tok) + 1)
                IN  IF right.failed THEN right ELSE EmitBinary(right, t.tok)

Leds(c, minPrec) ==
  IF c.failed \/ Prec(Peek(c).tok) < minPrec THEN c
  ELSE Leds(Led(Next_(c), Peek(c)), minPrec)

Expression(c, minPrec) ==
  IF c.failed THEN c ELSE Leds(Nud(Next_(c), Peek(c)), minPrec)

(* compileSimpleAssign: the expression, and a store; no code when it is    *)
(* left to the walker.                                                     *)
CompileAssign(name, tokens, hints) ==
  LET c == Expression(Compiler(tokens, hints), 0) IN
  IF c.failed \/ c.pos < Len(tokens) THEN <<>>
  ELSE c.code \o <<[op |-> "store", name |-> name], [op |-> "end"]>>

=============================================================================

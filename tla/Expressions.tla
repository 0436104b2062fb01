---------------------------- MODULE Expressions ----------------------------
(***************************************************************************)
(* Assignments  name = expression  of a script, one after the other, as    *)
(* the two evaluators run them: the compiler and its machine with a stack  *)
(* (expr_compile.go, expr_vm.go), or, with the compiler turned off, the    *)
(* walker over the tokens (eval.go).  Both should compute what the         *)
(* expression means.                                                       *)
(***************************************************************************)
EXTENDS ExprCode, ExprWalk

CONSTANTS
  SCRIPTS   \* sets of [mode, phrases]: where it runs, and what it assigns

(* "main": the main program; "function": a function's body; "walked": with *)
(* ZA_BYTECODE=0.                                                          *)
Modes == {"main", "function", "walked"}

(* One assignment; "nested" in an IF. *)
Phrase(name, e, nested) == [name |-> name, expr |-> e, nested |-> nested]

VARIABLES
  script,   \* the script that runs
  code,     \* for each phrase its instructions; none if it is walked
  k,        \* the phrase under way
  pc,       \* the instruction under way
  stack,    \* the machine's stack
  ident,    \* the variables, Panic for one not declared
  fate      \* "runs", "ends" or "fails"

vars == <<script, code, k, pc, stack, ident, fate>>

-----------------------------------------------------------------------------
(* extractAssignTypeHints: the type of a variable from the first token     *)
(* after "=".                                                              *)
HintFrom(t) ==
  CASE t.tok = "lit" -> Hint(t.val)
    [] t.tok = "[" -> "list"
    [] OTHER -> Unknown
Noted(hints, ph) ==
  LET hint == HintFrom(Head(Written(ph.expr))) IN
  IF hint = Unknown THEN hints ELSE (ph.name :> hint) @@ hints

(* The hints before the i-th phrase is compiled. *)
NoHints == [name \in {} |-> Unknown]
HintsBefore(phrases, i) == FoldLeft(Noted, NoHints, SubSeq(phrases, 1, i - 1))
AllHints == HintsBefore(script.phrases, Len(script.phrases) + 1)

(* A function's phrases are compiled again without hints. *)
CodeOf(s) ==
  [i \in DOMAIN s.phrases |->
     IF s.mode = "walked" THEN <<>>
     ELSE CompileAssign(s.phrases[i].name, Written(s.phrases[i].expr),
                        IF s.mode = "main" THEN HintsBefore(s.phrases, i) ELSE NoHints)]

Names(s) == {s.phrases[i].name : i \in DOMAIN s.phrases}
                \cup {t.name : t \in {u \in UNION {Range(Written(s.phrases[i].expr)) : i \in DOMAIN s.phrases} :
                                        u.tok = "ident"}}

Init ==
  /\ \E i \in DOMAIN SCRIPTS : script \in SCRIPTS[i]
  /\ code = CodeOf(script)
  /\ k = 1 /\ pc = 1 /\ stack = <<>>
  /\ ident = [name \in Names(script) |-> Panic]
  /\ fate = "runs"

-----------------------------------------------------------------------------
phrase == script.phrases[k]
instr == code[k][pc]
Walks == fate = "runs" /\ code[k] = <<>>
Executes(op) == fate = "runs" /\ code[k] # <<>> /\ instr.op = op

(* A panic becomes an exception, an error is reported: no more is run. *)
Fail == fate' = "fails" /\ UNCHANGED <<script, code, k, pc, stack, ident>>

Continue(newStack, distance) ==
  /\ stack' = newStack /\ pc' = pc + distance
  /\ UNCHANGED <<script, code, k, ident, fate>>
Leave(newStack, v) == IF Panics(v) THEN Fail ELSE Continue(Append(newStack, v), 1)

Above == Last(stack)
Rest == Front(stack)
Second == Last(Rest)

(* maybeCorrectAssignmentType *)
Corrected(ph, v) ==
  LET hint == IF ph.name \in DOMAIN AllHints THEN AllHints[ph.name] ELSE Unknown IN
  CASE ~ph.nested -> v
    [] hint = "float" /\ Integral(v) -> FloatVal(Whole(Number(v)))
    [] hint = "int" /\ Is(v, "float") -> IntVal(Truncated(v.float))
    [] OTHER -> v

(* On to the next phrase, or the end of the script. *)
EndPhrase ==
  /\ pc' = 1 /\ stack' = <<>>
  /\ IF k = Len(script.phrases) THEN fate' = "ends" /\ UNCHANGED k ELSE k' = k + 1 /\ UNCHANGED fate
  /\ UNCHANGED <<script, code>>

-----------------------------------------------------------------------------
(* The walker computes; then it stores. *)
WalkPhrase ==
  /\ Walks /\ stack = <<>>
  /\ LET v == Walk(Written(phrase.expr), ident)
     IN  IF Panics(v) THEN Fail
         ELSE stack' = <<v>> /\ UNCHANGED <<script, code, k, pc, ident, fate>>
WalkStore ==
  /\ Walks /\ stack # <<>>
  /\ ident' = [ident EXCEPT ![phrase.name] = Corrected(phrase, Above)]
  /\ EndPhrase

(* The IF around a phrase may not be taken. *)
PassOver ==
  /\ fate = "runs" /\ phrase.nested /\ pc = 1 /\ stack = <<>>
  /\ UNCHANGED ident /\ EndPhrase

-----------------------------------------------------------------------------
(* The instructions. *)
LoadConst == Executes("const") /\ Continue(Append(stack, instr.val), 1)

LoadIdent == Executes("ident") /\ Leave(stack, ident[instr.name])

StoreLocal ==
  /\ Executes("store")
  /\ ident' = [ident EXCEPT ![instr.name] = Corrected(phrase, Above)]
  /\ stack' = Rest /\ pc' = pc + 1
  /\ UNCHANGED <<script, code, k, fate>>

End == Executes("end") /\ UNCHANGED ident /\ EndPhrase

PopOne == Executes("pop") /\ Continue(Rest, 1)

(* An instruction for one type asserts it. *)
FloatTyped(tok, f, g) ==
  CASE tok = "==" -> BoolVal(f = g /\ f # NaN)
    [] tok = "!=" -> BoolVal(f # g \/ f = NaN)
    [] tok = "/" -> FloatVal(Over(f, g))
    [] OTHER -> Scalar(tok, FloatVal(f), FloatVal(g))
Typed(tok, type, a, b) ==
  CASE ~Both(type, a, b) -> Panic
    [] type = "float" -> FloatTyped(tok, a.float, b.float)
    [] OTHER -> Applied(tok, a, b)

(* The others take any; vmPopInt. *)
PopsInt(v) == IF Integral(v) THEN Number(v) ELSE Truncated(v.float)
Generic(tok, a, b) ==
  IF tok \notin {"<<", ">>"} THEN Applied(tok, a, b)
  ELSE IF ~Numeric(a) \/ ~Numeric(b) THEN Panic
  ELSE IF PopsInt(b) < 0 THEN Panic ELSE IntVal(Shift(tok, PopsInt(a), PopsInt(b)))
BinaryOp ==
  /\ Executes("binary")
  /\ Leave(Front(Rest),
           IF instr.type = "any" THEN Generic(instr.tok, Second, Above)
           ELSE Typed(instr.tok, instr.type, Second, Above))

(* OpNegInt, OpNegFloat, OpNegGeneric; OpNot *)
Negatable(type, v) == IF type = "any" THEN Is(v, "int") \/ Is(v, "float") ELSE Is(v, type)
UnaryOp ==
  /\ Executes("unary")
  /\ Leave(Rest, IF instr.tok = "-" /\ ~Negatable(instr.type, Above) THEN Panic
                 ELSE UnaryApplied(instr.tok, Above))

(* A value that cannot be taken for a condition is a panic. *)
JumpIfFalse ==
  /\ Executes("jumpiffalse")
  /\ IF CanBool(Above) THEN Continue(Rest, IF asBool(Above) THEN 1 ELSE instr.arg) ELSE Fail
JumpPast == Executes("jump") /\ Continue(stack, instr.arg)
Land ==
  /\ Executes("&&")
  /\ CASE ~CanBool(Above) -> Fail
       [] asBool(Above) -> Continue(stack, 1)
       [] OTHER -> Continue(Append(Rest, BoolVal(FALSE)), instr.arg)
Lor ==
  /\ Executes("||")
  /\ CASE ~CanBool(Above) -> Fail
       [] ~asBool(Above) -> Continue(stack, 1)
       [] Is(Above, "str") -> Continue(stack, instr.arg)
       [] OTHER -> Continue(Append(Rest, BoolVal(TRUE)), instr.arg)
ToBool == Executes("tobool") /\ Leave(Rest, Bools(Above))
LorResult ==
  Executes("lorresult") /\ Leave(Rest, IF Is(Above, "str") THEN Above ELSE Bools(Above))

ArrayNew ==
  /\ Executes("array")
  /\ LET below == Len(stack) - instr.n
     IN  Continue(Append(SubSeq(stack, 1, below),
                         ListVal(SubSeq(stack, below + 1, Len(stack)), <<"any">>)), 1)

IndexGet == Executes("index") /\ Leave(Front(Rest), Access(Second, Above))

Next ==
  \/ WalkPhrase \/ WalkStore \/ PassOver
  \/ LoadConst \/ LoadIdent \/ StoreLocal \/ End \/ PopOne
  \/ BinaryOp \/ UnaryOp \/ ArrayNew \/ IndexGet
  \/ JumpIfFalse \/ JumpPast \/ Land \/ Lor \/ ToBool \/ LorResult

Spec == Init /\ [][Next]_vars
-----------------------------------------------------------------------------
(* Where an evaluator is known to differ from what an expression means;    *)
(* each is about one node of the tree.                                     *)
Children(e) ==
  CASE e.node = "unary" -> {e.x}
    [] e.node = "binary" -> {e.x, e.y}
    [] e.node = "index" -> {e.x, e.i}
    [] e.node = "array" -> Range(e.xs)
    [] e.node = "ternary" -> {e.c, e.x, e.y}
    [] OTHER -> {}
RECURSIVE Nodes(_)
Nodes(e) == {e} \cup UNION {Nodes(child) : child \in Children(e)}

Apply(e, toks) == e.node = "binary" /\ e.tok \in toks
IsConstantTree(e) == \A n \in Nodes(e) : n.node # "var"

(* The compiler leaves what it knew of a ternary's parts, and of an        *)
(* array's elements, below the result, and takes one of them for the left  *)
(* operand of an operator outside.                                         *)
LeavesValues(e) == e.node = "ternary" \/ (e.node = "array" /\ e.xs # <<>>)
StaleValues(e) ==
  \E n \in Nodes(e) \ {e} : n.node = "binary" /\ \E m \in Nodes(n) : LeavesValues(m)

(* The order of two texts that the compiler knows for texts has no         *)
(* instruction: nil is loaded, and both texts stay on the stack.           *)
Hints == IF script.mode = "main" THEN HintsBefore(script.phrases, k) ELSE NoHints
RECURSIVE KnownText(_)
KnownText(e) ==
  CASE e.node = "lit" -> Is(e.val, "str")
    [] e.node = "var" -> e.name \in DOMAIN Hints /\ Hints[e.name] = "str"
    [] e.node = "unary" -> e.tok = "+" /\ KnownText(e.x)
    [] Apply(e, {"+"}) -> KnownText(e.x) /\ KnownText(e.y)
    [] Apply(e, {"||"}) -> IsConstantTree(e.x) /\ KnownText(e.x) /\ asBool(Meaning(e.x, NoHints))
    [] OTHER -> FALSE
OrdersTexts(e) == Apply(e, Orders) /\ ~IsConstantTree(e) /\ KnownText(e.x) /\ KnownText(e.y)

(* The type noted for a variable is that of the first token assigned last  *)
(* in the text, not of its value; but a number assigned in an IF is made   *)
(* one of the type noted, so numbers may be trusted where the assignments  *)
(* outside IFs are literals of that type.                                  *)
Trusted(name) ==
  \A ph \in Range(script.phrases) :
    ph.name = name /\ ~ph.nested => ph.expr.node = "lit" /\ Is(ph.expr.val, AllHints[name])
Misled(e) ==
  /\ e.node = "var" /\ e.name \in DOMAIN Hints
  /\ Hints[e.name] \in {"int", "float", "str"} /\ ~Panics(ident[e.name])
  /\ ~Is(ident[e.name], Hints[e.name])
  /\ ~(Numeric(ident[e.name]) /\ Trusted(e.name))

(* The machine shifts by a float, takes a constant range upwards only, has *)
(* its own view of strings under ||, divides floats by zero, takes any     *)
(* value for a ternary's condition, leaves out a unary plus and negates a  *)
(* constant float.  A constant that decides && or || lets the right side   *)
(* follow as if it were a binary minus or an index.                        *)
MachineDiffers(e, env) ==
  \/ OrdersTexts(e)
  \/ Misled(e)
  \/ Apply(e, {"<<", ">>"}) /\ \E n \in Children(e) : Is(Meaning(n, env), "float")
  \/ Apply(e, {".."}) /\ IsConstantTree(e)
  \/ Apply(e, {"||"}) /\ Is(Meaning(e.x, env), "str") # Is(Meaning(e.y, env), "str")
  \/ Apply(e, {"/"}) /\ Is(Meaning(e.x, env), "float") /\ Meaning(e.y, env) = FloatVal(Whole(0))
  \/ Apply(e, {"&&", "||"}) /\ IsConstantTree(e.x) /\ Head(Written(e.y)).tok \in {"-", "["}
  \/ e.node = "ternary" /\ ~Is(Meaning(e.c, env), "bool")
  \/ e.node = "unary" /\ e.tok = "+" /\ ~Numeric(Meaning(e.x, env))
  \/ e.node = "unary" /\ e.tok = "!" /\ IsConstantTree(e) /\ Is(Meaning(e.x, env), "float")
  \/ StaleValues(e)

(* The walker takes a negative shift for a large one and computes on with  *)
(* the int64 of a shift; it binds two operators of adjacent precedences as if they were of one; it goes on    *)
(* when a right operand fails; an index that is no number takes the whole, *)
(* and one of a number is a limit; a branch it skips ends at the first     *)
(* colon.                                                                  *)
WalkerDiffers(e, env) ==
  \/ Apply(e, {"<<", ">>"}) /\ Number(Meaning(e.y, env)) < 0
  \/ \E n \in Children(e) : Apply(n, {"<<", ">>"})
  \/ e.node = "binary" /\ e.y.node = "binary" /\ Prec(e.y.tok) = Prec(e.tok) + 1
  \/ e.node = "binary" /\ Panics(Meaning(e.y, env))
  \/ e.node = "index" /\ (Numeric(Meaning(e.x, env)) \/ ~Numeric(Meaning(e.i, env)))
  \/ e.node = "ternary" /\ e.x.node = "ternary"

Differs(e, env) ==
  \E n \in Nodes(e) : IF script.mode = "walked" THEN WalkerDiffers(n, env) ELSE MachineDiffers(n, env)

-----------------------------------------------------------------------------
(* Whatever way the jumps of && , || and ?: take through the compiled      *)
(* code, exactly one value is on the stack when it is stored, and none     *)
(* when the phrase ends (compileLand, compileLor, compileTernary patch the *)
(* jumps; runExprVM takes them); but where two texts are ordered.          *)
OneValue ==
  fate = "runs" /\ code[k] # <<>> =>
    \/ /\ instr.op = "store" => Len(stack) = 1
       /\ instr.op = "end" => stack = <<>>
    \/ \E n \in Nodes(phrase.expr) : OrdersTexts(n)

(* An instruction chosen at compile time for one type (emitBinary,         *)
(* emitComparison) meets only values of that type at run time, though the  *)
(* variables were assigned by other phrases, some of them in an IF that    *)
(* was not taken; but for variables whose assignments mislead.             *)
TypedOperands ==
  fate = "runs" /\ code[k] # <<>> =>
    \/ /\ instr.op = "unary" /\ instr.type # "any" => Is(Above, instr.type)
       /\ instr.op = "binary" /\ instr.type # "any" => Both(instr.type, Second, Above)
    \/ StaleValues(phrase.expr)
    \/ \E n \in Nodes(phrase.expr) : Misled(n)

(* Folded at compile time, run by the machine with or without knowledge of *)
(* types, or walked: the value stored is what the expression means, and a  *)
(* phrase fails only if its expression has no value; but for the           *)
(* differences named above.                                                *)
Ready == fate = "runs" /\ IF code[k] = <<>> THEN stack # <<>> ELSE instr.op = "store"
Meant == Meaning(phrase.expr, ident)
Plain(v) == IF Is(v, "int64") THEN IntVal(v.int64) ELSE v
AsMeant ==
  Ready \/ fate = "fails" =>
    \/ IF Ready THEN Plain(Above) = Meant ELSE Panics(Meant)
    \/ Differs(phrase.expr, ident)
=============================================================================

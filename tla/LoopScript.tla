----------------------------- MODULE LoopScript -----------------------------
(***************************************************************************)
(* Function bodies with if, case, for, foreach and while: the statements   *)
(* the phraser makes of them, one after the other, and what they mean.     *)
(*                                                                         *)
(* A condition is a sequence of outcomes, one for each time it is          *)
(* evaluated, and false after that: a loop that evaluates it once too      *)
(* often or once too seldom takes another way.                             *)
(***************************************************************************)
EXTENDS Integers, Sequences, SequencesExt

CONSTANTS Vars   \* loop variables

Step(id) == [op |-> "step", id |-> id]
Show(id, v) == [op |-> "show", id |-> id, var |-> v]

(* The same inside a try block: the phraser moves the statement that      *)
(* mentions the variable to another function space.                       *)
ShowInTry(id, v) == [op |-> "showtry", id |-> id, var |-> v]

Arm(cond, body) == [cond |-> cond, body |-> body]

(* The conditions of an if are numbered from id. *)
If(id, arms, hasElse, else) ==
  [op |-> "if", id |-> id, arms |-> arms, hasElse |-> hasElse, else |-> else]
While(id, cond, body) == [op |-> "while", id |-> id, cond |-> cond, body |-> body]
For(v, from, to, step, body) ==
  [op |-> "for", var |-> v, from |-> from, to |-> to, step |-> step, body |-> body]
Foreach(v, list, body) == [op |-> "foreach", var |-> v, list |-> list, body |-> body]

(* for v = from, v <= to, v += step *)
ForC(v, from, to, step, body) ==
  [For(v, from, to, step, body) EXCEPT !.op = "forc"]
Is(value, body) == [by |-> "is", value |-> value, body |-> body]
Has(id, cond, body) == [by |-> "has", id |-> id, cond |-> cond, body |-> body]
Case(value, clauses, hasOr, or) ==
  [op |-> "case", value |-> value, clauses |-> clauses, hasOr |-> hasOr, or |-> or, full |-> {}]

(* "full": the clauses have to name every member of the enumeration. *)
FullCase(members, value, clauses) ==
  [Case(value, clauses, FALSE, <<>>) EXCEPT !.full = members]
Break(n) == [op |-> "break", count |-> n]
BreakIf(id, n, cond) == [op |-> "breakif", id |-> id, count |-> n, cond |-> cond]
BreakKind(kind) == [op |-> "breakkind", kind |-> kind]
Continue == [op |-> "continue"]
ContinueIf(id, cond) == [op |-> "continueif", id |-> id, cond |-> cond]

(* on cond do action *)
OnDo(id, cond, action) == [op |-> "on", id |-> id, cond |-> cond, action |-> action]

Loops == {"while", "for", "forc", "foreach"}
EndOf(kind) == IF kind \in {"foreach", "forc"} THEN "endfor" ELSE "end" \o kind

-----------------------------------------------------------------------------
(* The statements of a body. *)
RECURSIVE Code(_)
CodeOf(s) ==
  CASE s.op \in Loops -> <<s>> \o Code(s.body) \o <<[op |-> EndOf(s.op)]>>
    [] s.op = "if" ->
         <<[op |-> "if", id |-> s.id, cond |-> Head(s.arms).cond]>>
           \o Code(Head(s.arms).body)
           \o FlattenSeq([i \in 1..(Len(s.arms) - 1) |->
                <<[op |-> "else", elseif |-> TRUE, id |-> s.id + i, cond |-> s.arms[i + 1].cond]>>
                  \o Code(s.arms[i + 1].body)])
           \o (IF s.hasElse THEN <<[op |-> "else", elseif |-> FALSE]>> \o Code(s.else) ELSE <<>>)
           \o <<[op |-> "endif"]>>
    [] s.op = "case" ->
         <<s>>
           \o FlattenSeq([i \in 1..Len(s.clauses) |->
                <<[op |-> "clause", test |-> s.clauses[i]]>> \o Code(s.clauses[i].body)])
           \o (IF s.hasOr THEN <<[op |-> "or"]>> \o Code(s.or) ELSE <<>>)
           \o <<[op |-> "endcase"]>>
    [] OTHER -> <<s>>

Code(stmts) == FlattenSeq([i \in 1..Len(stmts) |-> CodeOf(stmts[i])])

(* Evaluation of a condition: its outcome the k-th time. *)
Outcome(cond, k) == IF k <= Len(cond) THEN cond[k] ELSE FALSE

-----------------------------------------------------------------------------
(* What a body means.  A state of the reference: how often each condition *)
(* was evaluated, the variables, what was executed, and what is under way: *)
(* nothing, a continue, a break out of n constructs or to the end of the   *)
(* innermost one of a kind, or the report of a mistake.                    *)
Normal == [way |-> "normal"]
Reported == [way |-> "reported"]
Continuing == [way |-> "continue"]
Breaking(n) == [way |-> "break", n |-> n]
BreakingTo(kind) == [way |-> "breakto", kind |-> kind]

Begin(ids) ==
  [counts |-> [i \in ids |-> 0], vars |-> [v \in Vars |-> 0], trace |-> <<>>, end |-> Normal]

Evaluated(e, id) == [e EXCEPT !.counts[id] = @ + 1]
Holds(e, id, cond) == Outcome(cond, e.counts[id] + 1)
Set(e, v, x) == [e EXCEPT !.vars[v] = x]
Ending(e, end) == [e EXCEPT !.end = end]

(* The end of a construct takes one level off a break. *)
Leaving(e) == e.end.way \in {"break", "breakto", "reported"}
Left(e, kind) ==
  CASE e.end.way = "break" /\ e.end.n > 1 -> Ending(e, Breaking(e.end.n - 1))
    [] e.end.way = "break" /\ e.end.n <= 1 -> Ending(e, Normal)
    [] e.end = BreakingTo(kind) -> Ending(e, Normal)
    [] OTHER -> e

(* The values a for loop gives its variable. *)
Counted(s) ==
  LET n == IF s.step > 0 THEN (s.to - s.from) \div s.step ELSE (s.from - s.to) \div (-s.step)
  IN  [i \in 1..(n + 1) |-> s.from + (i - 1) * s.step]

RECURSIVE Run(_, _), RunWhile(_, _), RunEach(_, _, _), RunArms(_, _, _), RunCase(_, _, _)
RunOne(s, e) ==
  CASE s.op = "step" -> [e EXCEPT !.trace = Append(@, <<s.id, 0>>)]
    [] s.op \in {"show", "showtry"} -> [e EXCEPT !.trace = Append(@, <<s.id, e.vars[s.var]>>)]
    [] s.op = "if" -> RunArms(s, 1, e)
    [] s.op = "while" -> RunWhile(s, e)
    [] s.op \in {"for", "forc"} -> RunEach(s, Counted(s), Set(e, s.var, s.from))
    [] s.op = "foreach" -> RunEach(s, s.list, e)
    [] s.op = "case" -> RunCase(s, 1, e)
    [] s.op = "break" -> Ending(e, Breaking(s.count))
    [] s.op = "breakif" ->
         IF Holds(e, s.id, s.cond) THEN Ending(Evaluated(e, s.id), Breaking(s.count))
         ELSE Evaluated(e, s.id)
    [] s.op = "breakkind" -> Ending(e, BreakingTo(s.kind))
    [] s.op = "on" ->
         IF Holds(e, s.id, s.cond) THEN Run(<<s.action>>, Evaluated(e, s.id)) ELSE Evaluated(e, s.id)
    [] s.op = "continue" -> Ending(e, Continuing)
    [] s.op = "continueif" ->
         IF Holds(e, s.id, s.cond) THEN Ending(Evaluated(e, s.id), Continuing)
         ELSE Evaluated(e, s.id)

Run(stmts, e) ==
  IF stmts = <<>> \/ e.end.way # "normal" THEN e
  ELSE Run(Tail(stmts), RunOne(Head(stmts), e))

RunArms(s, i, e) ==
  IF i > Len(s.arms) THEN Run(s.else, e)
  ELSE LET id == s.id + i - 1 IN
       IF Holds(e, id, s.arms[i].cond) THEN Run(s.arms[i].body, Evaluated(e, id))
       ELSE RunArms(s, i + 1, Evaluated(e, id))

(* A case is complete when it names every member; one around a continue   *)
(* is a mistake.                                                           *)
Complete(s) == \A x \in s.full : \E j \in 1..Len(s.clauses) : s.clauses[j].value = x
EndOfCase(s, e) ==
  IF ~Complete(s) \/ e.end = Continuing THEN Ending(e, Reported) ELSE Left(e, "case")

RunCase(s, i, e) ==
  IF i > Len(s.clauses) THEN EndOfCase(s, Run(s.or, e))
  ELSE LET test == s.clauses[i]
           asked == IF test.by = "has" THEN Evaluated(e, test.id) ELSE e
           matches == IF test.by = "has" THEN Holds(e, test.id, test.cond) ELSE test.value = s.value
       IN  IF matches THEN EndOfCase(s, Run(test.body, asked)) ELSE RunCase(s, i + 1, asked)

RunWhile(s, e) ==
  IF ~Holds(e, s.id, s.cond) THEN Evaluated(e, s.id)
  ELSE LET once == Run(s.body, Evaluated(e, s.id)) IN
       IF Leaving(once) THEN Left(once, "while") ELSE RunWhile(s, Ending(once, Normal))

RunEach(s, list, e) ==
  IF list = <<>>
  THEN IF s.op = "forc" THEN Set(e, s.var, s.from + Len(Counted(s)) * s.step) ELSE e
  ELSE LET once == Run(s.body, Set(e, s.var, Head(list))) IN
       IF Leaving(once) THEN Left(once, s.op) ELSE RunEach(s, Tail(list), Ending(once, Normal))
=============================================================================

---------------------------- MODULE ControlFlow ----------------------------
(***************************************************************************)
(* How Call (actor.go) executes a function body.  The statements are in    *)
(* one row; an if, a case or a loop finds its else, its clauses and its    *)
(* end by looking ahead in the row, and Call keeps what it must remember   *)
(* of the open constructs in stacks of its own.                            *)
(***************************************************************************)
EXTENDS LoopScript, FiniteSets, FiniteSetsExt

CONSTANTS
  Scripts,     \* the bodies that may run
  MAX_LOOPS,   \* length of the array of loops
  CASE_CAP     \* length of the array of open cases

ASSUME CapsAssumption == MAX_LOOPS \in Nat \ {0} /\ CASE_CAP \in Nat \ {0}

VARIABLES
  script,          \* the body
  code,            \* its statements
  pc,              \* the statement to execute
  ifMatchedStack,  \* per open if: whether one of its conditions held
  lastConstruct,   \* the kinds of the open loops and cases
  loops,           \* what the loop at each depth remembers
  wc,              \* the open cases
  breakIn,         \* the kind a break is looking for the end of
  forceEnd,        \* a break to a kind is under way
  break_count,     \* the constructs a break has yet to leave
  counts,          \* how often each condition was evaluated
  loopvars,        \* the loop variables
  trace,           \* what was executed, with the variable it showed
  ended            \* how the function ended

body == <<script, code>>
breaking == <<breakIn, forceEnd, break_count>>
constructs == <<lastConstruct, loops, wc>>
vars == <<body, pc, ifMatchedStack, constructs, breaking, counts, loopvars, trace, ended>>

Error == "error"       \* no break under way
Running == "running"

(* The zero values of a loop and of a case. *)
NoLoop ==
  [loopType |-> "for", forEndPos |-> 1, whileContinueAt |-> 1, repeatFrom |-> 1,
   of |-> Step(0), counter |-> 0, optNoUse |-> "start"]
NoCase == [endLine |-> 1, of |-> Step(0), performed |-> FALSE, covered |-> {}]

CondIds == 1..9

Init ==
  /\ script \in Scripts
  /\ code = Code(script)
  /\ pc = 1
  /\ ifMatchedStack = <<>>
  /\ lastConstruct = <<>>
  /\ loops = [d \in 0..(MAX_LOOPS - 1) |-> NoLoop]
  /\ wc = <<>>
  /\ breakIn = Error /\ forceEnd = FALSE /\ break_count = 0
  /\ counts = [i \in CondIds |-> 0]
  /\ loopvars = [v \in Vars |-> 0]
  /\ trace = <<>>
  /\ ended = Running

-----------------------------------------------------------------------------
(* lookahead: the first statement at nesting "level" with one of the ops, *)
(* from "from", where the nesting is "indent", without going below level. *)
Nesting(from, i, indent, openers, closer) ==
  indent + Cardinality({j \in from..i : code[j].op \in openers})
         - Cardinality({j \in from..i : code[j].op = closer})
Ahead(from, indent, level, ops, openers, closer) ==
  {i \in from..Len(code) :
     /\ code[i].op \in ops
     /\ Nesting(from, i, indent, openers, closer) = level
     /\ \A j \in from..i : Nesting(from, j, indent, openers, closer) >= level}

Openers(closer) == {op \in Loops \cup {"if", "case"} : EndOf(op) = closer}
EndFrom(from, indent, closer) ==
  Ahead(from, indent, 0, {closer}, Openers(closer), closer)

(* The end of the construct that begins here. *)
EndHere == Min(EndFrom(pc, 0, EndOf(code[pc].op)))

ElseFrom(from, indent) == Ahead(from, indent, 1, {"else"}, {"if"}, "endif")
EndifFrom(from) == Min(EndFrom(from, 1, "endif"))
Clauses(from) == Ahead(from, 0, 0, {"clause", "or"}, {"case"}, "endcase")

-----------------------------------------------------------------------------
Depth == Len(lastConstruct)
ThisLoop == loops[Depth]
ThisCase == IF wc = <<>> THEN NoCase ELSE Last(wc)

(* A statement is executed unless a break is looking for its end. *)
At(op) ==
  /\ ended = Running
  /\ pc <= Len(code)
  /\ code[pc].op = op
  /\ breakIn = Error \/ op = EndOf(breakIn)
Here == code[pc]
GoTo(i) == pc' = i
GoOn == GoTo(pc + 1)
Stop(how) == ended' = how /\ UNCHANGED pc

(* wrappedEval of a condition. *)
HoldsNow(s) == Outcome(s.cond, counts[s.id] + 1)
Counting(s) == counts' = [counts EXCEPT ![s.id] = @ + 1]

(* ON .. DO: the action re-enters the statement switch in the place of the *)
(* whole statement.                                                        *)
OnHolds == At("on") /\ HoldsNow(Here)
Doing(op) == At(op) \/ (OnHolds /\ Here.action.op = op)
Statement == IF Here.op = "on" THEN Here.action ELSE Here
CountingOn == IF Here.op = "on" THEN Counting(Here) ELSE UNCHANGED counts

OnStatement ==
  /\ At("on") /\ ~HoldsNow(Here)
  /\ Counting(Here)
  /\ GoOn
  /\ UNCHANGED <<body, ifMatchedStack, constructs, breaking, loopvars, trace, ended>>

Skip ==
  /\ ended = Running
  /\ pc <= Len(code)
  /\ breakIn # Error /\ code[pc].op # EndOf(breakIn)
  /\ GoOn
  /\ UNCHANGED <<body, ifMatchedStack, constructs, breaking, counts, loopvars, trace, ended>>

Finish ==
  /\ ended = Running
  /\ pc > Len(code)
  /\ Stop("normal")
  /\ UNCHANGED <<body, ifMatchedStack, constructs, breaking, counts, loopvars, trace>>

(* A statement that is neither a jump nor an end. *)
Execute ==
  /\ \/ Doing("step") /\ trace' = Append(trace, <<Statement.id, 0>>)
     \/ /\ Doing("show") \/ At("showtry")
        /\ trace' = Append(trace, <<Statement.id, loopvars[Statement.var]>>)
  /\ CountingOn
  /\ GoOn
  /\ UNCHANGED <<body, ifMatchedStack, constructs, breaking, loopvars, ended>>

-----------------------------------------------------------------------------
(* IF: the entry of the new level says whether the condition held.  When  *)
(* it did not, on to an ELSE IF, into a plain ELSE, or past the ENDIF.     *)
AfterFalse(else, endif) ==
  IF else # {} /\ Min(else) < endif
  THEN IF code[Min(else)].elseif THEN Min(else) ELSE Min(else) + 1
  ELSE endif + 1

IfStatement ==
  /\ At("if")
  /\ Counting(Here)
  /\ ifMatchedStack' = Append(ifMatchedStack, HoldsNow(Here))
  /\ GoTo(IF HoldsNow(Here) THEN pc + 1 ELSE AfterFalse(ElseFrom(pc, 0), EndHere))
  /\ UNCHANGED <<body, constructs, breaking, loopvars, trace, ended>>

Matched == Last(ifMatchedStack)

(* ELSE and ELSE IF after a condition that held: on to the ENDIF. *)
ElseSkipped ==
  /\ At("else") /\ Matched
  /\ GoTo(EndifFrom(pc + 1))
  /\ UNCHANGED <<body, ifMatchedStack, constructs, breaking, counts, loopvars, trace, ended>>

(* A plain ELSE that is reached otherwise: past the ENDIF. *)
ElseReached ==
  /\ At("else") /\ ~Matched /\ ~Here.elseif
  /\ GoTo(EndifFrom(pc + 1) + 1)
  /\ UNCHANGED <<body, ifMatchedStack, constructs, breaking, counts, loopvars, trace, ended>>

ElseIf ==
  /\ At("else") /\ ~Matched /\ Here.elseif
  /\ Counting(Here)
  /\ ifMatchedStack' = [ifMatchedStack EXCEPT ![Len(ifMatchedStack)] = HoldsNow(Here)]
  /\ GoTo(IF HoldsNow(Here) THEN pc + 1 ELSE AfterFalse(ElseFrom(pc + 1, 1), EndifFrom(pc + 1)))
  /\ UNCHANGED <<body, constructs, breaking, loopvars, trace, ended>>

Endif ==
  /\ At("endif")
  /\ ifMatchedStack' = Front(ifMatchedStack)
  /\ GoOn
  /\ UNCHANGED <<body, constructs, breaking, counts, loopvars, trace, ended>>

-----------------------------------------------------------------------------
(* A loop begins in the next entry of the array; past the last one, the   *)
(* index is out of range.                                                  *)
Enter(kind, loop) ==
  IF Depth + 1 < MAX_LOOPS
  THEN /\ lastConstruct' = Append(lastConstruct, kind)
       /\ loops' = [loops EXCEPT ![Depth + 1] = loop]
       /\ UNCHANGED ended
  ELSE /\ ended' = "panicked"
       /\ UNCHANGED <<lastConstruct, loops>>

WhileStatement ==
  /\ At("while")
  /\ Counting(Here)
  /\ IF HoldsNow(Here)
     THEN /\ Enter("while", [NoLoop EXCEPT !.loopType = "while", !.whileContinueAt = EndHere,
                                           !.repeatFrom = pc, !.of = Here])
          /\ GoOn
     ELSE /\ GoTo(EndHere + 1)
          /\ UNCHANGED <<lastConstruct, loops, ended>>
  /\ UNCHANGED <<body, ifMatchedStack, wc, breaking, loopvars, trace>>

ForLoop(type) ==
  [NoLoop EXCEPT !.loopType = type, !.forEndPos = EndHere, !.repeatFrom = pc + 1, !.of = Here]

(* FOREACH: nothing to do for an empty list. *)
ForeachStatement ==
  /\ At("foreach")
  /\ IF Here.list = <<>>
     THEN /\ GoTo(EndHere + 1)
          /\ UNCHANGED <<lastConstruct, loops, loopvars, ended>>
     ELSE /\ Enter("foreach", ForLoop("foreach"))
          /\ loopvars' = [loopvars EXCEPT ![Here.var] = Head(Here.list)]
          /\ GoOn
  /\ UNCHANGED <<body, ifMatchedStack, wc, breaking, counts, trace>>

(* A mistake to catch: the end is only noticed when it is hit exactly. *)
PastExactly(s, x) == x = s.to + s.step

Past(s, x) == IF s.step > 0 THEN x > s.to ELSE x < s.to

(* FOR: from a start past the end on to the ENDFOR.  The form with three  *)
(* expressions goes into its body in any case.                             *)
ForStatement ==
  /\ At("for") \/ At("forc")
  /\ Enter("for", [ForLoop("for") EXCEPT !.counter = Here.from])
  /\ loopvars' = [loopvars EXCEPT ![Here.var] = Here.from]
  /\ GoTo(IF At("for") /\ Past(Here, Here.from) THEN EndHere ELSE pc + 1)
  /\ UNCHANGED <<body, ifMatchedStack, wc, breaking, counts, trace>>

-----------------------------------------------------------------------------
(* The end of a construct, with n levels of a break to go: the construct  *)
(* around it is left next.                                                 *)
LeaveConstruct(n) ==
  /\ lastConstruct' = Front(lastConstruct)
  /\ forceEnd' = FALSE
  /\ break_count' = n
  /\ IF n > 0 /\ Depth = 1
     THEN Stop("panicked") /\ breakIn' = Error
     ELSE /\ breakIn' = IF n > 0 THEN lastConstruct[Depth - 1] ELSE Error
          /\ GoOn
          /\ UNCHANGED ended

OneLess == IF break_count > 0 THEN break_count - 1 ELSE break_count

Endwhile ==
  /\ At("endwhile")
  /\ \/ /\ ~forceEnd /\ ThisLoop.loopType # "while"
        /\ Stop("reported")
        /\ UNCHANGED <<lastConstruct, breaking, counts>>
     \/ /\ forceEnd \/ ThisLoop.loopType = "while"
        /\ breakIn = "while"
        /\ LeaveConstruct(break_count - 1)
        /\ UNCHANGED counts
     \/ /\ ThisLoop.loopType = "while"
        /\ breakIn = Error
        /\ Counting(ThisLoop.of)
        /\ IF HoldsNow(ThisLoop.of)
           THEN /\ GoTo(ThisLoop.repeatFrom + 1)
                /\ UNCHANGED <<lastConstruct, breaking, ended>>
           ELSE /\ lastConstruct' = Front(lastConstruct)
                /\ GoOn
                /\ UNCHANGED <<breaking, ended>>
  /\ UNCHANGED <<body, ifMatchedStack, loops, wc, loopvars, trace>>

(* The counter of a FOR is in the variable only when the statements from  *)
(* the FOR to here mention it; looked up once.                             *)
Mentioned(v) ==
  \E i \in ThisLoop.repeatFrom..(pc - 1) :
    LET s == IF code[i].op = "on" THEN code[i].action ELSE code[i]
    IN  s.op \in {"show", "for", "forc", "foreach"} /\ s.var = v

(* Counting: the next value and the variable. *)
NextCounter(loop) ==
  IF Past(loop.of, loop.counter + loop.of.step) THEN loop.counter ELSE loop.counter + loop.of.step
Use(loop) ==
  IF loop.optNoUse # "start" THEN loop.optNoUse
  ELSE IF Mentioned(loop.of.var) THEN "set" ELSE "ignore"

Repeat ==
  /\ GoTo(ThisLoop.repeatFrom)
  /\ UNCHANGED <<lastConstruct, breaking, ended>>

EndforForeach ==
  /\ At("endfor") /\ breakIn = Error
  /\ ThisLoop.of.op = "foreach"
  /\ LET next == ThisLoop.counter + 1
     IN  /\ loops' = [loops EXCEPT ![Depth].counter = next, ![Depth].optNoUse = "set"]
         /\ IF next >= Len(ThisLoop.of.list)
            THEN LeaveConstruct(OneLess) /\ UNCHANGED loopvars
            ELSE /\ loopvars' = [loopvars EXCEPT ![ThisLoop.of.var] = ThisLoop.of.list[next + 1]]
                 /\ Repeat
  /\ UNCHANGED <<body, ifMatchedStack, wc, counts, trace>>

EndforCounted ==
  /\ At("endfor") /\ breakIn = Error
  /\ ThisLoop.of.op = "for"
  /\ LET past == Past(ThisLoop.of, ThisLoop.counter + ThisLoop.of.step)
         next == NextCounter(ThisLoop)
     IN  /\ loops' = [loops EXCEPT ![Depth].counter = next, ![Depth].optNoUse = Use(ThisLoop)]
         /\ loopvars' =
              IF Use(ThisLoop) = "set" \/ (past /\ ThisLoop.optNoUse = "ignore")
              THEN [loopvars EXCEPT ![ThisLoop.of.var] = next] ELSE loopvars
         /\ IF past THEN LeaveConstruct(OneLess) ELSE Repeat
  /\ UNCHANGED <<body, ifMatchedStack, wc, counts, trace>>

EndforCustom ==
  /\ At("endfor") /\ breakIn = Error
  /\ ThisLoop.of.op = "forc"
  /\ LET next == loopvars[ThisLoop.of.var] + ThisLoop.of.step
     IN  /\ loopvars' = [loopvars EXCEPT ![ThisLoop.of.var] = next]
         /\ IF Past(ThisLoop.of, next) THEN LeaveConstruct(OneLess) ELSE Repeat
  /\ UNCHANGED <<body, ifMatchedStack, loops, wc, counts, trace>>

(* A mistake to catch: a break does not end a foreach. *)
EndforBrokenForOnly ==
  /\ At("endfor") /\ breakIn # Error
  /\ IF ThisLoop.loopType = "for" /\ breakIn = "for" THEN LeaveConstruct(OneLess) ELSE Repeat
  /\ UNCHANGED <<body, ifMatchedStack, loops, wc, counts, loopvars, trace>>

(* ENDFOR with a break under way ends the loop if it is of the kind the   *)
(* break looks for; otherwise the break goes round the loop again.         *)
EndforBroken ==
  /\ At("endfor") /\ breakIn # Error
  /\ IF ThisLoop.loopType = breakIn THEN LeaveConstruct(OneLess) ELSE Repeat
  /\ UNCHANGED <<body, ifMatchedStack, loops, wc, counts, loopvars, trace>>

(* An ENDFOR that is left over when a break ended its loop early. *)
EndforStray ==
  /\ At("endfor") /\ Depth = 0
  /\ Stop("panicked")
  /\ UNCHANGED <<body, ifMatchedStack, constructs, breaking, counts, loopvars, trace>>

-----------------------------------------------------------------------------
(* CASE: the eighth open case would have an index past the array, where   *)
(* the test for the maximum only stops the ninth.                          *)
CaseStatement ==
  /\ At("case")
  /\ IF Len(wc) + 1 < CASE_CAP
     THEN /\ wc' = Append(wc, [NoCase EXCEPT !.endLine = EndHere, !.of = Here])
          /\ lastConstruct' = Append(lastConstruct, "case")
          /\ GoOn
          /\ UNCHANGED ended
     ELSE /\ Stop("panicked")
          /\ UNCHANGED <<lastConstruct, wc>>
  /\ UNCHANGED <<body, ifMatchedStack, loops, breaking, counts, loopvars, trace>>

NextClause ==
  IF Clauses(pc + 1) = {} THEN ThisCase.endLine ELSE Min(Clauses(pc + 1))

ThisCaseGets(record) == wc' = [wc EXCEPT ![Len(wc)] = record]

Noting(test) ==
  IF test.by = "is" /\ ThisCase.of.full # {}
  THEN [ThisCase EXCEPT !.covered = @ \cup {test.value}] ELSE ThisCase

(* IS and HAS: noted as members of a full case, then skipped if a clause  *)
(* was performed, tried otherwise.                                         *)
ClausePerformed ==
  /\ At("clause") /\ ThisCase.performed
  /\ ThisCaseGets(Noting(Here.test))
  /\ GoTo(ThisCase.endLine)
  /\ UNCHANGED <<body, ifMatchedStack, lastConstruct, loops, breaking, counts, loopvars, trace, ended>>

ClauseTried ==
  /\ At("clause") /\ ~ThisCase.performed
  /\ LET test == Here.test
         matches == IF test.by = "has" THEN HoldsNow(test) ELSE test.value = ThisCase.of.value
     IN  /\ ThisCaseGets([Noting(test) EXCEPT !.performed = matches])
         /\ GoTo(IF matches THEN pc + 1 ELSE NextClause)
         /\ IF test.by = "has" THEN Counting(test) ELSE UNCHANGED counts
  /\ UNCHANGED <<body, ifMatchedStack, lastConstruct, loops, breaking, loopvars, trace, ended>>

OrClause ==
  /\ At("or")
  /\ GoTo(IF ThisCase.performed THEN ThisCase.endLine ELSE pc + 1)
  /\ UNCHANGED <<body, ifMatchedStack, constructs, breaking, counts, loopvars, trace, ended>>

Endcase ==
  /\ At("endcase")
  /\ IF ThisCase.of.full \subseteq ThisCase.covered
     THEN LeaveConstruct(OneLess) /\ wc' = Front(wc)
     ELSE Stop("reported") /\ UNCHANGED <<lastConstruct, breaking, wc>>
  /\ UNCHANGED <<body, ifMatchedStack, loops, counts, loopvars, trace>>

-----------------------------------------------------------------------------
(* BREAK: on to the end of the innermost construct.  With a count, the    *)
(* ends that are reached after it are taken for those of the constructs   *)
(* around.  Outside of any, an index is below the array.                   *)
EndOfInnermost ==
  CASE Last(lastConstruct) = "case"  -> ThisCase.endLine
    [] Last(lastConstruct) = "while" -> ThisLoop.whileContinueAt
    [] OTHER                         -> ThisLoop.forEndPos

BreakOut(n) ==
  /\ break_count' = n
  /\ IF Depth = 0
     THEN Stop("panicked") /\ UNCHANGED <<breakIn, forceEnd>>
     ELSE /\ breakIn' = Last(lastConstruct)
          /\ GoTo(EndOfInnermost)
          /\ UNCHANGED <<forceEnd, ended>>

BreakStatement ==
  /\ Doing("break")
  /\ BreakOut(Statement.count)
  /\ CountingOn
  /\ UNCHANGED <<body, ifMatchedStack, constructs, loopvars, trace>>

(* BREAK n IF: the count is stored whether the condition holds or not.    *)
BreakIfStatement ==
  /\ At("breakif")
  /\ Counting(Here)
  /\ IF HoldsNow(Here) THEN BreakOut(Here.count)
     ELSE /\ break_count' = Here.count
          /\ GoOn
          /\ UNCHANGED <<breakIn, forceEnd, ended>>
  /\ UNCHANGED <<body, ifMatchedStack, constructs, loopvars, trace>>

(* BREAK with a kind looks in the innermost loop, whatever its kind.      *)
BreakKindStatement ==
  /\ Doing("breakkind")
  /\ breakIn' = Statement.kind
  /\ forceEnd' = TRUE
  /\ break_count' = 0
  /\ GoTo(CASE Statement.kind = "case"  -> ThisCase.endLine
            [] Statement.kind = "while" -> ThisLoop.whileContinueAt
            [] OTHER               -> ThisLoop.forEndPos)
  /\ CountingOn
  /\ UNCHANGED <<body, ifMatchedStack, constructs, loopvars, trace, ended>>

(* CONTINUE: on to the end of the loop; a mistake in a case or outside.   *)
ContinueLoop ==
  IF Depth = 0 \/ Last(lastConstruct) = "case" THEN Stop("reported")
  ELSE GoTo(EndOfInnermost) /\ UNCHANGED ended

ContinueStatement ==
  /\ Doing("continue")
  /\ ContinueLoop
  /\ CountingOn
  /\ UNCHANGED <<body, ifMatchedStack, constructs, breaking, loopvars, trace>>

ContinueIfStatement ==
  /\ At("continueif")
  /\ Counting(Here)
  /\ IF HoldsNow(Here) THEN ContinueLoop ELSE GoOn /\ UNCHANGED ended
  /\ UNCHANGED <<body, ifMatchedStack, constructs, breaking, loopvars, trace>>

-----------------------------------------------------------------------------
Next ==
  \/ Skip \/ Finish \/ Execute \/ OnStatement
  \/ IfStatement \/ ElseSkipped \/ ElseReached \/ ElseIf \/ Endif
  \/ WhileStatement \/ ForeachStatement \/ ForStatement
  \/ Endwhile \/ EndforForeach \/ EndforCounted \/ EndforCustom \/ EndforBroken \/ EndforStray
  \/ CaseStatement \/ ClausePerformed \/ ClauseTried \/ OrClause \/ Endcase
  \/ BreakStatement \/ BreakIfStatement \/ BreakKindStatement
  \/ ContinueStatement \/ ContinueIfStatement

Spec == Init /\ [][Next]_vars /\ WF_vars(Next)

-----------------------------------------------------------------------------
Done == ended # Running

-----------------------------------------------------------------------------
(* Bodies that are executed as they are written.  The others, and what    *)
(* becomes of them, are in the README.                                     *)
Bodies(s) ==
  CASE s.op \in Loops -> {s.body}
    [] s.op = "if"    -> {s.arms[i].body : i \in 1..Len(s.arms)} \cup {s.else}
    [] s.op = "case"  -> {s.clauses[i].body : i \in 1..Len(s.clauses)} \cup {s.or}
    [] s.op = "on"    -> {<<s.action>>}
    [] OTHER          -> {}

RECURSIVE Within(_)
Within(stmts) ==
  Range(stmts) \cup UNION {UNION {Within(b) : b \in Bodies(s)} : s \in Range(stmts)}

Breaks == {"break", "breakif", "breakkind"}

(* An else if comes after a body whose own ifs all have an else. *)
IfAsWritten(s) ==
  \A i \in 1..(Len(s.arms) - 1) :
    \A t \in Within(s.arms[i].body) : t.op = "if" => t.hasElse

(* A full case that names all members does so by the clause after the one *)
(* that matches.                                                           *)
CaseAsWritten(s) ==
  LET before == {i \in 1..Len(s.clauses) :
                   \A j \in 1..(i - 2) : s.clauses[j].value # s.value}
  IN  s.full # {} =>
        /\ ~Complete(s) \/ s.full \subseteq {s.clauses[i].value : i \in before}
        /\ \A b \in Bodies(s) : \A t \in Within(b) : t.op \notin Breaks

(* A counted loop that may be broken out of, or that has a try block which *)
(* shows its variable, shows it in its own statements as well.             *)
ForAsWritten(s) ==
  /\ s.op = "forc" => Counted(s) # <<>>
  /\ s.op = "for" /\ (\E t \in Within(s.body) : t.op \in Breaks \cup {"showtry"})
       => \E t \in Within(s.body) : t.op = "show" /\ t.var = s.var

(* A break leaves constructs none of which has another of its kind inside. *)
Ends(stmts, closer) == Cardinality({i \in 1..Len(Code(stmts)) : Code(stmts)[i].op = closer})
Chain(around, j) == {k \in (j + 1)..Len(around) : EndOf(around[k].op) = EndOf(around[j].op)}
BreakAsWritten(n, around) ==
  /\ Len(around) >= n /\ around # <<>>
  /\ \A j \in (Len(around) - n + 1)..(Len(around) - 1) :
       Ends(<<around[j]>>, EndOf(around[j].op)) = 1 + Cardinality(Chain(around, j))

RECURSIVE AsWrittenIn(_, _)
AsWrittenIn(stmts, around) ==
  \A s \in Range(stmts) :
    LET inside == IF s.op \in Loops \cup {"case"} THEN Append(around, s) ELSE around
    IN  /\ CASE s.op = "if"                       -> IfAsWritten(s)
             [] s.op = "case"                     -> CaseAsWritten(s)
             [] s.op \in Loops \ {"while"}        -> s.op = "foreach" \/ ForAsWritten(s)
             [] s.op = "break"                    -> BreakAsWritten(s.count, around)
             [] s.op = "breakif"                  -> s.count < 2 /\ BreakAsWritten(1, around)
             [] s.op = "breakkind"                -> around # <<>> /\ Last(around).op = s.kind
             [] OTHER                             -> TRUE
        /\ Len(inside) < MAX_LOOPS
        /\ Len(SelectSeq(inside, LAMBDA t : t.op = "case")) < CASE_CAP
        /\ \A b \in Bodies(s) : AsWrittenIn(b, inside)

-----------------------------------------------------------------------------
Meant == Run(script, Begin(CondIds))
Did == [trace |-> trace, counts |-> counts, end |-> ended]
Should ==
  [trace |-> Meant.trace, counts |-> Meant.counts,
   end |-> IF Meant.end = Normal THEN "normal" ELSE "reported"]

(* A body executes the statements its text says, in that order, with the  *)
(* values its loops give their variables, and evaluates every condition    *)
(* as often as its text says.                                              *)
RunsAsWritten == Done /\ AsWrittenIn(script, <<>>) => Did = Should

(* No jump and no break goes round for ever: these bodies end.  One that  *)
(* breaks to another kind of loop than the innermost may not.              *)
EveryCallEnds == AsWrittenIn(script, <<>>) => <>Done
=============================================================================

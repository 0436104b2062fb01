----------------------------- MODULE TryScript -----------------------------
(***************************************************************************)
(* Scripts with try .. catch .. then .. endtry: what the phraser makes of  *)
(* them (phraser.go), and what they mean.                                  *)
(*                                                                         *)
(* A script is a sequence of statements; a try statement holds sequences   *)
(* of statements in turn.  The phraser takes the content of every block    *)
(* out of the code around it, into a function space of its own.            *)
(***************************************************************************)
EXTENDS Naturals, Sequences, SequencesExt

CONSTANTS
  Categories,   \* of exceptions
  None,         \* no exception
  Again         \* a throw without a category, inside a catch handler

(* Statements.  A step is a keyword statement that evaluates nothing that *)
(* can fail; eval calls a function of the script (or ends in a failing ??) *)
(* and lib calls one of the library, which throw cat unless it is None.   *)
(* An assertion's expression is true or false, an operator in it fails, or *)
(* a function it calls throws a category; ASSERT ERROR expects a failure. *)
StepAt(id) == [op |-> "step", id |-> id]
EvalAt(id, cat) == [op |-> "eval", id |-> id, cat |-> cat]
LibAt(id, cat) == [op |-> "lib", id |-> id, cat |-> cat]
ThrowAt(id, cat) == [op |-> "throw", id |-> id, cat |-> cat]
ReturnAt(id) == [op |-> "return", id |-> id]
AssertAt(id, result) == [op |-> "assert", id |-> id, error |-> FALSE, result |-> result]
AssertErrorAt(id, result) == [op |-> "assert", id |-> id, error |-> TRUE, result |-> result]
Handler(pattern, body) == [pattern |-> pattern, body |-> body]
TryAt(id, body, catches, fin) ==
  [op |-> "try", id |-> id, body |-> body, catches |-> catches, fin |-> fin]

IsTry(s) == s.op = "try"

-----------------------------------------------------------------------------
(* Everything inside a try block, one level down. *)
Content(t) ==
  t.body \o FlattenSeq([i \in 1..Len(t.catches) |-> t.catches[i].body]) \o t.fin

(* The blocks of a script, at every level. *)
RECURSIVE BlocksOf(_)
BlocksOf(stmts) ==
  LET tries == {s \in Range(stmts) : IsTry(s)}
  IN  tries \cup UNION {BlocksOf(Content(t)) : t \in tries}

(* The code that stays: a block leaves its try and endtry behind, and     *)
(* those of the blocks inside it.                                         *)
Endtry == [op |-> "endtry"]
RECURSIVE Outside(_)
Outside(stmts) ==
  FlattenSeq(
    [i \in 1..Len(stmts) |->
       IF IsTry(stmts[i])
       THEN <<[op |-> "try", block |-> stmts[i].id]>>
              \o Outside(SelectSeq(Content(stmts[i]), IsTry))
              \o <<Endtry>>
       ELSE <<stmts[i]>>])

(* The code of the block's own function space, its endtry included. *)
Inside(t) ==
  Outside(t.body)
    \o FlattenSeq(
         [i \in 1..Len(t.catches) |->
            <<[op |-> "catch", pattern |-> t.catches[i].pattern]>>
              \o Outside(t.catches[i].body)])
    \o (IF t.fin = <<>> THEN <<>> ELSE <<[op |-> "then"]>> \o Outside(t.fin))
    \o <<Endtry>>

-----------------------------------------------------------------------------
(* What a script means: the statements it executes, in order, and how it  *)
(* ends: normally, with a return, with an exception, or with the program. *)
(* It depends on whether a block is around it, on the exception "held" by *)
(* a handler around it, and on what a test around it does with assertions *)
(* that fail ("none" is around it, it "fail"s or "continue"s).            *)
Normal == "normal"
Returned == "return"
Exited == "exit"
FailedAssertion == "assert"

Holds(s) == IF s.error THEN s.result \notin {"true", "false"} ELSE s.result = "true"
Refuted(s, ctx) ==
  CASE ctx.test = "continue" /\ s.result # "fault" -> Normal
    [] ctx.test = "none" /\ ctx.inTry -> FailedAssertion
    [] OTHER -> Exited

RECURSIVE Meaning(_, _), MeaningOf(_, _)
Meaning(stmts, ctx) ==
  IF stmts = <<>> THEN [trace |-> <<>>, end |-> Normal]
  ELSE LET first == MeaningOf(Head(stmts), ctx)
           rest  == Meaning(Tail(stmts), ctx)
       IN  IF first.end # Normal THEN first
           ELSE [trace |-> first.trace \o rest.trace, end |-> rest.end]

MeaningOf(s, ctx) ==
  IF s.op = "try" THEN
    LET inner == [ctx EXCEPT !.inTry = TRUE]
        body == Meaning(s.body, inner)
        matching == {i \in 1..Len(s.catches) : body.end \in s.catches[i].pattern}
        handler == s.catches[CHOOSE i \in matching : \A j \in matching : i <= j]
        handled ==
          IF matching = {} THEN [trace |-> <<>>, end |-> body.end]
          ELSE Meaning(handler.body, [inner EXCEPT !.held = body.end])
        final ==
          IF handled.end = Exited THEN [trace |-> <<>>, end |-> Exited]
          ELSE Meaning(s.fin, inner)
    IN  [trace |-> body.trace \o handled.trace \o final.trace,
         end   |-> IF final.end = Normal THEN handled.end ELSE final.end]
  ELSE
    [trace |-> <<s.id>>,
     end   |-> CASE s.op = "step"   -> Normal
                 [] s.op = "return" -> Returned
                 [] s.op = "throw"  -> IF s.cat = Again THEN ctx.held ELSE s.cat
                 [] s.op = "assert" -> IF Holds(s) THEN Normal ELSE Refuted(s, ctx)
                 [] s.op = "lib" /\ s.cat # None /\ ~ctx.inTry -> Exited
                 [] OTHER           -> IF s.cat = None THEN Normal ELSE s.cat]
-----------------------------------------------------------------------------
(* Scripts whose blocks the code executes as they are written: a handler  *)
(* or a then evaluates nothing, and the handlers' own exceptions are not   *)
(* for later catches; a body has at most one inner block; a return is in   *)
(* an outermost block without a then, and a call that may fail in a block  *)
(* without a then or with a catch; an assertion whose expression throws is *)
(* no ASSERT ERROR, nor in a test, and neither is one that fails in a block. *)
RECURSIVE AllIn(_)
AllIn(stmts) ==
  Range(stmts) \cup UNION {AllIn(Content(t)) : t \in {s \in Range(stmts) : IsTry(s)}}

Uses(stmts, ops) == \E s \in AllIn(stmts) : s.op \in ops

(* What a handler may throw itself is not for a later catch of its block. *)
Thrown(s, pattern) ==
  CASE s.op = "assert" -> {FailedAssertion}
    [] s.op = "throw" -> IF s.cat = Again THEN pattern ELSE {s.cat}
    [] OTHER -> {}
NotForSiblings(t) ==
  \A i \in 1..Len(t.catches) : \A s \in Range(t.catches[i].body) :
    \A j \in (i + 1)..Len(t.catches) :
      Thrown(s, t.catches[i].pattern) \cap t.catches[j].pattern = {}

HandlerCode(t) ==
  FlattenSeq([i \in 1..Len(t.catches) |-> t.catches[i].body]) \o t.fin

AsWritten(t) ==
  /\ ~Uses(HandlerCode(t), {"eval", "lib", "try", "return"})
  /\ NotForSiblings(t)
  /\ Len(SelectSeq(t.body, IsTry)) <= 1
  /\ \A s \in BlocksOf(t.body) : ~Uses(Content(s), {"return"})
  /\ t.fin # <<>> =>
       /\ ~Uses(t.body, {"return"})
       /\ t.catches # <<>> \/ ~Uses(t.body, {"eval", "lib", "try"})

Raises(s, inTry) ==
  /\ s.op = "assert"
  /\ s.result \notin {"true", "false"} \cup (IF inTry THEN {} ELSE {"fault"})
AssertsCleanly(s, inTry, test) == Raises(s, inTry) => ~s.error /\ test = "none"

Plain(stmts, test) ==
  /\ \A t \in BlocksOf(stmts) : AsWritten(t)
  /\ \A s \in Range(stmts) : AssertsCleanly(s, FALSE, test)
  /\ \A t \in BlocksOf(stmts) : \A s \in Range(Content(t)) : AssertsCleanly(s, TRUE, test)
=============================================================================

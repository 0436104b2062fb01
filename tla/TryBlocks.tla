----------------------------- MODULE TryBlocks -----------------------------
(***************************************************************************)
(* The execution of try blocks by Call (actor.go).  A function of the      *)
(* script runs in a slot of the call table; each of its try blocks was     *)
(* given a slot when the script was parsed, and every execution of the     *)
(* block is a Call in that slot.  The exception a call is dealing with,    *)
(* whether a catch matched it, and the return values with which a block    *)
(* reports its end all live in the slots.                                  *)
(***************************************************************************)
EXTENDS TryScript, FiniteSets, FiniteSetsExt

CONSTANTS
  Callers,   \* the calls of the function, by one goroutine each
  Scripts,   \* what each of them may execute: same blocks, other outcomes
  Global     \* slot 0, where the name of an unnamed slot leads

VARIABLES
  script,    \* what each caller executes
  functionspaces,   \* the code the phraser made of it
  frames,    \* the open Calls of each caller, from the outermost
  active,    \* per slot: activeException
  matched,   \* per slot: currentCatchMatched
  retvals,   \* per slot: what the last Call left for the one around it
  named,     \* the blocks whose slots have a name
  trace,     \* the statements executed
  ended,     \* how each caller's function ended
  test       \* what the test the functions run in does with a failed assertion

vars == <<script, functionspaces, frames, active, matched, retvals, named, trace, ended, test>>

Running == "running"

(* Return values: none; the user's; and those the blocks pass on, which   *)
(* begin with a status.                                                   *)
NoValues == [status |-> "none", exc |-> None]
UserValues == [status |-> "user", exc |-> None]
HANDLED == [status |-> "handled", exc |-> None]
RETURN == [status |-> "return", exc |-> None]
THROWN(e) == [status |-> "thrown", exc |-> e]

BlockIds == {t.id : t \in UNION {BlocksOf(script[c]) : c \in Callers}}
Slots == DOMAIN active

Frame(space, slot) ==
  [space |-> space, slot |-> slot, pc |-> 1, rv |-> NoValues, called |-> FALSE]

Init ==
  /\ script \in Scripts
  /\ functionspaces =
       [c \in Callers |->
          [s \in BlockIds \cup {c} |->
             IF s = c THEN Outside(script[c])
             ELSE Inside(CHOOSE t \in BlocksOf(script[c]) : t.id = s)]]
  /\ frames = [c \in Callers |-> <<Frame(c, c)>>]
  /\ active = [s \in BlockIds \cup Callers \cup {Global} |-> None]
  /\ matched = [s \in Slots |-> FALSE]
  /\ retvals = [s \in Slots |-> NoValues]
  /\ named = BlockIds
  /\ trace = [c \in Callers |-> <<>>]
  /\ ended = [c \in Callers |-> Running]
  /\ test \in IF \E c \in Callers : Uses(script[c], {"assert"})
              THEN {"none", "fail", "continue"} ELSE {"none"}

-----------------------------------------------------------------------------
Top(c) == Last(frames[c])
Slot(c) == Top(c).slot
Code(c) == functionspaces[c][Top(c).space]
Pc(c) == Top(c).pc
At(c, op) ==
  /\ frames[c] # <<>>
  /\ ~Top(c).called
  /\ Pc(c) <= Len(Code(c))
  /\ Code(c)[Pc(c)].op = op
Here(c) == Code(c)[Pc(c)]

(* lookahead: the first statement op at nesting "level" that is reached    *)
(* from "from", where the nesting is "indent", without going below level. *)
Nesting(code, from, i, indent) ==
  indent + Cardinality({j \in from..i : code[j].op = "try"})
         - Cardinality({j \in from..i : code[j].op = "endtry"})
Targets(code, from, indent, level, op) ==
  {i \in from..Len(code) :
     /\ code[i].op = op
     /\ Nesting(code, from, i, indent) = level
     /\ \A j \in from..i : Nesting(code, from, j, indent) >= level}

(* Where a statement inside a block leads: the next catch of the block,   *)
(* its then, its endtry.                                                  *)
Catches(c) == Targets(Code(c), Pc(c) + 1, 1, 1, "catch")
Thens(c) == Targets(Code(c), Pc(c) + 1, 1, 1, "then")
Endtries(c) == Targets(Code(c), Pc(c) + 1, 1, 0, "endtry")
ThenOrEndtry(c) == Min(IF Thens(c) # {} THEN Thens(c) ELSE Endtries(c))

GoTo(c, i) == frames' = [frames EXCEPT ![c][Len(frames[c])].pc = i]
GoOn(c) == GoTo(c, Pc(c) + 1)

(* The end of Call: the return values, if any, go to the slot, and the    *)
(* slot loses its name.  The Call around it has yet to look at them.      *)
Leave(c, rv) ==
  /\ retvals' = IF rv = NoValues THEN retvals ELSE [retvals EXCEPT ![Slot(c)] = rv]
  /\ named' = named \ {Top(c).space}
  /\ frames' = [frames EXCEPT ![c] = Front(@)]
  /\ ended' =
       IF Len(frames[c]) > 1 THEN ended
       ELSE [ended EXCEPT ![c] =
               CASE rv.status = "thrown" -> rv.exc
                 [] rv.status = "user"   -> Returned
                 [] OTHER                -> Normal]

(* isTryBlock, of the slot. *)
InBlock(c) == Slot(c) \in BlockIds

(* finish: the program ends, with every call in it. *)
Finish ==
  /\ frames' = [c \in Callers |-> <<>>]
  /\ ended' = [c \in Callers |-> IF ended[c] = Running THEN Exited ELSE ended[c]]
  /\ UNCHANGED <<retvals, named>>

-----------------------------------------------------------------------------
Trace(c) == trace' = [trace EXCEPT ![c] = Append(@, Here(c).id)]

(* A keyword statement. *)
Step(c) ==
  /\ At(c, "step")
  /\ Trace(c)
  /\ GoOn(c)
  /\ UNCHANGED <<script, functionspaces, test, active, matched, retvals, named, ended>>

(* RETURN, which a block passes on with a status. *)
Return(c) ==
  /\ At(c, "return")
  /\ Trace(c)
  /\ Leave(c, IF InBlock(c) THEN RETURN ELSE UserValues)
  /\ UNCHANGED <<script, functionspaces, test, active, matched>>

CodeEnds(c) ==
  /\ frames[c] # <<>>
  /\ ~Top(c).called
  /\ Pc(c) > Len(Code(c))
  /\ Leave(c, Top(c).rv)
  /\ UNCHANGED <<script, functionspaces, test, active, matched, trace>>

(* An assignment or a call, the default of the statement switch.  An      *)
(* error of the library ends the program, and in a block it is stored with *)
(* the catch flag down; an exception of a user's function leaves the flag *)
(* as it is.  Then, whenever an exception is active, control goes to the  *)
(* next catch or to the endtry.                                           *)
LibFails(c) == At(c, "lib") /\ Here(c).cat # None /\ ~InBlock(c)

LibExits(c) ==
  /\ LibFails(c)
  /\ Trace(c)
  /\ Finish
  /\ UNCHANGED <<script, functionspaces, test, active, matched>>

Evaluate(c) ==
  /\ At(c, "eval") \/ At(c, "lib")
  /\ ~LibFails(c)
  /\ Trace(c)
  /\ LET raised == Here(c).cat
         now == IF raised = None THEN active[Slot(c)] ELSE raised
     IN  /\ active' = [active EXCEPT ![Slot(c)] = now]
         /\ matched' = IF At(c, "lib") /\ raised # None
                       THEN [matched EXCEPT ![Slot(c)] = FALSE]
                       ELSE matched
         /\ \/ /\ now = None
               /\ GoOn(c)
               /\ UNCHANGED <<retvals, named, ended>>
            \/ /\ now # None
               /\ Endtries(c) # {}
               /\ GoTo(c, Min(IF Catches(c) # {} THEN Catches(c) ELSE Endtries(c)))
               /\ UNCHANGED <<retvals, named, ended>>
            \/ /\ now # None
               /\ Endtries(c) = {}
               /\ Leave(c, THROWN(now))
  /\ UNCHANGED <<script, functionspaces, test>>

(* THROW stores the exception with the flag down, and goes to the next    *)
(* catch, else to the then or the endtry.                                 *)
ThrowHere(c, e) ==
  /\ active' = [active EXCEPT ![Slot(c)] = e]
  /\ matched' = [matched EXCEPT ![Slot(c)] = FALSE]
  /\ IF Endtries(c) = {}
     THEN Leave(c, THROWN(e))
     ELSE /\ GoTo(c, IF Catches(c) # {} THEN Min(Catches(c)) ELSE ThenOrEndtry(c))
          /\ UNCHANGED <<retvals, named, ended>>

Throw(c) ==
  /\ At(c, "throw")
  /\ Trace(c)
  /\ ThrowHere(c, IF Here(c).cat = Again THEN active[Slot(c)] ELSE Here(c).cat)
  /\ UNCHANGED <<script, functionspaces, test>>

(* ASSERT evaluates its expression.  What a function in it throws becomes *)
(* the exception of the slot, and so does an operator's failure in a      *)
(* block; only outside does that reach ASSERT as an error.                *)
EvalError(c) == Here(c).result = "fault" /\ ~InBlock(c)
LeftActive(c) ==
  CASE Here(c).result \in {"true", "false"} \/ EvalError(c) -> active[Slot(c)]
    [] Here(c).result = "fault" -> "error"
    [] OTHER -> Here(c).result
Passes(c) == IF Here(c).error THEN EvalError(c) ELSE Here(c).result = "true"

(* It passed; or a test goes on after a failure.  Neither looks at what   *)
(* is active.                                                             *)
AssertGoesOn(c) ==
  /\ At(c, "assert")
  /\ Passes(c) \/ (test = "continue" /\ ~EvalError(c))
  /\ Trace(c)
  /\ active' = [active EXCEPT ![Slot(c)] = LeftActive(c)]
  /\ GoOn(c)
  /\ UNCHANGED <<script, functionspaces, test, matched, retvals, named, ended>>

(* A failure in a block re-enters the switch as a throw. *)
AssertThrows(c) ==
  /\ At(c, "assert")
  /\ ~Passes(c) /\ test = "none" /\ InBlock(c)
  /\ Trace(c)
  /\ ThrowHere(c, FailedAssertion)
  /\ UNCHANGED <<script, functionspaces, test>>

(* Any other ends the program. *)
AssertExits(c) ==
  /\ At(c, "assert")
  /\ ~Passes(c)
  /\ CASE test = "none" -> ~InBlock(c)
       [] test = "fail" -> TRUE
       [] test = "continue" -> EvalError(c)
  /\ Trace(c)
  /\ active' = [active EXCEPT ![Slot(c)] = LeftActive(c)]
  /\ Finish
  /\ UNCHANGED <<script, functionspaces, test, matched>>

-----------------------------------------------------------------------------
(* TRY calls the block in its own slot, as long as the slot has a name;   *)
(* the lookup of a name that is gone gives slot 0.                        *)
EnterTry(c) ==
  /\ At(c, "try")
  /\ LET b == Here(c).block
         slot == IF b \in named THEN b ELSE Global
     IN  frames' = [frames EXCEPT ![c] =
                      Append([@ EXCEPT ![Len(@)].called = TRUE], Frame(b, slot))]
  /\ UNCHANGED <<script, functionspaces, test, active, matched, retvals, named, trace, ended>>

(* After TRY, a pc that came to rest on the try of an inner block moves   *)
(* past it when an exception is active.                                   *)
Settle(c, i, e) ==
  LET code == Code(c)
      ends == Targets(code, i + 1, 0, 0, "endtry")
  IN  IF /\ i <= Len(code) /\ code[i].op = "try"
         /\ e # None
         /\ \E j \in 1..(i - 1) : code[j].op = "try"
         /\ ends # {}
      THEN Min(ends) ELSE i + 1

Resume(c, i, e) ==
  frames' = [frames EXCEPT ![c][Len(frames[c])] =
               [@ EXCEPT !.pc = Settle(c, i, e), !.called = FALSE]]

Collected(c) == retvals[Here(c).block]
AwaitsBlock(c, status) ==
  /\ frames[c] # <<>>
  /\ Top(c).called
  /\ Collected(c).status = status

(* What TRY makes of the return values in the block's slot.  The block    *)
(* completed or handled its exception: go on after the endtry.            *)
TryCompleted(c) ==
  /\ AwaitsBlock(c, "none") \/ AwaitsBlock(c, "handled")
  /\ Resume(c, Pc(c) + 1, active[Slot(c)])
  /\ UNCHANGED <<script, functionspaces, test, active, matched, retvals, named, trace, ended>>

(* It returned: unpack the values, and return them. *)
TryReturned(c) ==
  /\ AwaitsBlock(c, "return")
  /\ Leave(c, UserValues)
  /\ UNCHANGED <<script, functionspaces, test, active, matched, trace>>

(* It threw: go to the next catch around the block, or to its endtry. *)
TryThrew(c) ==
  /\ AwaitsBlock(c, "thrown")
  /\ LET e == Collected(c).exc
         catches == Targets(Code(c), Pc(c), 0, 0, "catch")
         ends == Targets(Code(c), Pc(c), 0, 0, "endtry")
     IN  /\ active' = [active EXCEPT ![Slot(c)] = e]
         /\ IF catches \cup ends = {}
            THEN Leave(c, THROWN(e))
            ELSE /\ Resume(c, Min(IF catches # {} THEN catches ELSE ends) - 1, e)
                 /\ UNCHANGED <<retvals, named, ended>>
  /\ UNCHANGED <<script, functionspaces, test, matched, trace>>

(* Values without a status, which are those an inner block's return       *)
(* unpacked: taken for a normal end.                                      *)
TryUnknown(c) ==
  /\ AwaitsBlock(c, "user")
  /\ LET ends == Targets(Code(c), Pc(c) + 1, 0, 0, "endtry")
     IN  Resume(c, IF ends # {} THEN Min(ends) - 1 ELSE Pc(c), active[Slot(c)])
  /\ UNCHANGED <<script, functionspaces, test, active, matched, retvals, named, trace, ended>>

-----------------------------------------------------------------------------
(* CATCH with nothing to handle: nothing is active, or an earlier catch   *)
(* has matched.                                                           *)
CatchSkipped(c) ==
  /\ At(c, "catch")
  /\ active[Slot(c)] = None \/ matched[Slot(c)]
  /\ GoTo(c, IF ~matched[Slot(c)] /\ Catches(c) # {} THEN Min(Catches(c))
             ELSE ThenOrEndtry(c))
  /\ UNCHANGED <<script, functionspaces, test, active, matched, retvals, named, trace, ended>>

(* A mistake to catch: the flag stays down, and the endtry passes on what *)
(* was handled.                                                           *)
CatchMatchesUnnoted(c) ==
  /\ At(c, "catch")
  /\ ~matched[Slot(c)]
  /\ active[Slot(c)] \in Here(c).pattern
  /\ GoOn(c)
  /\ UNCHANGED <<script, functionspaces, test, active, matched, retvals, named, trace, ended>>

CatchMatches(c) ==
  /\ At(c, "catch")
  /\ ~matched[Slot(c)]
  /\ active[Slot(c)] \in Here(c).pattern
  /\ matched' = [matched EXCEPT ![Slot(c)] = TRUE]
  /\ GoOn(c)
  /\ UNCHANGED <<script, functionspaces, test, active, retvals, named, trace, ended>>

(* A mistake to catch: without a later catch, the pc stays. *)
CatchPassesStays(c) ==
  /\ At(c, "catch")
  /\ ~matched[Slot(c)]
  /\ active[Slot(c)] # None /\ active[Slot(c)] \notin Here(c).pattern
  /\ GoTo(c, IF Catches(c) # {} THEN Min(Catches(c)) ELSE Pc(c))
  /\ UNCHANGED <<script, functionspaces, test, active, matched, retvals, named, trace, ended>>

CatchPasses(c) ==
  /\ At(c, "catch")
  /\ ~matched[Slot(c)]
  /\ active[Slot(c)] # None /\ active[Slot(c)] \notin Here(c).pattern
  /\ GoTo(c, IF Catches(c) # {} THEN Min(Catches(c)) ELSE ThenOrEndtry(c))
  /\ UNCHANGED <<script, functionspaces, test, active, matched, retvals, named, trace, ended>>

Then(c) ==
  /\ At(c, "then")
  /\ GoOn(c)
  /\ UNCHANGED <<script, functionspaces, test, active, matched, retvals, named, trace, ended>>

(* ENDTRY: nothing active; handled; or passed on. *)
EndtryQuiet(c) ==
  /\ At(c, "endtry")
  /\ active[Slot(c)] = None
  /\ GoOn(c)
  /\ UNCHANGED <<script, functionspaces, test, active, matched, retvals, named, trace, ended>>

EndtryHandled(c) ==
  /\ At(c, "endtry")
  /\ active[Slot(c)] # None /\ matched[Slot(c)]
  /\ active' = [active EXCEPT ![Slot(c)] = None]
  /\ matched' = [matched EXCEPT ![Slot(c)] = FALSE]
  /\ frames' = [frames EXCEPT ![c][Len(frames[c])] =
                  [@ EXCEPT !.pc = @ + 1, !.rv = HANDLED]]
  /\ UNCHANGED <<script, functionspaces, test, retvals, named, trace, ended>>

EndtryBubbles(c) ==
  /\ At(c, "endtry")
  /\ active[Slot(c)] # None /\ ~matched[Slot(c)]
  /\ Leave(c, THROWN(active[Slot(c)]))
  /\ UNCHANGED <<script, functionspaces, test, active, matched, trace>>

-----------------------------------------------------------------------------
Advance(c) ==
  \/ Step(c) \/ Return(c) \/ CodeEnds(c) \/ Evaluate(c) \/ LibExits(c)
  \/ Throw(c) \/ AssertGoesOn(c) \/ AssertThrows(c) \/ AssertExits(c)
  \/ EnterTry(c) \/ TryCompleted(c) \/ TryReturned(c) \/ TryThrew(c) \/ TryUnknown(c)
  \/ CatchSkipped(c) \/ CatchMatches(c) \/ CatchPasses(c) \/ Then(c)
  \/ EndtryQuiet(c) \/ EndtryHandled(c) \/ EndtryBubbles(c)

Next == \E c \in Callers : Advance(c)

Spec == Init /\ [][Next]_vars /\ \A c \in Callers : WF_vars(Advance(c))

-----------------------------------------------------------------------------
Done(c) == ended[c] # Running

(* A function with plain try blocks executes the statements its text      *)
(* says, in that order, and ends the way its text says.                   *)
RunsAsWritten ==
  \A c \in Callers :
    Done(c) /\ Plain(script[c], test) =>
      [trace |-> trace[c], end |-> ended[c]]
        = Meaning(script[c], [inTry |-> FALSE, held |-> None, test |-> test])

(* The jumps between catch, then and endtry never go backwards or stay:   *)
(* every function ends.                                                   *)
EveryCallEnds == \A c \in Callers : <>Done(c)
=============================================================================

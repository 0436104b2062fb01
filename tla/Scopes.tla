------------------------------- MODULE Scopes -------------------------------
(***************************************************************************)
(* What a script may expect of its variables: the main program and every   *)
(* call have a table of variables by name.  A statement assigns a name of  *)
(* its own scope, and an expression that names a variable gives the value  *)
(* of its own scope, or else of the main program.  Text with a name in     *)
(* braces ({n}) looks in its own scope only.                               *)
(***************************************************************************)
CONSTANTS Names, Callers, Main, Values, None

VARIABLES vars,  \* the variables of each caller, by name
          last   \* what was done last: by whom, to which name, with which value

scopes == <<vars, last>>

Init ==
  /\ vars = [g \in Callers |-> [n \in Names |-> None]]
  /\ last = None

Assign(g, n) == \E v \in Values :
  /\ vars' = [vars EXCEPT ![g][n] = v]
  /\ last' = [by |-> g, does |-> "assign", name |-> n, value |-> v]

Visible(g, n) == IF vars[g][n] # None THEN vars[g][n] ELSE vars[Main][n]

Read(g, n) ==
  /\ last' = [by |-> g, does |-> "read", name |-> n, value |-> Visible(g, n)]
  /\ UNCHANGED vars

ReadText(g, n) ==
  /\ last' = [by |-> g, does |-> "text", name |-> n, value |-> vars[g][n]]
  /\ UNCHANGED vars

Next == \E g \in Callers, n \in Names : Assign(g, n) \/ Read(g, n) \/ ReadText(g, n)

Spec == Init /\ [][Next]_scopes
=============================================================================

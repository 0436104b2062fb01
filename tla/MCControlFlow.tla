--------------------------- MODULE MCControlFlow ---------------------------
(***************************************************************************)
(* Bodies for ControlFlow: a loop or a case around an if, a case or an     *)
(* inner loop, around a jump.                                              *)
(***************************************************************************)
EXTENDS ControlFlow

T == TRUE
F == FALSE
Outcomes == {<<>>, <<T>>, <<F, T>>}

(* What may stand in the middle. *)
Jumps ==
  {<<Step(10)>>, <<Show(11, "x")>>, <<Continue>>}
    \cup {<<Break(n), Step(12)>> : n \in 0..2}
    \cup {<<BreakIf(1, 1, c), Show(13, "x")>> : c \in Outcomes}
    \cup {<<ContinueIf(1, c), Step(14)>> : c \in Outcomes}
    \cup {<<OnDo(1, c, a), Step(16)>> :
            c \in {<<T>>, <<F, T>>}, a \in {Break(0), Break(2), Continue, Show(17, "x")}}

(* An if or a case, or an inner loop, around the jump. *)
Ifs(b) ==
  {<<If(2, <<Arm(c, b)>>, h, IF h THEN <<Step(20)>> ELSE <<>>)>> : c \in Outcomes, h \in BOOLEAN}
    \cup {<<If(2, <<Arm(c, <<Step(21)>>), Arm(<<T>>, b)>>, h, IF h THEN <<Step(20)>> ELSE <<>>)>> :
            c \in Outcomes, h \in BOOLEAN}
    \cup {<<If(2, <<Arm(c, b), Arm(d, <<Step(22)>>), Arm(<<T>>, <<Step(23)>>)>>, FALSE, <<>>)>> :
            c, d \in Outcomes}
Cases(b) ==
  {<<Case(v, <<Is(1, b), Has(2, c, <<Step(24)>>)>>, h, IF h THEN <<Step(25)>> ELSE <<>>)>> :
     v \in 1..2, c \in Outcomes, h \in BOOLEAN}
    \cup {<<FullCase({1, 2, 3}, v, <<Is(1, <<Step(26)>>), Is(2, <<Step(27)>>), Is(w, <<Step(28)>>)>>)>> :
            v \in 1..3, w \in {2, 3}}
Inner(b) ==
  {<<While(2, c, b)>> : c \in {<<>>, <<T>>, <<T, T>>}}
    \cup {<<For("y", 1, n, 1, b \o <<Show(29, "y")>>)>> : n \in 0..2}
    \cup {<<Foreach("y", l, b)>> : l \in {<<>>, <<7>>, <<7, 8>>}}
    \cup {<<ForC("y", 1, 2, 1, b)>>}
    \cup {<<For("y", 1, 2, 1, <<BreakKind("for")>> \o b)>>, <<While(2, <<T, T>>, <<BreakKind("while")>> \o b)>>}

(* A loop around that, with something after it in the body, and the value *)
(* of the variable afterwards.                                             *)
Outer(b) ==
  {<<For("x", f, 3 - f, 3 - 2 * f, b \o <<Step(30)>>)>> : f \in 1..2}
    \cup {<<For("x", 1, 3, 1, <<Show(31, "x")>> \o b)>>,
          <<ForC("x", 1, 2, 1, b \o <<Step(32)>>)>>,
          <<Foreach("x", <<5, 6>>, b \o <<Step(33)>>)>>,
          <<While(5, <<T, T>>, b \o <<Step(34)>>)>>,
          <<Case(1, <<Is(1, b \o <<Step(35)>>), Is(1, <<Step(36)>>)>>, TRUE, <<Step(37)>>)>>}

Middles(jumps) == UNION {Ifs(j) \cup Cases(j) \cup Inner(j) : j \in jumps}
Ended(b) == b \o <<Show(40, "x")>>

Level2 == {Ended(o) : o \in UNION {Outer(m) : m \in Jumps \cup Middles(Jumps)}}

(* Three levels, with fewer jumps. *)
FewJumps == {<<Break(0)>>, <<Break(3)>>, <<Continue>>, <<Step(15)>>}
Small(b) ==
  {<<If(6, <<Arm(<<T, F, T>>, b), Arm(<<T>>, <<Step(50)>>)>>, TRUE, <<Step(51)>>)>>,
   <<For("z", 1, 2, 1, b)>>,
   <<While(6, <<T>>, b)>>,
   <<Case(1, <<Is(1, b)>>, FALSE, <<>>)>>}
Level3 == {Ended(o) : o \in UNION {Outer(m) : m \in UNION {Small(n) : n \in UNION {Small(j) : j \in FewJumps}}}}

(* Bodies that are not executed as they are written, and what is too deep *)
(* for the arrays.                                                         *)
RECURSIVE Nested(_, _)
Nested(n, b) == IF n = 0 THEN b ELSE <<Foreach("x", <<1>>, Nested(n - 1, b))>>
RECURSIVE NestedCases(_)
NestedCases(n) == IF n = 0 THEN <<Step(60)>> ELSE <<Case(1, <<Is(1, NestedCases(n - 1))>>, FALSE, <<>>)>>

NoElse == If(6, <<Arm(<<>>, <<Step(61)>>)>>, FALSE, <<>>)
Others ==
  {Nested(MAX_LOOPS, <<Step(62)>>), NestedCases(CASE_CAP),
   <<Break(0)>>, <<Continue>>,
   <<For("x", 1, 2, 1, <<While(1, <<T>>, <<BreakKind("for")>>)>>)>>,
   <<While(1, <<T>>, <<For("x", 1, 2, 1, <<BreakKind("while")>>)>>)>>,
   <<For("x", 1, 3, 1, <<ShowInTry(63, "x")>>)>>,
   <<If(1, <<Arm(<<T>>, <<NoElse>>), Arm(<<T>>, <<Step(64)>>)>>, FALSE, <<>>)>>,
   <<For("x", 1, 2, 1, <<OnDo(1, <<F, T>>, BreakKind("for")), Show(68, "x")>>)>>,
   <<If(1, <<Arm(<<T>>, <<NoElse>>)>>, TRUE, <<Step(65)>>)>>,
   <<While(1, <<T, T>>, <<For("x", 1, 2, 1, <<Break(2)>>), While(2, <<T>>, <<>>), Step(66)>>)>>,
   <<For("x", 1, 2, 1, <<While(1, <<T, T>>, <<Break(2)>>), For("y", 1, 2, 1, <<>>), Step(67)>>)>>}

AllScripts == Level2 \cup Level3 \cup {Ended(o) : o \in Others}
TheVars == {"x", "y", "z"}
=============================================================================

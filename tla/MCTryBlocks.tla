---------------------------- MODULE MCTryBlocks ----------------------------
(***************************************************************************)
(* Scripts for TryBlocks: one function with a block, which may hold a      *)
(* second one, and a statement after it.  Categories are "a" and "b".      *)
(***************************************************************************)
EXTENDS TryBlocks

CONSTANTS c1, c2

Leaves(id) ==
  {<<StepAt(id)>>} \cup {<<ThrowAt(id, k)>> : k \in Categories}
Bodies(id) ==
  Leaves(id) \cup {<<ReturnAt(id)>>, <<EvalAt(id, None)>>, <<EvalAt(id, "a")>>, <<LibAt(id, "b")>>}

(* Handlers of up to two catches, the second for every category. *)
HandlerBodies(id) == Leaves(id) \cup {<<ThrowAt(id, Again)>>, <<EvalAt(id, None), StepAt(id + 5)>>}
Catches1(id) == {<<Handler({k}, h)>> : k \in Categories, h \in HandlerBodies(id)}
Catches2(id) == {h \o <<Handler(Categories, <<StepAt(id + 10)>>)>> : h \in Catches1(id)}
CatchLists(id) == {<<>>} \cup Catches1(id) \cup Catches2(id)
Finals(id) == {<<>>} \cup Leaves(id)

Flat == {<<TryAt("b1", <<StepAt(1)>> \o b, h, f), StepAt(90)>> :
           b \in Bodies(2), h \in CatchLists(10), f \in Finals(40)}
Inner == {TryAt("b2", b, h, <<>>) : b \in Bodies(3), h \in {<<>>} \cup Catches1(50)}
Nested == {<<TryAt("b1", <<i, StepAt(4)>>, h, f), StepAt(90)>> :
             i \in Inner, h \in {<<>>} \cup Catches2(10), f \in {<<>>, <<StepAt(40)>>}}

(* Two inner blocks, and one in a handler. *)
Second == TryAt("b3", <<ThrowAt(60, "a")>>, <<Handler({"a"}, <<StepAt(61)>>)>>, <<>>)
Paired == {<<TryAt("b1", <<i, Second, StepAt(4)>>, <<>>, <<>>), StepAt(90)>> : i \in Inner}
InHandler == {<<TryAt("b1", <<ThrowAt(2, "b")>>, <<Handler({"b"}, <<i>>)>>, <<>>), StepAt(90)>> :
                i \in Inner}

(* No block: what a statement throws is the caller's. *)
Unprotected == {b \o <<StepAt(90)>> : b \in Bodies(1)}

(* Assertions in a body, a handler and a then, and outside of blocks. *)
Assertions(id) ==
  {<<AssertAt(id, r)>> : r \in {"true", "false", "fault", "a"}}
    \cup {<<AssertErrorAt(id, r)>> : r \in {"true", "fault", "a"}}
AssertCatches ==
  {<<>>} \cup
  {<<Handler({k}, h)>> \o l : k \in {"a", "assert"}, h \in {<<StepAt(10)>>} \cup Assertions(10),
                             l \in {<<>>, <<Handler({"a", "error", "assert"}, <<StepAt(20)>>)>>}}
Asserting ==
  {<<TryAt("b1", b \o <<EvalAt(3, None), StepAt(4)>>, h, f), StepAt(90)>> :
     b \in Assertions(2), h \in AssertCatches, f \in {<<>>, <<StepAt(40)>>}}
  \cup
  {<<TryAt("b1", <<ThrowAt(2, "a")>>, h, f), StepAt(90)>> :
     h \in AssertCatches, f \in {<<>>} \cup Assertions(40)}
  \cup
  {<<TryAt("b1", <<TryAt("b2", a, h, <<>>), StepAt(4)>>, g, <<>>), StepAt(90)>> :
     a \in Assertions(3), h \in {<<>>} \cup Catches1(50),
     g \in {<<>>, <<Handler({"assert"}, <<StepAt(10)>>)>>}}
  \cup {a \o <<EvalAt(5, None), StepAt(90)>> : a \in Assertions(1)}

AllScripts ==
  {[c \in Callers |-> s] :
     s \in Flat \cup Nested \cup Paired \cup InHandler \cup Unprotected \cup Asserting}

TheCategories == {"a", "b"}
=============================================================================

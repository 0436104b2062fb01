----------------------------- MODULE MCBindings -----------------------------
(* Two or three names and one task.                                        *)
(* PlainTexts: every main program and function of two statements (the      *)
(* first names a: b would be the same), the function in the main file or   *)
(* in a module, with names that only texts and FOREACH mention.            *)
(* ProperTryTexts: a try block in the main program, whose variables the    *)
(* rest of the program names too.                                          *)
(* UnnamedTexts: the slot of a name that only the try block has is free    *)
(* for the rest.                                                           *)
EXTENDS Bindings

CONSTANTS a, b, c

St2(op, n) == [op |-> op, n |-> n]
Statements(ops) == [op : ops, n : {a, b}]
Pairs(ops) == {<<x, y>> : x \in Statements(ops), y \in Statements(ops)}
Try(body) == [op |-> "try", body |-> body]

PlainTexts ==
  [main : {<<x, y>> : x \in [op : {"set", "get", "text", "key"}, n : {a}],
                      y \in Statements({"set", "get", "text", "key"})},
   fun : Pairs({"set", "get", "vm", "key"}), module : BOOLEAN]

TryTexts ==
  {[main |-> <<St2("set", x), Try(body), y>>, fun |-> <<z>>, module |-> FALSE] :
     x \in {a, b}, body \in Pairs({"set", "get", "vm"}), y \in Statements({"get", "vm"}),
     z \in Statements({"get", "vm"})}

NamesIn(sts) == {sts[i].n : i \in {j \in DOMAIN sts : HasToken(sts[j])}}
TryNames(sts) == UNION {NamesIn(sts[i].body) : i \in TryAt(sts)}

ProperTryTexts ==
  {t \in TryTexts : TryNames(t.main) \subseteq NamesIn(t.main) \union NamesIn(t.fun)}

UnnamedTexts ==
  {[main |-> <<Try(<<St2("set", c), x>>), St2("set", a), y>>, fun |-> <<z>>, module |-> TRUE] :
     x \in {St2("get", c), St2("set", c)}, y \in {St2("key", b), St2("text", b)},
     z \in Statements({"set", "vm"})}

SomeTexts == PlainTexts \union ProperTryTexts \union UnnamedTexts
=============================================================================

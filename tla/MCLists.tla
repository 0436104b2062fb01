------------------------------ MODULE MCLists ------------------------------
(* Two variables, numbers 1 and 2, and every operation.                    *)
EXTENDS Lists, TLC

CONSTANTS a, b

St(op, v, w_, x, i, j, n) == [op |-> op, v |-> v, w |-> w_, x |-> x, i |-> i, j |-> j, n |-> n]

Copies  == {"assign", "tail", "sort", "uniq"}
Inplace == {"pop"}
WithNum == {"append", "push_front", "list_fill", "add"}

Symmetry == Permutations(Vars)

SomeStatements ==
  {St(op, v, u, v, 0, 0, 1) : op \in Copies, v \in Vars, u \in Vars}
  \union {St(op, v, v, v, 0, 0, n) : op \in {"pop", "range"}, v \in Vars, n \in {1}}
  \union {St(op, v, v, v, 0, 0, n) : op \in {"append_to", "literal"}, v \in Vars, n \in {2}}
  \union {St(op, v, u, v, 0, 0, n) : op \in WithNum, v \in Vars, u \in Vars, n \in Numbers}
  \union {St("insert", v, u, v, i, 0, 2) : v \in Vars, u \in Vars, i \in {1, 2}}
  \union {St("remove", v, u, v, i, 0, 1) : v \in Vars, u \in Vars, i \in {1, 2}}
  \union {St("set", v, v, v, i, 0, 2) : v \in Vars, i \in {0, 2}}
  \union {St("element", v, u, v, 0, 0, 1) : v \in Vars, u \in Vars}
  \union {St("slice", v, u, v, i, j, 1) : v \in Vars, u \in Vars, i \in {0, 1}, j \in {1, 2}}
  \union {St("esplit", v, u, x, 2, 0, 1) : v \in Vars, u \in Vars, x \in Vars}
  \union {St(op, v, u, x, 0, 0, 1) : op \in {"concat", "nest"}, v \in Vars, u \in Vars, x \in Vars}
  \union {St("inner", v, v, v, i, j, 2) : v \in Vars, i \in {0, 1}, j \in {0, 2}}
=============================================================================

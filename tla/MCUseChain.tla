----------------------------- MODULE MCUseChain -----------------------------
(* Four goroutines and four names.                                         *)
(* AlonePlans: one goroutine, four changes of a chain of two names.        *)
(* RoomPlans: one goroutine; the array of a pushed chain of three names    *)
(* has room, where the next name is put.                                   *)
(* RacePlans: a chain of two names that three goroutines change or read.   *)
(* LockPlans: four goroutines, each with one lookup or change.             *)
EXTENDS UseChain, TLC

CONSTANTS g1, g2, g3, g4, a, b, c, d

C(o, n) == [op |-> o, name |-> n]
Changes == {C("add", c), C("remove", a), C("top", b), C("push", a), C("pop", a), C("reset", a)}
Two     == <<C("add", a), C("add", b)>>

Plan(x, y, z, w) == g1 :> x @@ g2 :> y @@ g3 :> z @@ g4 :> w

AlonePlans ==
  {Plan(Two \o <<x, y, z, w, C("match", a)>>, <<>>, <<>>, <<>>) :
     x \in Changes, y \in Changes, z \in Changes, w \in Changes}

RoomPlans ==
  LET Then == {C("add", d), C("remove", a), C("top", b), C("push", a), C("pop", a)}
  IN  {Plan(Two \o <<C("add", c), C("push", a), x, y, z, C("match", a)>>, <<>>, <<>>, <<>>) :
         x \in Then, y \in Then, z \in Then}

RacePlans ==
  {Plan(Two \o <<C("top", b)>>, <<x, y>>, <<>>, <<>>) :
     x \in Changes \union {C("add", b), C("match", a)}, y \in Changes \union {C("match", a)}}
  \union
  {Plan(<<C("push", a)>> \o Two \o <<C("top", b)>>, <<x>>, <<C("match", a)>>, <<>>) :
     x \in {C("pop", a), C("reset", a), C("add", c)}}

Lookups == {C("enum", a), C("struct", a), C("match", a), C("define", a), C("add", a), C("add", b)}

LockPlans ==
  {Plan(<<x>>, <<y>>, <<z>>, <<w>>) :
     x \in {C("enum", a), C("define", a)}, y \in Lookups, z \in {C("struct", a), C("define", a)},
     w \in {C("add", a), C("struct", a)}}

SomePlans == AlonePlans \union RoomPlans \union RacePlans \union LockPlans
=============================================================================

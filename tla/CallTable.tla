----------------------------- MODULE CallTable -----------------------------
(***************************************************************************)
(* The call table of the interpreter: GetNextFnSpace hands out slots of    *)
(* calltable, Call runs in one and publishes its return values there, and  *)
(* the caller reads them and marks the slot for disposal (actor.go,        *)
(* eval_ops.go).                                                           *)
(*                                                                         *)
(* Goroutines run calls that nest.  A task is a goroutine whose outermost  *)
(* call was started by ASYNC: its result is read under a read lock, sent   *)
(* to the parent, and only then is the slot marked.  A return value is     *)
(* abstracted to the goroutine that produced it.                           *)
(***************************************************************************)
EXTENDS Naturals

CONSTANTS
  Goroutines,   \* everything that runs calls
  Tasks,        \* those started by an ASYNC statement
  NoValue,      \* retvals = nil
  Modulus,      \* gnfsModulus: the number of slots
  LastDef,      \* slots 0..LastDef: global, main, the program, definitions
  Freq,         \* globseq_disposal_freq
  ShyCall,      \* gcShyness given by the caller of a function
  ShyTask,      \* gcShyness given by task
  MaxDepth      \* bound on the nesting of calls in one goroutine

ASSUME CallTableAssumption ==
  /\ Modulus \in Nat /\ LastDef \in Nat
  /\ LastDef >= 2 /\ LastDef < Modulus - 1
  /\ Freq \in Nat \ {0} /\ MaxDepth \in Nat \ {0}
  /\ ShyCall \in Nat /\ ShyTask \in Nat
  /\ Tasks \subseteq Goroutines
  /\ NoValue \notin Goroutines

VARIABLES
  globseq,     \* where the allocator looks next
  numlookup,   \* the slots that have a name, in numlookup and fnlookup alike
  calltable,   \* one entry per slot
  depth,       \* number of calls each goroutine has open
  loc,         \* the slot of each of them, from the outermost
  pc,          \* where the innermost is
  produced     \* the value its RETURN statement gave

vars == <<globseq, numlookup, calltable, depth, loc, pc, produced>>

Slots == 0..(Modulus - 1)
Definitions == 0..LastDef
Values == Goroutines \cup {NoValue}
Level == 1..MaxDepth

Entry == [gc : BOOLEAN, disposable : BOOLEAN, gcShyness : Nat, retvals : Values]
FreshEntry ==
  [gc |-> FALSE, disposable |-> FALSE, gcShyness |-> 0, retvals |-> NoValue]

Top(g) == loc[g][depth[g]]
OpenCalls == {f \in Goroutines \X Level : f[2] <= depth[f[1]]}
SlotOf(f) == loc[f[1]][f[2]]

Init ==
  /\ globseq = LastDef
  /\ numlookup = Definitions
  /\ calltable = [s \in Slots |-> FreshEntry]
  /\ depth = [g \in Goroutines |-> 0]
  /\ loc = [g \in Goroutines |-> [i \in Level |-> 0]]
  /\ pc = [g \in Goroutines |-> "run"]
  /\ produced = [g \in Goroutines |-> NoValue]

-----------------------------------------------------------------------------
(* The disposal scan runs when globseq is a multiple of the frequency.  It *)
(* counts down the marked entries below globseq and stops at the first     *)
(* whose count is exhausted.                                               *)
Scanned ==
  {s \in Slots : /\ globseq % Freq = 0
                 /\ s < globseq
                 /\ calltable[s].gc /\ calltable[s].disposable}
Ripe == {s \in Scanned : calltable[s].gcShyness <= 1}

(* The search for an unnamed slot goes up from globseq and wraps to 2. *)
Distance(s) == IF s >= globseq THEN s - globseq ELSE s + Modulus - globseq
IsNextFree(q) ==
  /\ q \in Slots \ (numlookup \cup {0, 1})
  /\ \A t \in Slots \ (numlookup \cup {0, 1}) : Distance(q) <= Distance(t)

(* The slot that is handed out, and the new value of globseq, which stays *)
(* behind when the scan found a slot.                                     *)
IsChosen(s, q) ==
  /\ IsNextFree(q)
  /\ \/ Ripe = {} /\ s = q
     \/ s \in Ripe /\ \A t \in Ripe : s <= t

CountedDown(e) ==
  [e EXCEPT !.gcShyness = IF @ > 0 THEN @ - 1 ELSE 0]

(* Variants of the allocator: the new slot is not named; the entry keeps  *)
(* what the last call left; the search looks at one slot only.            *)
GetNextFnSpaceUnnamed(s) ==
  \E q \in Slots :
    /\ IsChosen(s, q)
    /\ globseq' = q
    /\ calltable' = [calltable EXCEPT ![s] = FreshEntry]
    /\ UNCHANGED numlookup

GetNextFnSpaceStale(s) ==
  \E q \in Slots :
    /\ IsChosen(s, q)
    /\ globseq' = q
    /\ numlookup' = numlookup \cup {s}
    /\ calltable' = [calltable EXCEPT ![s].gc = FALSE, ![s].disposable = FALSE]

GetNextFnSpaceOneStep(s) ==
  /\ s = IF globseq \in numlookup THEN (globseq + 1) % Modulus ELSE globseq
  /\ globseq' = s
  /\ numlookup' = numlookup \cup {s}
  /\ calltable' = [calltable EXCEPT ![s] = FreshEntry]

(* GetNextFnSpace, one critical section of calllock. *)
GetNextFnSpace(s) ==
  \E q \in Slots :
    /\ IsChosen(s, q)
    /\ globseq' = q
    /\ numlookup' = numlookup \cup {s}
    /\ calltable' =
         [e \in Slots |->
            IF e = s THEN FreshEntry
            ELSE IF e \in Scanned /\ (Ripe = {} \/ e < s)
                 THEN CountedDown(calltable[e])
                 ELSE calltable[e]]

-----------------------------------------------------------------------------
(* A call of a user-defined function, or the ASYNC statement that starts  *)
(* the outermost call of a task.                                          *)
Enter(g) ==
  /\ pc[g] = "run"
  /\ depth[g] < MaxDepth
  /\ \E s \in Slots :
       /\ GetNextFnSpace(s)
       /\ loc' = [loc EXCEPT ![g][depth[g] + 1] = s]
  /\ depth' = [depth EXCEPT ![g] = @ + 1]
  /\ UNCHANGED <<pc, produced>>

(* The end of Call: with or without return values the slot is flagged     *)
(* disposable, in one critical section.                                   *)
Publish(g) ==
  /\ pc[g] = "run"
  /\ depth[g] > 0
  /\ \E v \in {g, NoValue} :
       /\ produced' = [produced EXCEPT ![g] = v]
       /\ calltable' =
            [calltable EXCEPT
               ![Top(g)].retvals = IF v = NoValue THEN @ ELSE v,
               ![Top(g)].disposable = TRUE]
  /\ pc' = [pc EXCEPT ![g] = "published"]
  /\ UNCHANGED <<globseq, numlookup, depth, loc>>

UnnameForgets(g) ==
  /\ pc[g] = "published"
  /\ pc' = [pc EXCEPT ![g] = "unnamed"]
  /\ UNCHANGED <<globseq, numlookup, calltable, depth, loc, produced>>

(* Then the names are dropped, outside the lock. *)
Unname(g) ==
  /\ pc[g] = "published"
  /\ numlookup' = numlookup \ {Top(g)}
  /\ pc' = [pc EXCEPT ![g] = "unnamed"]
  /\ UNCHANGED <<globseq, calltable, depth, loc, produced>>

IsTaskCall(g) == g \in Tasks /\ depth[g] = 1

Mark(g, shyness) ==
  calltable' = [calltable EXCEPT ![Top(g)].gcShyness = shyness,
                                 ![Top(g)].gc = TRUE]

ReturnTwice(g) ==
  /\ loc' = [loc EXCEPT ![g][depth[g]] = 0]
  /\ depth' = [depth EXCEPT ![g] = @ - 2]
  /\ pc' = [pc EXCEPT ![g] = "run"]
  /\ produced' = [produced EXCEPT ![g] = NoValue]
  /\ UNCHANGED <<globseq, numlookup>>

(* The caller goes on; its own call, if it is in one, is innermost again. *)
Return(g) ==
  /\ loc' = [loc EXCEPT ![g][depth[g]] = 0]
  /\ depth' = [depth EXCEPT ![g] = @ - 1]
  /\ pc' = [pc EXCEPT ![g] = "run"]
  /\ produced' = [produced EXCEPT ![g] = NoValue]
  /\ UNCHANGED <<globseq, numlookup>>

(* callUserDefinedFunction reads the return values and marks the slot in  *)
(* one critical section.                                                  *)
Collect(g) ==
  /\ pc[g] = "unnamed"
  /\ ~IsTaskCall(g)
  /\ Mark(g, ShyCall)
  /\ Return(g)

(* task reads the return values, sends them, and marks the slot once the  *)
(* parent has received them.                                              *)
TaskRead(g) ==
  /\ pc[g] = "unnamed"
  /\ IsTaskCall(g)
  /\ pc' = [pc EXCEPT ![g] = "sending"]
  /\ UNCHANGED <<globseq, numlookup, calltable, depth, loc, produced>>

TaskMark(g) ==
  /\ pc[g] = "sending"
  /\ Mark(g, ShyTask)
  /\ Return(g)

Step(g) ==
  \/ Enter(g) \/ Publish(g) \/ Unname(g)
  \/ Collect(g) \/ TaskRead(g) \/ TaskMark(g)

Next == \E g \in Goroutines : Step(g)

Spec == Init /\ [][Next]_vars

-----------------------------------------------------------------------------
(* The types of the tables and of the goroutines' own state. *)
TypeOK ==
  /\ globseq \in Slots
  /\ numlookup \subseteq Slots
  /\ calltable \in [Slots -> Entry]
  /\ depth \in [Goroutines -> 0..MaxDepth]
  /\ loc \in [Goroutines -> [Level -> Slots]]
  /\ pc \in [Goroutines -> {"run", "published", "unnamed", "sending"}]
  /\ produced \in [Goroutines -> Values]

(* The slots of global, main, the program and the function definitions    *)
(* stay reserved, and no call ever runs in one: not by the scan, not by   *)
(* the search wrapping round, whatever the goroutines interleave.         *)
DefinitionsKept ==
  /\ Definitions \subseteq numlookup
  /\ \A f \in OpenCalls : SlotOf(f) \notin Definitions

(* Every name in the table beyond the definitions belongs to a call that  *)
(* is still running or about to drop it: no interleaving of calls leaks a *)
(* slot.                                                                  *)
NoSlotLeak ==
  \A s \in numlookup \ Definitions :
    \E f \in OpenCalls :
      /\ SlotOf(f) = s
      /\ f[2] = depth[f[1]] => pc[f[1]] \in {"run", "published"}

(* Two open calls never use the same slot. *)
OneCallPerSlot ==
  \A e, f \in OpenCalls : SlotOf(e) = SlotOf(f) => e = f

(* Two calls that are still executing never use the same slot.  Weaker    *)
(* than OneCallPerSlot: calls that only wait to be collected are left out. *)
Executing(f) == f[2] = depth[f[1]] => pc[f[1]] \in {"run", "published"}
RunningApart ==
  \A e, f \in OpenCalls :
    Executing(e) /\ Executing(f) /\ SlotOf(e) = SlotOf(f) => e = f

(* Between the end of Call and the caller's read, the slot holds what the *)
(* function returned.                                                     *)
ResultIntact ==
  \A g \in Goroutines :
    pc[g] \in {"published", "unnamed"} =>
      calltable[Top(g)].retvals = produced[g]

(* The call table implements a pool of slots. *)
Pool == INSTANCE SlotPool
          WITH Calls <- Goroutines \X Level, granted <- {<<f, SlotOf(f)>> : f \in OpenCalls}
PoolSpec == Pool!Spec
=============================================================================

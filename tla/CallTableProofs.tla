-------------------------- MODULE CallTableProofs --------------------------
(***************************************************************************)
(* Safety of the call table.  For any goroutines and any interleaving: the *)
(* slots of definitions are never handed out and no slot is leaked.  For a *)
(* program of one goroutine, whatever the table's size, the disposal       *)
(* frequency and the shyness: every open call has a slot of its own, its   *)
(* result is intact until it is collected, and the table implements        *)
(* SlotPool.                                                               *)
(***************************************************************************)
EXTENDS CallTable, TLAPS

(* A goroutine past the end of Call has the call still open. *)
PcAgrees == \A g \in Goroutines : pc[g] # "run" => depth[g] > 0

(* Nobody ever marks the slot of a definition for disposal. *)
DefinitionsUnmarked == \A s \in Definitions : ~calltable[s].gc

DInv ==
  /\ TypeOK
  /\ PcAgrees
  /\ DefinitionsUnmarked
  /\ DefinitionsKept
  /\ NoSlotLeak

-----------------------------------------------------------------------------
(* What the allocator returns. *)

LEMMA DefinitionsAreSlots == Definitions \subseteq Slots
  BY CallTableAssumption DEF Definitions, Slots

(* It returns a slot outside the definitions, which either has no name or *)
(* was marked for disposal.                                               *)
LEMMA ChosenSlot ==
  ASSUME TypeOK, DefinitionsUnmarked, Definitions \subseteq numlookup,
         NEW s \in Slots, GetNextFnSpace(s)
  PROVE  /\ s \notin Definitions
         /\ s \notin numlookup \/ calltable[s].gc
<1>1. PICK q \in Slots : IsChosen(s, q)
  BY DEF GetNextFnSpace
<1>2. CASE s = q
  BY <1>1, <1>2 DEF IsChosen, IsNextFree
<1>3. CASE s \in Ripe
  BY <1>3 DEF Ripe, Scanned, DefinitionsUnmarked
<1> QED BY <1>1, <1>2, <1>3 DEF IsChosen

(* It names that slot, refreshes its entry, and touches nothing but the   *)
(* shyness of the others.                                                 *)
LEMMA AllocationEffect ==
  ASSUME TypeOK, NEW s \in Slots, GetNextFnSpace(s)
  PROVE  /\ globseq' \in Slots
         /\ numlookup' = numlookup \cup {s}
         /\ calltable' \in [Slots -> Entry]
         /\ calltable'[s] = FreshEntry
         /\ \A e \in Slots : e # s =>
              /\ calltable'[e].gc = calltable[e].gc
              /\ calltable'[e].disposable = calltable[e].disposable
              /\ calltable'[e].retvals = calltable[e].retvals
<1>1. globseq' \in Slots /\ numlookup' = numlookup \cup {s}
  BY DEF GetNextFnSpace
<1>2. calltable' =
         [e \in Slots |->
            IF e = s THEN FreshEntry
            ELSE IF e \in Scanned /\ (Ripe = {} \/ e < s)
                 THEN CountedDown(calltable[e])
                 ELSE calltable[e]]
  BY DEF GetNextFnSpace
<1>3. FreshEntry \in Entry
  BY DEF FreshEntry, Entry, Values
<1>4. \A e \in Slots :
        /\ CountedDown(calltable[e]) \in Entry
        /\ CountedDown(calltable[e]).gc = calltable[e].gc
        /\ CountedDown(calltable[e]).disposable = calltable[e].disposable
        /\ CountedDown(calltable[e]).retvals = calltable[e].retvals
  BY DEF TypeOK, CountedDown, Entry
<1>5. \A e \in Slots : calltable[e] \in Entry
  BY DEF TypeOK
<1> HIDE DEF Entry, FreshEntry, CountedDown
<1> QED BY <1>1, <1>2, <1>3, <1>4, <1>5

LEMMA TopIsSlot ==
  ASSUME TypeOK, NEW g \in Goroutines, depth[g] > 0
  PROVE  Top(g) \in Slots /\ <<g, depth[g]>> \in OpenCalls
                          /\ SlotOf(<<g, depth[g]>>) = Top(g)
<1>1. depth[g] \in Level
  BY CallTableAssumption DEF TypeOK, Level
<1> QED BY <1>1 DEF TypeOK, Top, OpenCalls, SlotOf

-----------------------------------------------------------------------------
(* The invariant for any number of goroutines. *)

LEMMA InitDInv == Init => DInv
<1> SUFFICES ASSUME Init PROVE DInv
  OBVIOUS
<1>1. FreshEntry \in Entry /\ ~FreshEntry.gc
  BY DEF FreshEntry, Entry, Values
<1>2. TypeOK
  BY <1>1, CallTableAssumption DEF Init, TypeOK, Slots, Definitions, Values, Level
<1>3. OpenCalls = {}
  BY DEF Init, OpenCalls, Level
<1> QED BY <1>1, <1>2, <1>3, DefinitionsAreSlots
        DEF Init, DInv, PcAgrees, DefinitionsUnmarked, DefinitionsKept, NoSlotLeak

(* Enter opens one call, in the slot the allocator chose. *)
LEMMA EnterEffect ==
  ASSUME TypeOK, NEW g \in Goroutines, Enter(g)
  PROVE  \E s \in Slots, n \in Level :
           /\ GetNextFnSpace(s)
           /\ n = depth[g] + 1
           /\ OpenCalls' = OpenCalls \cup {<<g, n>>}
           /\ SlotOf(<<g, n>>)' = s
           /\ \A f \in OpenCalls : SlotOf(f)' = SlotOf(f)
<1>1. PICK s \in Slots : /\ GetNextFnSpace(s)
                         /\ loc' = [loc EXCEPT ![g][depth[g] + 1] = s]
  BY DEF Enter
<1>2. PICK n \in Level : n = depth[g] + 1 /\ n > depth[g]
  BY CallTableAssumption DEF Enter, TypeOK, Level
<1>3. depth' = [depth EXCEPT ![g] = n]
  BY <1>2 DEF Enter
<1>4. OpenCalls' = OpenCalls \cup {<<g, n>>}
  BY <1>2, <1>3 DEF TypeOK, OpenCalls, Level
<1>5. loc' = [loc EXCEPT ![g] = [loc[g] EXCEPT ![n] = s]]
  BY <1>1, <1>2
<1>6. SlotOf(<<g, n>>)' = s
  BY <1>5 DEF TypeOK, SlotOf
<1>7. \A f \in OpenCalls : SlotOf(f)' = SlotOf(f)
  <2> SUFFICES ASSUME NEW f \in OpenCalls PROVE SlotOf(f)' = SlotOf(f)
    OBVIOUS
  <2>1. f[1] \in Goroutines /\ f[2] \in Level /\ f[2] <= depth[f[1]]
    BY DEF OpenCalls
  <2>2. CASE f[1] = g
    <3>1. f[2] # n
      BY <2>1, <2>2, <1>2 DEF Level, TypeOK
    <3> QED BY <2>1, <2>2, <3>1, <1>5 DEF SlotOf, TypeOK
  <2>3. CASE f[1] # g
    BY <2>1, <2>3, <1>5 DEF SlotOf, TypeOK
  <2> QED BY <2>2, <2>3
<1> QED BY <1>1, <1>2, <1>4, <1>6, <1>7

LEMMA EnterDInv ==
  ASSUME DInv, NEW g \in Goroutines, Enter(g) PROVE DInv'
<1> USE DEF DInv
<1>1. PICK s \in Slots, n \in Level :
         /\ GetNextFnSpace(s)
         /\ n = depth[g] + 1
         /\ OpenCalls' = OpenCalls \cup {<<g, n>>}
         /\ SlotOf(<<g, n>>)' = s
         /\ \A f \in OpenCalls : SlotOf(f)' = SlotOf(f)
  BY EnterEffect
<1>2. /\ globseq' \in Slots
      /\ numlookup' = numlookup \cup {s}
      /\ calltable' \in [Slots -> Entry]
      /\ \A e \in Slots : e # s => calltable'[e].gc = calltable[e].gc
  BY <1>1, AllocationEffect
<1>3. s \notin Definitions
  BY <1>1, ChosenSlot DEF DefinitionsKept
<1>4. TypeOK'
  BY <1>1, <1>2, CallTableAssumption DEF TypeOK, Enter, Level
<1>5. PcAgrees' /\ pc' = pc
  BY <1>1 DEF PcAgrees, Enter, TypeOK
<1>6. DefinitionsUnmarked'
  BY <1>2, <1>3, DefinitionsAreSlots DEF DefinitionsUnmarked, Definitions
<1>7. DefinitionsKept'
  <2>1. \A f \in OpenCalls' : SlotOf(f)' \notin Definitions
    BY <1>1, <1>3 DEF DefinitionsKept
  <2> QED BY <1>2, <2>1 DEF DefinitionsKept, Definitions
<1>8. NoSlotLeak'
  <2> SUFFICES ASSUME NEW t \in numlookup' \ Definitions
               PROVE  \E f \in OpenCalls' :
                        /\ SlotOf(f)' = t
                        /\ f[2] = depth'[f[1]] => pc'[f[1]] \in {"run", "published"}
    BY DEF NoSlotLeak, Definitions
  <2>1. CASE t = s
    <3>1. pc'[g] = "run"
      BY DEF Enter
    <3>2. <<g, n>> \in OpenCalls' /\ SlotOf(<<g, n>>)' = t
      BY <1>1, <2>1
    <3> QED BY <3>1, <3>2
  <2>2. CASE t # s
    <3>1. PICK f \in OpenCalls :
             /\ SlotOf(f) = t
             /\ f[2] = depth[f[1]] => pc[f[1]] \in {"run", "published"}
      BY <1>2, <2>2 DEF NoSlotLeak
    <3>2. f[2] = depth'[f[1]] => pc'[f[1]] \in {"run", "published"}
      BY <3>1 DEF Enter, OpenCalls, TypeOK
    <3> QED BY <1>1, <3>1, <3>2
  <2> QED BY <2>1, <2>2
<1> QED BY <1>4, <1>5, <1>6, <1>7, <1>8

LEMMA PublishDInv ==
  ASSUME DInv, NEW g \in Goroutines, Publish(g) PROVE DInv'
<1> USE DEF DInv
<1>1. Top(g) \in Slots
  BY TopIsSlot DEF Publish
<1>2. PICK v \in {g, NoValue} :
         /\ produced' = [produced EXCEPT ![g] = v]
         /\ calltable' =
              [calltable EXCEPT
                 ![Top(g)].retvals = IF v = NoValue THEN @ ELSE v,
                 ![Top(g)].disposable = TRUE]
  BY DEF Publish
<1>3. /\ calltable' \in [Slots -> Entry]
      /\ \A e \in Slots : calltable'[e].gc = calltable[e].gc
  <2>1. PICK w \in Values :
          calltable' = [calltable EXCEPT ![Top(g)] =
                          [[@ EXCEPT !.retvals = w] EXCEPT !.disposable = TRUE]]
    BY <1>1, <1>2 DEF TypeOK, Entry, Values
  <2> QED BY <1>1, <2>1 DEF TypeOK, Entry
<1>4. TypeOK'
  BY <1>2, <1>3 DEF TypeOK, Publish, Values
<1>5. PcAgrees'
  BY DEF PcAgrees, Publish, TypeOK
<1>6. DefinitionsUnmarked'
  BY <1>3, DefinitionsAreSlots DEF DefinitionsUnmarked, Definitions
<1>7. DefinitionsKept'
  BY DEF DefinitionsKept, Publish, OpenCalls, SlotOf, Definitions
<1>8. NoSlotLeak'
  BY DEF NoSlotLeak, Publish, OpenCalls, SlotOf, Definitions, TypeOK
<1> QED BY <1>4, <1>5, <1>6, <1>7, <1>8

LEMMA UnnameDInv ==
  ASSUME DInv, NEW g \in Goroutines, Unname(g) PROVE DInv'
<1> USE DEF DInv
<1>1. /\ Top(g) \in Slots
      /\ <<g, depth[g]>> \in OpenCalls
      /\ SlotOf(<<g, depth[g]>>) = Top(g)
  BY TopIsSlot DEF PcAgrees, Unname
<1>2. TypeOK' /\ PcAgrees'
  BY DEF TypeOK, PcAgrees, Unname
<1>3. DefinitionsUnmarked' /\ DefinitionsKept'
  BY <1>1 DEF DefinitionsUnmarked, DefinitionsKept, Unname, OpenCalls, SlotOf,
              Definitions
<1>4. NoSlotLeak'
  <2> SUFFICES ASSUME NEW t \in numlookup' \ Definitions
               PROVE  \E f \in OpenCalls' :
                        /\ SlotOf(f)' = t
                        /\ f[2] = depth'[f[1]] => pc'[f[1]] \in {"run", "published"}
    BY DEF NoSlotLeak, Definitions
  <2>1. PICK f \in OpenCalls :
           /\ SlotOf(f) = t
           /\ f[2] = depth[f[1]] => pc[f[1]] \in {"run", "published"}
    BY DEF NoSlotLeak, Unname
  <2>2. f[1] = g => f[2] # depth[g]
    BY <2>1, <1>1 DEF Unname, SlotOf, Top
  <2>3. f \in OpenCalls' /\ SlotOf(f)' = t
    BY <2>1 DEF Unname, OpenCalls, SlotOf
  <2>4. f[2] = depth'[f[1]] => pc'[f[1]] \in {"run", "published"}
    BY <2>1, <2>2 DEF Unname, TypeOK, OpenCalls
  <2> QED BY <2>3, <2>4
<1> QED BY <1>2, <1>3, <1>4

(* Return closes the innermost call and leaves the names alone. *)
LEMMA ReturnEffect ==
  ASSUME TypeOK, NEW g \in Goroutines, depth[g] > 0, Return(g)
  PROVE  /\ OpenCalls' = OpenCalls \ {<<g, depth[g]>>}
         /\ \A f \in OpenCalls' : SlotOf(f)' = SlotOf(f)
<1>1. depth[g] \in Level /\ depth[g] - 1 < depth[g]
  BY CallTableAssumption DEF TypeOK, Level
<1>2. OpenCalls' = OpenCalls \ {<<g, depth[g]>>}
  BY <1>1 DEF TypeOK, OpenCalls, Level, Return
<1>3. \A f \in OpenCalls' : SlotOf(f)' = SlotOf(f)
  <2> SUFFICES ASSUME NEW f \in OpenCalls' PROVE SlotOf(f)' = SlotOf(f)
    OBVIOUS
  <2>1. f \in Goroutines \X Level /\ f # <<g, depth[g]>>
    BY <1>2 DEF OpenCalls
  <2>2. loc' = [loc EXCEPT ![g] = [loc[g] EXCEPT ![depth[g]] = 0]]
    BY DEF Return
  <2>3. CASE f[1] = g
    BY <2>1, <2>2, <2>3, <1>1 DEF SlotOf, TypeOK
  <2>4. CASE f[1] # g
    BY <2>1, <2>2, <2>4 DEF SlotOf, TypeOK
  <2> QED BY <2>3, <2>4
<1> QED BY <1>2, <1>3

(* Marking a slot that belongs to a call keeps the types and reaches no   *)
(* other entry.                                                           *)
LEMMA MarkEffect ==
  ASSUME TypeOK, NEW g \in Goroutines, depth[g] > 0,
         NEW shyness \in Nat, Mark(g, shyness)
  PROVE  /\ calltable' \in [Slots -> Entry]
         /\ \A e \in Slots : e # Top(g) => calltable'[e] = calltable[e]
  BY TopIsSlot DEF Mark, TypeOK, Entry

LEMMA CollectDInv ==
  ASSUME DInv, NEW g \in Goroutines, Collect(g) \/ TaskMark(g) PROVE DInv'
<1> USE DEF DInv
<1>1. PICK shyness \in Nat : Mark(g, shyness)
  BY CallTableAssumption DEF Collect, TaskMark
<1>2. Return(g) /\ pc[g] \in {"unnamed", "sending"} /\ depth[g] > 0
  BY DEF Collect, TaskMark, PcAgrees
<1>3. /\ Top(g) \in Slots
      /\ <<g, depth[g]>> \in OpenCalls
      /\ SlotOf(<<g, depth[g]>>) = Top(g)
  BY <1>2, TopIsSlot
<1>4. /\ calltable' \in [Slots -> Entry]
      /\ \A e \in Slots : e # Top(g) => calltable'[e] = calltable[e]
  BY <1>1, <1>2, MarkEffect
<1>5. /\ OpenCalls' = OpenCalls \ {<<g, depth[g]>>}
      /\ \A f \in OpenCalls' : SlotOf(f)' = SlotOf(f)
  BY <1>2, ReturnEffect
<1>6. TypeOK'
  <2>1. depth[g] \in Level
    BY <1>2, CallTableAssumption DEF TypeOK, Level
  <2>2. 0 \in Slots /\ NoValue \in Values
    BY CallTableAssumption DEF Slots, Values
  <2>3. loc' \in [Goroutines -> [Level -> Slots]]
    BY <1>2, <2>1, <2>2 DEF TypeOK, Return
  <2>4. depth' \in [Goroutines -> 0..MaxDepth]
    BY <1>2, <2>1, CallTableAssumption DEF TypeOK, Return, Level
  <2>5. /\ pc' \in [Goroutines -> {"run", "published", "unnamed", "sending"}]
        /\ produced' \in [Goroutines -> Values]
        /\ globseq' \in Slots /\ numlookup' \subseteq Slots
    BY <1>2, <2>2 DEF TypeOK, Return
  <2> QED BY <1>4, <2>3, <2>4, <2>5 DEF TypeOK
<1>7. PcAgrees'
  BY <1>2 DEF PcAgrees, Return, TypeOK
<1>8. Top(g) \notin Definitions
  BY <1>3 DEF DefinitionsKept
<1>9. DefinitionsUnmarked'
  BY <1>4, <1>8, DefinitionsAreSlots DEF DefinitionsUnmarked, Definitions
<1>10. DefinitionsKept'
  BY <1>2, <1>5 DEF DefinitionsKept, Return, Definitions
<1>11. NoSlotLeak'
  <2> SUFFICES ASSUME NEW t \in numlookup \ Definitions
               PROVE  \E f \in OpenCalls' :
                        /\ SlotOf(f)' = t
                        /\ f[2] = depth'[f[1]] => pc'[f[1]] \in {"run", "published"}
    BY <1>2 DEF NoSlotLeak, Return, Definitions
  <2>1. PICK f \in OpenCalls :
           /\ SlotOf(f) = t
           /\ f[2] = depth[f[1]] => pc[f[1]] \in {"run", "published"}
    BY DEF NoSlotLeak
  <2>2. f \in Goroutines \X Level /\ f # <<g, depth[g]>>
    BY <2>1, <1>2 DEF OpenCalls
  <2>3. f \in OpenCalls' /\ SlotOf(f)' = t
    BY <2>1, <2>2, <1>5
  <2>4. f[2] = depth'[f[1]] => pc'[f[1]] \in {"run", "published"}
    BY <2>1, <2>2, <1>2 DEF Return, TypeOK
  <2> QED BY <2>3, <2>4
<1> QED BY <1>6, <1>7, <1>9, <1>10, <1>11

LEMMA TaskReadDInv ==
  ASSUME DInv, NEW g \in Goroutines, TaskRead(g) PROVE DInv'
<1> USE DEF DInv
<1>1. TypeOK' /\ PcAgrees' /\ DefinitionsUnmarked' /\ DefinitionsKept'
  BY DEF TaskRead, TypeOK, PcAgrees, DefinitionsUnmarked, DefinitionsKept,
         OpenCalls, SlotOf, Definitions
<1>2. NoSlotLeak'
  BY DEF NoSlotLeak, TaskRead, OpenCalls, SlotOf, Definitions, TypeOK
<1> QED BY <1>1, <1>2

LEMMA StutterDInv == DInv /\ UNCHANGED vars => DInv'
  BY DEF DInv, vars, TypeOK, PcAgrees, DefinitionsUnmarked, DefinitionsKept,
         NoSlotLeak, OpenCalls, SlotOf, Definitions

LEMMA NextDInv == DInv /\ [Next]_vars => DInv'
<1> SUFFICES ASSUME DInv, [Next]_vars PROVE DInv'
  OBVIOUS
<1>1. ASSUME NEW g \in Goroutines, Step(g) PROVE DInv'
  BY <1>1, EnterDInv, PublishDInv, UnnameDInv, CollectDInv, TaskReadDInv DEF Step
<1>2. CASE UNCHANGED vars
  BY <1>2, StutterDInv
<1> QED BY <1>1, <1>2 DEF Next

LEMMA DInvHolds == Spec => []DInv
  BY InitDInv, NextDInv, PTL DEF Spec

(* The types hold for any number of goroutines. *)
THEOREM TypeCorrect == Spec => []TypeOK
<1>1. DInv => TypeOK
  BY DEF DInv
<1> QED BY DInvHolds, <1>1, PTL

(* GetNextFnSpace never hands out the slot of global, main, the program   *)
(* or a function definition, for any goroutines and any interleaving.     *)
THEOREM DefinitionsSafe == Spec => []DefinitionsKept
<1>1. DInv => DefinitionsKept
  BY DEF DInv
<1> QED BY DInvHolds, <1>1, PTL

(* Calls that end normally never leak the name of a slot, for any         *)
(* goroutines and any interleaving.                                       *)
THEOREM NoLeak == Spec => []NoSlotLeak
<1>1. DInv => NoSlotLeak
  BY DEF DInv
<1> QED BY DInvHolds, <1>1, PTL

-----------------------------------------------------------------------------
(* Programs of one goroutine.  The open calls are all named until the     *)
(* innermost ends, none of their slots is marked, none of them has a      *)
(* value before its call ends, and all of them are distinct.              *)

Waiting(f) == f[2] < depth[f[1]] \/ pc[f[1]] = "run"

OpenCallsNamed ==
  \A f \in OpenCalls : (Waiting(f) \/ pc[f[1]] = "published") => SlotOf(f) \in numlookup

OpenCallsUnmarked == \A f \in OpenCalls : ~calltable[SlotOf(f)].gc

NoValueYet ==
  \A f \in OpenCalls : Waiting(f) => calltable[SlotOf(f)].retvals = NoValue

SInv ==
  /\ DInv
  /\ OneCallPerSlot
  /\ OpenCallsNamed
  /\ OpenCallsUnmarked
  /\ NoValueYet
  /\ ResultIntact

LEMMA InitSInv == Init => SInv
<1> SUFFICES ASSUME Init PROVE SInv
  OBVIOUS
<1>1. OpenCalls = {}
  BY DEF Init, OpenCalls, Level
<1> QED BY <1>1, InitDInv
        DEF SInv, OneCallPerSlot, OpenCallsNamed, OpenCallsUnmarked, NoValueYet,
            ResultIntact, Init

LEMMA OpenSlots ==
  ASSUME TypeOK, NEW f \in OpenCalls
  PROVE  /\ f[1] \in Goroutines /\ f[2] \in Level /\ f[2] <= depth[f[1]]
         /\ SlotOf(f) \in Slots
  BY DEF TypeOK, OpenCalls, SlotOf

(* The allocator's slot is not that of an open call. *)
LEMMA EnterFresh ==
  ASSUME SInv, NEW g \in Goroutines, Goroutines = {g}, Enter(g)
  PROVE  \E s \in Slots, n \in Level :
           /\ GetNextFnSpace(s)
           /\ n = depth[g] + 1
           /\ OpenCalls' = OpenCalls \cup {<<g, n>>}
           /\ SlotOf(<<g, n>>)' = s
           /\ \A f \in OpenCalls : SlotOf(f)' = SlotOf(f) /\ SlotOf(f) # s
<1>1. PICK s \in Slots, n \in Level :
         /\ GetNextFnSpace(s)
         /\ n = depth[g] + 1
         /\ OpenCalls' = OpenCalls \cup {<<g, n>>}
         /\ SlotOf(<<g, n>>)' = s
         /\ \A f \in OpenCalls : SlotOf(f)' = SlotOf(f)
  BY EnterEffect DEF SInv, DInv
<1>2. s \notin numlookup \/ calltable[s].gc
  BY <1>1, ChosenSlot DEF SInv, DInv, DefinitionsKept
<1>3. ASSUME NEW f \in OpenCalls PROVE SlotOf(f) # s
  <2>1. f[1] = g /\ pc[g] = "run"
    BY OpenSlots DEF SInv, DInv, Enter
  <2>2. SlotOf(f) \in numlookup
    BY <2>1 DEF SInv, OpenCallsNamed, Waiting
  <2>3. ~calltable[SlotOf(f)].gc
    BY DEF SInv, OpenCallsUnmarked
  <2> QED BY <1>2, <2>2, <2>3
<1> QED BY <1>1, <1>3

LEMMA EnterSInv ==
  ASSUME SInv, NEW g \in Goroutines, Goroutines = {g}, Enter(g) PROVE SInv'
<1> USE DEF SInv
<1>1. PICK s \in Slots, n \in Level :
         /\ GetNextFnSpace(s)
         /\ n = depth[g] + 1
         /\ OpenCalls' = OpenCalls \cup {<<g, n>>}
         /\ SlotOf(<<g, n>>)' = s
         /\ \A f \in OpenCalls : SlotOf(f)' = SlotOf(f) /\ SlotOf(f) # s
  BY EnterFresh
<1>2. /\ numlookup' = numlookup \cup {s}
      /\ calltable'[s] = FreshEntry
      /\ \A e \in Slots : e # s =>
           /\ calltable'[e].gc = calltable[e].gc
           /\ calltable'[e].retvals = calltable[e].retvals
  BY <1>1, AllocationEffect DEF DInv
<1>3. pc[g] = "run" /\ pc' = pc /\ depth' = [depth EXCEPT ![g] = n]
  BY <1>1 DEF Enter
<1>4. DInv'
  BY EnterDInv
<1>5. OneCallPerSlot'
  BY <1>1 DEF OneCallPerSlot
<1>6. \A f \in OpenCalls : f[1] = g /\ Waiting(f) /\ SlotOf(f) \in Slots
  BY OpenSlots, <1>3 DEF DInv, Waiting
<1>7. OpenCallsNamed'
  BY <1>1, <1>2, <1>6 DEF OpenCallsNamed
<1>8. ~FreshEntry.gc /\ FreshEntry.retvals = NoValue
  BY DEF FreshEntry
<1>9. OpenCallsUnmarked'
  BY <1>1, <1>2, <1>6, <1>8 DEF OpenCallsUnmarked
<1>10. NoValueYet'
  BY <1>1, <1>2, <1>6, <1>8 DEF NoValueYet
<1>11. ResultIntact'
  BY <1>3 DEF ResultIntact
<1> QED BY <1>4, <1>5, <1>7, <1>9, <1>10, <1>11

LEMMA PublishSInv ==
  ASSUME SInv, NEW g \in Goroutines, Goroutines = {g}, Publish(g) PROVE SInv'
<1> USE DEF SInv
<1>1. /\ Top(g) \in Slots
      /\ <<g, depth[g]>> \in OpenCalls
      /\ SlotOf(<<g, depth[g]>>) = Top(g)
  BY TopIsSlot DEF Publish, DInv
<1>2. PICK v \in {g, NoValue} :
         /\ produced' = [produced EXCEPT ![g] = v]
         /\ calltable' =
              [calltable EXCEPT
                 ![Top(g)].retvals = IF v = NoValue THEN @ ELSE v,
                 ![Top(g)].disposable = TRUE]
  BY DEF Publish
<1>3. Waiting(<<g, depth[g]>>)
  BY DEF Publish, Waiting
<1>4. calltable[Top(g)].retvals = NoValue
  BY <1>1, <1>3 DEF NoValueYet
<1>5. calltable' = [calltable EXCEPT ![Top(g)] =
                      [[@ EXCEPT !.retvals = v] EXCEPT !.disposable = TRUE]]
  BY <1>1, <1>2, <1>4 DEF DInv, TypeOK, Entry, Values
<1>6. /\ calltable'[Top(g)].retvals = v
      /\ \A e \in Slots :
           /\ calltable'[e].gc = calltable[e].gc
           /\ e # Top(g) => calltable'[e] = calltable[e]
  BY <1>1, <1>5 DEF DInv, TypeOK, Entry, Values
<1>7. /\ pc' = [pc EXCEPT ![g] = "published"] /\ pc[g] = "run"
      /\ UNCHANGED <<numlookup, depth, loc>>
  BY DEF Publish
<1>8. OpenCalls' = OpenCalls /\ \A f \in OpenCalls : SlotOf(f)' = SlotOf(f)
  BY <1>7 DEF OpenCalls, SlotOf
<1>9. DInv'
  BY PublishDInv
<1>10. OneCallPerSlot'
  BY <1>8 DEF OneCallPerSlot
<1>11. \A f \in OpenCalls : f[1] = g /\ Waiting(f) /\ SlotOf(f) \in Slots
  BY OpenSlots, <1>7 DEF DInv, Waiting
<1>12. OpenCallsNamed'
  BY <1>7, <1>8, <1>11 DEF OpenCallsNamed
<1>13. OpenCallsUnmarked'
  BY <1>6, <1>8, <1>11 DEF OpenCallsUnmarked
<1>14. NoValueYet'
  <2> SUFFICES ASSUME NEW f \in OpenCalls, Waiting(f)'
               PROVE  calltable'[SlotOf(f)].retvals = NoValue
    BY <1>8 DEF NoValueYet
  <2>1. f[1] = g /\ f[2] < depth[g]
    BY <1>7, <1>11 DEF Waiting, DInv, TypeOK
  <2>2. f # <<g, depth[g]>>
    BY <2>1, OpenSlots DEF DInv, TypeOK
  <2>3. SlotOf(f) # Top(g)
    BY <2>2, <1>1 DEF OneCallPerSlot
  <2> QED BY <2>3, <1>6, <1>11 DEF NoValueYet
<1>15. ResultIntact'
  BY <1>2, <1>6, <1>7 DEF ResultIntact, Top, DInv, TypeOK
<1> QED BY <1>9, <1>10, <1>12, <1>13, <1>14, <1>15

LEMMA UnnameSInv ==
  ASSUME SInv, NEW g \in Goroutines, Goroutines = {g}, Unname(g) PROVE SInv'
<1> USE DEF SInv
<1>1. /\ <<g, depth[g]>> \in OpenCalls
      /\ SlotOf(<<g, depth[g]>>) = Top(g)
  BY TopIsSlot DEF DInv, PcAgrees, Unname
<1>2. /\ pc' = [pc EXCEPT ![g] = "unnamed"] /\ pc[g] = "published"
      /\ numlookup' = numlookup \ {Top(g)}
      /\ UNCHANGED <<calltable, depth, loc, produced>>
  BY DEF Unname
<1>3. OpenCalls' = OpenCalls /\ \A f \in OpenCalls : SlotOf(f)' = SlotOf(f)
  BY <1>2 DEF OpenCalls, SlotOf
<1>4. DInv'
  BY UnnameDInv
<1>5. OneCallPerSlot' /\ OpenCallsUnmarked'
  BY <1>2, <1>3 DEF OneCallPerSlot, OpenCallsUnmarked
<1>6. \A f \in OpenCalls : f[1] = g
  BY OpenSlots DEF DInv
<1>7. pc'[g] = "unnamed"
  BY <1>2 DEF DInv, TypeOK
<1>8. OpenCallsNamed'
  <2> SUFFICES ASSUME NEW f \in OpenCalls, f[2] < depth[g]
               PROVE  SlotOf(f) \in numlookup'
    BY <1>2, <1>3, <1>6, <1>7 DEF OpenCallsNamed, Waiting
  <2>1. SlotOf(f) \in numlookup
    BY <1>6 DEF OpenCallsNamed, Waiting
  <2>2. f # <<g, depth[g]>>
    BY OpenSlots DEF DInv, TypeOK
  <2>3. SlotOf(f) # Top(g)
    BY <2>2, <1>1 DEF OneCallPerSlot
  <2> QED BY <2>1, <2>3, <1>2
<1>9. NoValueYet'
  BY <1>2, <1>3, <1>6, <1>7 DEF NoValueYet, Waiting
<1>10. ResultIntact'
  BY <1>2 DEF ResultIntact, Top
<1> QED BY <1>4, <1>5, <1>8, <1>9, <1>10

LEMMA TaskReadSInv ==
  ASSUME SInv, NEW g \in Goroutines, Goroutines = {g}, TaskRead(g) PROVE SInv'
<1> USE DEF SInv
<1>1. /\ pc' = [pc EXCEPT ![g] = "sending"] /\ pc[g] = "unnamed"
      /\ UNCHANGED <<numlookup, calltable, depth, loc, produced>>
  BY DEF TaskRead
<1>2. OpenCalls' = OpenCalls /\ \A f \in OpenCalls : SlotOf(f)' = SlotOf(f)
  BY <1>1 DEF OpenCalls, SlotOf
<1>3. DInv'
  BY TaskReadDInv
<1>4. \A f \in OpenCalls : f[1] = g
  BY OpenSlots DEF DInv
<1>5. pc'[g] = "sending"
  BY <1>1 DEF DInv, TypeOK
<1>6. OneCallPerSlot' /\ OpenCallsUnmarked'
  BY <1>1, <1>2 DEF OneCallPerSlot, OpenCallsUnmarked
<1>7. OpenCallsNamed' /\ NoValueYet' /\ ResultIntact'
  BY <1>1, <1>2, <1>4, <1>5 DEF OpenCallsNamed, NoValueYet, ResultIntact, Waiting, Top
<1> QED BY <1>3, <1>6, <1>7

LEMMA CollectSInv ==
  ASSUME SInv, NEW g \in Goroutines, Goroutines = {g}, Collect(g) \/ TaskMark(g)
  PROVE  /\ SInv'
         /\ OpenCalls' = OpenCalls \ {<<g, depth[g]>>}
         /\ \A f \in OpenCalls' : SlotOf(f)' = SlotOf(f)
<1> USE DEF SInv
<1>1. PICK shyness \in Nat : Mark(g, shyness)
  BY CallTableAssumption DEF Collect, TaskMark
<1>2. Return(g) /\ pc[g] \in {"unnamed", "sending"} /\ depth[g] > 0
  BY DEF Collect, TaskMark, DInv, PcAgrees
<1>3. /\ <<g, depth[g]>> \in OpenCalls
      /\ SlotOf(<<g, depth[g]>>) = Top(g)
  BY <1>2, TopIsSlot DEF DInv
<1>4. \A e \in Slots : e # Top(g) => calltable'[e] = calltable[e]
  BY <1>1, <1>2, MarkEffect DEF DInv
<1>5. /\ OpenCalls' = OpenCalls \ {<<g, depth[g]>>}
      /\ \A f \in OpenCalls' : SlotOf(f)' = SlotOf(f)
  BY <1>2, ReturnEffect DEF DInv
<1>6. ASSUME NEW f \in OpenCalls'
      PROVE  /\ f \in OpenCalls /\ f[1] = g /\ f[2] < depth[g]
             /\ SlotOf(f) \in Slots /\ SlotOf(f) # Top(g)
  <2>1. f \in OpenCalls /\ f # <<g, depth[g]>>
    BY <1>5
  <2>2. f \in Goroutines \X Level /\ f[2] <= depth[f[1]]
    BY <2>1 DEF OpenCalls
  <2>3. f[1] = g /\ f[2] # depth[g]
    BY <2>1, <2>2
  <2>4. f[2] < depth[g]
    BY <2>2, <2>3 DEF DInv, TypeOK, Level
  <2>5. SlotOf(f) # Top(g)
    BY <2>1, <1>3 DEF OneCallPerSlot
  <2> QED BY <2>1, <2>3, <2>4, <2>5, OpenSlots DEF DInv
<1>7. DInv'
  BY CollectDInv
<1>8. numlookup' = numlookup /\ pc'[g] = "run"
  BY <1>2 DEF Return, DInv, TypeOK
<1>9. OneCallPerSlot'
  BY <1>5, <1>6 DEF OneCallPerSlot
<1>10. OpenCallsNamed'
  BY <1>5, <1>6, <1>8 DEF OpenCallsNamed, Waiting
<1>11. OpenCallsUnmarked'
  BY <1>4, <1>5, <1>6 DEF OpenCallsUnmarked
<1>12. NoValueYet'
  BY <1>4, <1>5, <1>6 DEF NoValueYet, Waiting
<1>13. ResultIntact'
  BY <1>8 DEF ResultIntact
<1> QED BY <1>5, <1>7, <1>9, <1>10, <1>11, <1>12, <1>13

LEMMA StutterSInv == SInv /\ UNCHANGED vars => SInv'
  BY StutterDInv
  DEF SInv, vars, OneCallPerSlot, OpenCallsNamed, OpenCallsUnmarked, NoValueYet,
      ResultIntact, Waiting, OpenCalls, SlotOf, Top

LEMMA NextSInv ==
  ASSUME NEW g0, Goroutines = {g0}
  PROVE  SInv /\ [Next]_vars => SInv'
<1> SUFFICES ASSUME SInv, [Next]_vars PROVE SInv'
  OBVIOUS
<1>1. ASSUME NEW g \in Goroutines, Step(g) PROVE SInv'
  BY <1>1, EnterSInv, PublishSInv, UnnameSInv, CollectSInv, TaskReadSInv DEF Step
<1>2. CASE UNCHANGED vars
  BY <1>2, StutterSInv
<1> QED BY <1>1, <1>2 DEF Next

LEMMA SInvHolds ==
  ASSUME NEW g0, Goroutines = {g0}
  PROVE  Spec => []SInv
  BY InitSInv, NextSInv, PTL DEF Spec

(* In a program of one goroutine two open calls never share a slot.       *)
THEOREM SequentialSlots ==
  ASSUME NEW g0, Goroutines = {g0}
  PROVE  Spec => []OneCallPerSlot
<1>1. SInv => OneCallPerSlot
  BY DEF SInv
<1> QED BY SInvHolds, <1>1, PTL

(* In a program of one goroutine the value a call returns is the value    *)
(* its caller reads.                                                      *)
THEOREM SequentialResults ==
  ASSUME NEW g0, Goroutines = {g0}
  PROVE  Spec => []ResultIntact
<1>1. SInv => ResultIntact
  BY DEF SInv
<1> QED BY SInvHolds, <1>1, PTL

-----------------------------------------------------------------------------

Granted == {<<f, SlotOf(f)>> : f \in OpenCalls}

LEMMA InitRefines == Init => Pool!Init
<1> SUFFICES ASSUME Init PROVE Pool!Init
  OBVIOUS
<1>1. OpenCalls = {}
  BY DEF Init, OpenCalls, Level
<1> QED BY <1>1 DEF Pool!Init

(* Enter acquires, Collect and TaskMark give back, the other steps leave  *)
(* the pool alone.                                                        *)
LEMMA StepRefines ==
  ASSUME NEW g0, Goroutines = {g0}, SInv, [Next]_vars
  PROVE  [Pool!Next]_Granted
<1>1. ASSUME NEW g \in Goroutines, Enter(g) PROVE Pool!Next
  <2>1. PICK s \in Slots, n \in Level :
           /\ GetNextFnSpace(s)
           /\ n = depth[g] + 1
           /\ OpenCalls' = OpenCalls \cup {<<g, n>>}
           /\ SlotOf(<<g, n>>)' = s
           /\ \A f \in OpenCalls : SlotOf(f)' = SlotOf(f) /\ SlotOf(f) # s
    BY <1>1, EnterFresh
  <2>2. s \notin Definitions
    BY <2>1, ChosenSlot DEF SInv, DInv, DefinitionsKept
  <2>3. <<g, n>> \notin OpenCalls
    BY <2>1 DEF OpenCalls, SInv, DInv, TypeOK
  <2>4. \A x \in Granted : x[1] # <<g, n>> /\ x[2] # s
    BY <2>1, <2>3 DEF Granted
  <2>5. Granted' = Granted \cup {<<<<g, n>>, s>>}
    BY <2>1 DEF Granted
  <2>6. Pool!Acquire(<<g, n>>, s)
    BY <2>2, <2>4, <2>5 DEF Pool!Acquire, Granted
  <2>7. <<g, n>> \in Goroutines \X Level
    OBVIOUS
  <2> QED BY <2>6, <2>7 DEF Pool!Next
<1>2. ASSUME NEW g \in Goroutines, Collect(g) \/ TaskMark(g) PROVE Pool!Next
  <2> DEFINE top == <<g, depth[g]>>
  <2>1. /\ OpenCalls' = OpenCalls \ {top}
        /\ \A f \in OpenCalls' : SlotOf(f)' = SlotOf(f)
    BY <1>2, CollectSInv
  <2>2. top \in OpenCalls /\ SlotOf(top) \in Slots
    BY <1>2, TopIsSlot DEF SInv, DInv, PcAgrees, Collect, TaskMark
  <2>3. Granted' = Granted \ {<<top, SlotOf(top)>>}
    <3> HIDE DEF top
    <3> QED BY <2>1, <2>2 DEF Granted
  <2>4. <<top, SlotOf(top)>> \in Granted
    BY <2>2 DEF Granted
  <2>5. top \in Goroutines \X Level
    BY <2>2 DEF OpenCalls
  <2> HIDE DEF top
  <2>6. PICK c \in Goroutines \X Level, s \in Slots :
           <<c, s>> \in Granted /\ Granted' = Granted \ {<<c, s>>}
    BY <2>2, <2>3, <2>4, <2>5
  <2>7. Pool!GiveBack(c, s)
    BY <2>6 DEF Pool!GiveBack, Granted
  <2> QED BY <2>7 DEF Pool!Next
<1>3. ASSUME NEW g \in Goroutines, Publish(g) \/ Unname(g) \/ TaskRead(g)
      PROVE  Granted' = Granted
  BY <1>3 DEF Publish, Unname, TaskRead, Granted, OpenCalls, SlotOf
<1>4. CASE UNCHANGED vars
  BY <1>4 DEF vars, Granted, OpenCalls, SlotOf
<1> QED BY <1>1, <1>2, <1>3, <1>4 DEF Next, Step

(* In a program of one goroutine the call table implements a pool of      *)
(* slots: a slot is granted to one call at a time, and never one of a     *)
(* definition.                                                            *)
THEOREM SequentialRefinement ==
  ASSUME NEW g0, Goroutines = {g0}
  PROVE  Spec => PoolSpec
<1>1. Spec => []SInv
  BY SInvHolds
<1>2. SInv /\ [Next]_vars => [Pool!Next]_Granted
  BY StepRefines
<1> QED BY <1>1, <1>2, InitRefines, PTL DEF Spec, PoolSpec, Pool!Spec, Granted
=============================================================================

------------------------------ MODULE SlotPool ------------------------------
(***************************************************************************)
(* What the call table promises to its users: a call is granted one slot,  *)
(* a slot is granted to one call at a time, the slots of definitions are   *)
(* never granted, and a slot that was given back may be granted again.     *)
(***************************************************************************)
CONSTANTS Calls, Slots, Definitions

VARIABLE granted   \* pairs of a call that has not been collected and its slot

Init == granted = {}

Acquire(c, s) ==
  /\ s \in Slots \ Definitions
  /\ \A x \in granted : x[1] # c /\ x[2] # s
  /\ granted' = granted \cup {<<c, s>>}

GiveBack(c, s) ==
  /\ <<c, s>> \in granted
  /\ granted' = granted \ {<<c, s>>}

Next == \E c \in Calls, s \in Slots : Acquire(c, s) \/ GiveBack(c, s)

Spec == Init /\ [][Next]_granted
=============================================================================

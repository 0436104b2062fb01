----------------------------- MODULE NameChain -----------------------------
(***************************************************************************)
(* What the USE statement promises: a sequence of module names in which    *)
(* unqualified names are looked up, and a stack of such sequences.  Every  *)
(* change is one step, a pushed sequence comes back as it was, and a       *)
(* lookup goes through the names as they are at one moment.                *)
(***************************************************************************)
EXTENDS Naturals, Sequences, SequencesExt

CONSTANTS Goroutines, Names

VARIABLES chain,  \* the names, the first one wins
          stack,  \* the pushed sequences, the last one first
          found   \* the names that each goroutine's last lookup went through

chains == <<chain, stack, found>>

Init ==
  /\ chain = <<>>
  /\ stack = <<>>
  /\ found = [g \in Goroutines |-> <<>>]

Add(n) ==
  /\ ~Contains(chain, n)
  /\ chain' = Append(chain, n)
  /\ UNCHANGED <<stack, found>>

TakeOut(n) ==
  /\ Contains(chain, n)
  /\ chain' = RemoveFirst(chain, n)
  /\ UNCHANGED <<stack, found>>

PutFirst(n) ==
  /\ chain' = <<n>> \o chain
  /\ UNCHANGED <<stack, found>>

Reset ==
  /\ chain' = <<>>
  /\ UNCHANGED <<stack, found>>

Push ==
  /\ stack' = <<chain>> \o stack
  /\ UNCHANGED <<chain, found>>

Pop ==
  /\ stack # <<>>
  /\ chain' = Head(stack)
  /\ stack' = Tail(stack)
  /\ UNCHANGED found

Look(g) ==
  /\ found' = [found EXCEPT ![g] = chain]
  /\ UNCHANGED <<chain, stack>>

Next ==
  \/ \E n \in Names : Add(n) \/ TakeOut(n) \/ PutFirst(n)
  \/ Reset \/ Push \/ Pop
  \/ \E g \in Goroutines : Look(g)

Spec == Init /\ [][Next]_chains
=============================================================================

------------------------------ MODULE RWLocks ------------------------------
(***************************************************************************)
(* Go's sync.RWMutex as the interpreter uses it.  One writer at a time     *)
(* announces itself and then waits for the readers to leave; readers that  *)
(* come after the announcement wait for the writer, also those that are    *)
(* readers already, and are let in together when it leaves.                *)
(***************************************************************************)
EXTENDS Naturals

CONSTANTS Goroutines, None

Free == [readers |-> [g \in Goroutines |-> 0], writer |-> None, waiting |-> {}]

AskToRead(l, g) == IF l.writer = None THEN [l EXCEPT !.readers[g] = @ + 1]
                                      ELSE [l EXCEPT !.waiting = @ \union {g}]
StopReading(l, g) == [l EXCEPT !.readers[g] = @ - 1]

Announce(l, g) == [l EXCEPT !.writer = g]
NoReaders(l)   == \A g \in Goroutines : l.readers[g] = 0
StopWriting(l) ==
  [readers |-> [g \in Goroutines |-> l.readers[g] + IF g \in l.waiting THEN 1 ELSE 0],
   writer |-> None, waiting |-> {}]
=============================================================================

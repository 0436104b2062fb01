------------------------------ MODULE SetGlob ------------------------------
(***************************************************************************)
(* The SETGLOB statement (actor.go, case C_SetGlob) as goroutines run it:  *)
(* a global nesting counter has_global_lock decides who takes sglock.      *)
(*                                                                         *)
(* Evaluating the right-hand side may call a function that itself runs     *)
(* SETGLOB, so one goroutine may have several statements open; they are    *)
(* numbered from 1, the outermost.  The window-size goroutine of main.go   *)
(* is the only other user of sglock.                                       *)
(***************************************************************************)
EXTENDS Naturals, FiniteSets

CONSTANTS
  Goroutines,   \* the goroutines that run script statements
  Winch,        \* the goroutine that answers SIGWINCH
  Nobody,       \* value of sglock when it is free
  MaxNest       \* bound on SETGLOB statements nested in one goroutine

ASSUME SetGlobAssumption ==
  /\ IsFiniteSet(Goroutines)
  /\ Winch \notin Goroutines
  /\ Nobody \notin Goroutines \cup {Winch}
  /\ MaxNest \in Nat \ {0}

VARIABLES
  depth,            \* number of SETGLOB statements each goroutine has open
  acquired,         \* the levels at which its local flag "acquired" is true
  pc,               \* where its innermost open statement is
  has_global_lock,  \* main.go: nesting depth of sglock, 0 = unlocked
  sglock            \* holder of the mutex

vars == <<depth, acquired, pc, has_global_lock, sglock>>

Level == 1..MaxNest
OpenFrames == {f \in Goroutines \X Level : f[2] <= depth[f[1]]}

Init ==
  /\ depth = [g \in Goroutines |-> 0]
  /\ acquired = [g \in Goroutines |-> {}]
  /\ pc = [g \in Goroutines |-> "idle"]
  /\ has_global_lock = 0
  /\ sglock = Nobody

(* Variants of the statement with a plausible slip each, for the runs'     *)
(* mutation checks: the mutex taken at every level; a test of the counter *)
(* read back after another goroutine's increment.                         *)
BeginAlwaysLocks(g) ==
  /\ pc[g] \in {"idle", "eval"}
  /\ depth[g] < MaxNest
  /\ has_global_lock' = has_global_lock + 1
  /\ depth' = [depth EXCEPT ![g] = @ + 1]
  /\ acquired' = [acquired EXCEPT ![g] = @ \cup {depth[g] + 1}]
  /\ pc' = [pc EXCEPT ![g] = "lock"]
  /\ UNCHANGED sglock

BeginStaleCounter(g) ==
  /\ pc[g] \in {"idle", "eval"}
  /\ depth[g] < MaxNest
  /\ has_global_lock' = has_global_lock + 1
  /\ depth' = [depth EXCEPT ![g] = @ + 1]
  /\ acquired' = [acquired EXCEPT ![g] = @ \cup {depth[g] + 1}]
  /\ pc' = [pc EXCEPT ![g] = IF has_global_lock = 0 THEN "lock" ELSE "eval"]
  /\ UNCHANGED sglock

(* Reaching the statement: from ordinary code, or from a function called  *)
(* by the right-hand side of an open SETGLOB.  The counter is incremented *)
(* atomically and its new value kept in the local "depth".                *)
Begin(g) ==
  /\ pc[g] \in {"idle", "eval"}
  /\ depth[g] < MaxNest
  /\ has_global_lock' = has_global_lock + 1
  /\ depth' = [depth EXCEPT ![g] = @ + 1]
  /\ \/ /\ has_global_lock = 0
        /\ acquired' = [acquired EXCEPT ![g] = @ \cup {depth[g] + 1}]
        /\ pc' = [pc EXCEPT ![g] = "lock"]
     \/ /\ has_global_lock # 0
        /\ pc' = [pc EXCEPT ![g] = "eval"]
        /\ UNCHANGED acquired
  /\ UNCHANGED sglock

(* sglock.Lock(), which blocks while another holds it. *)
Lock(g) ==
  /\ pc[g] = "lock"
  /\ sglock = Nobody
  /\ sglock' = g
  /\ pc' = [pc EXCEPT ![g] = "eval"]
  /\ UNCHANGED <<depth, acquired, has_global_lock>>

ReleaseForgets(g) ==
  /\ pc[g] = "eval"
  /\ pc' = [pc EXCEPT ![g] = "leave"]
  /\ UNCHANGED <<depth, acquired, has_global_lock, sglock>>

(* wrappedEval returned, with or without an evaluation error: both paths  *)
(* unlock when acquired.                                                  *)
Release(g) ==
  /\ pc[g] = "eval"
  /\ \/ /\ depth[g] \in acquired[g]
        /\ sglock' = Nobody
     \/ /\ depth[g] \notin acquired[g]
        /\ UNCHANGED sglock
  /\ pc' = [pc EXCEPT ![g] = "leave"]
  /\ UNCHANGED <<depth, acquired, has_global_lock>>

LeaveNoDecrement(g) ==
  /\ pc[g] = "leave"
  /\ depth' = [depth EXCEPT ![g] = @ - 1]
  /\ acquired' = [acquired EXCEPT ![g] = @ \ {depth[g]}]
  /\ pc' = [pc EXCEPT ![g] = IF depth[g] = 1 THEN "idle" ELSE "eval"]
  /\ UNCHANGED <<has_global_lock, sglock>>

LeaveTwice(g) ==
  /\ pc[g] = "leave"
  /\ has_global_lock' = has_global_lock - 2
  /\ depth' = [depth EXCEPT ![g] = @ - 1]
  /\ acquired' = [acquired EXCEPT ![g] = @ \ {depth[g]}]
  /\ pc' = [pc EXCEPT ![g] = IF depth[g] = 1 THEN "idle" ELSE "eval"]
  /\ UNCHANGED sglock

(* The atomic decrement that ends the statement; an enclosing SETGLOB is  *)
(* left evaluating.                                                       *)
Leave(g) ==
  /\ pc[g] = "leave"
  /\ has_global_lock' = has_global_lock - 1
  /\ depth' = [depth EXCEPT ![g] = @ - 1]
  /\ acquired' = [acquired EXCEPT ![g] = @ \ {depth[g]}]
  /\ pc' = [pc EXCEPT ![g] = IF depth[g] = 1 THEN "idle" ELSE "eval"]
  /\ UNCHANGED sglock

(* The size of the terminal is read under sglock. *)
WinchLock ==
  /\ sglock = Nobody
  /\ sglock' = Winch
  /\ UNCHANGED <<depth, acquired, pc, has_global_lock>>

WinchUnlock ==
  /\ sglock = Winch
  /\ sglock' = Nobody
  /\ UNCHANGED <<depth, acquired, pc, has_global_lock>>

Step(g) == Lock(g) \/ Release(g) \/ Leave(g)

Next ==
  \/ \E g \in Goroutines : Begin(g) \/ Step(g)
  \/ WinchLock
  \/ WinchUnlock

(* The scheduler runs every goroutine that can run; nothing forces a      *)
(* script to execute another SETGLOB.  Taking the mutex is strongly fair: *)
(* sync.RWMutex hands the lock to a waiter that has been starved.         *)
Fairness ==
  /\ \A g \in Goroutines :
       SF_vars(Lock(g)) /\ WF_vars(Release(g)) /\ WF_vars(Leave(g))
  /\ WF_vars(WinchUnlock)

Spec == Init /\ [][Next]_vars /\ Fairness

-----------------------------------------------------------------------------
(* Types, and the place of every program counter. *)
TypeOK ==
  /\ depth \in [Goroutines -> 0..MaxNest]
  /\ acquired \in [Goroutines -> SUBSET Level]
  /\ pc \in [Goroutines -> {"idle", "lock", "eval", "leave"}]
  /\ has_global_lock \in Nat
  /\ sglock \in Goroutines \cup {Winch, Nobody}

(* has_global_lock counts exactly the SETGLOB statements that are open:   *)
(* no path through the statement forgets, or repeats, its decrement.      *)
DepthMatchesOpen == has_global_lock = Cardinality(OpenFrames)

(* A goroutine never waits for sglock while it holds it: a function       *)
(* called from a right-hand side may run SETGLOB without deadlock.        *)
NoSelfDeadlock == \A g \in Goroutines : pc[g] = "lock" => sglock # g

(* A statement that is going to unlock sglock holds it: the mutex is      *)
(* never unlocked by a goroutine that does not own it, which Go answers   *)
(* with a fatal error.                                                    *)
AcquirerHolds ==
  \A g \in Goroutines : \A i \in acquired[g] :
    (i < depth[g] \/ pc[g] = "eval") => sglock = g

(* Every goroutine waiting for sglock eventually gets it.                 *)
WaitersProceed == \A g \in Goroutines : pc[g] = "lock" ~> pc[g] # "lock"
=============================================================================

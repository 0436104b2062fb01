------------------------------ MODULE UseChain ------------------------------
(***************************************************************************)
(* The USE chain (use_chain.go) and the two locks around it.  The chain is *)
(* a Go slice, and pushing it keeps a slice of the same array: an append   *)
(* may write into an array that the stack still has a slice of.            *)
(*                                                                         *)
(* A goroutine makes calls; each is a path of locks, unlocks and actions,  *)
(* taken one step at a time.  Lookups of enums hold globlock around the    *)
(* lookup in the chain, which asks for globlock a second time.             *)
(***************************************************************************)
EXTENDS Naturals, Sequences, SequencesExt, FiniteSets

CONSTANTS
  Goroutines, Names,
  None,   \* no goroutine, and what the unused room of an array holds
  Plans   \* what the goroutines may call, each one a sequence of calls

ASSUME UseChainAssumption ==
  /\ None \notin Goroutines \cup Names
  /\ Plans \subseteq [Goroutines -> Seq([op : {"add", "reset", "push", "pop", "remove", "top",
                                              "match", "struct", "enum", "define"},
                                        name : Names])]

VARIABLES calls,   \* the calls of each goroutine: an operation and a name
          made,    \* how many of them it made
          todo,    \* the rest of the path of its call
          seen,    \* the names its lookup went through so far
          heap,    \* the arrays of the slices
          uchain,  \* the chain: an array and a length
          ustack,  \* the pushed slices
          lock,    \* chainlock and globlock
          found,   \* the names that its last lookup went through
          crossed  \* whether the chain was changed between the halves of a uc_top

vars == <<calls, made, todo, seen, heap, uchain, ustack, lock, found, crossed>>

RW == INSTANCE RWLocks

-----------------------------------------------------------------------------
(* Paths *)

Read(l)    == [act |-> "rlock", on |-> l]
Unread(l)  == [act |-> "runlock", on |-> l]
Write(l)   == [act |-> "lock", on |-> l]
Unwrite(l) == [act |-> "unlock", on |-> l]
Act(a)     == [act |-> a, on |-> "none"]

Changing(a) == <<Write("chain"), Act(a), Unwrite("chain")>>
Looking     == <<Read("chain"), Act("look"), Unread("chain")>>

(* uc_match_enum and uc_match_struct: the deferred unlocks run last first. *)
LookingGlobal == <<Read("chain"), Read("glob"), Act("look"), Unread("chain"), Unread("glob")>>

(* enum_names, enum_all, and the member of an enum in accessFieldOrFunc. *)
EnumPath == <<Read("glob")>> \o LookingGlobal \o <<Unread("glob")>>

(* A mutant of Path: a lookup of structs leaves globlock to its caller.    *)
PathOpen(o) ==
  CASE o \in {"add", "reset", "push", "pop", "remove"} -> Changing(o)
    [] o = "top"    -> Changing("remove") \o Changing("front")
    [] o = "match"  -> Looking
    [] o = "struct" -> SubSeq(LookingGlobal, 1, 4)
    [] o = "enum"   -> EnumPath
    [] o = "define" -> <<Write("glob"), Unwrite("glob")>>

(* uc_top is uc_remove and then a critical section of its own.  ENUM, the  *)
(* registration of exceptions and ASYNC write under globlock.              *)
Path(o) ==
  CASE o \in {"add", "reset", "push", "pop", "remove"} -> Changing(o)
    [] o = "top"    -> Changing("remove") \o Changing("front")
    [] o = "match"  -> Looking
    [] o = "struct" -> LookingGlobal
    [] o = "enum"   -> EnumPath
    [] o = "define" -> <<Write("glob"), Unwrite("glob")>>

Init ==
  /\ calls \in Plans
  /\ made = [g \in Goroutines |-> 0]
  /\ todo = [g \in Goroutines |-> <<>>]
  /\ seen = [g \in Goroutines |-> <<>>]
  /\ heap = <<<<>>>>
  /\ uchain = [array |-> 1, len |-> 0]
  /\ ustack = <<>>
  /\ lock = [l \in {"chain", "glob"} |-> RW!Free]
  /\ found = [g \in Goroutines |-> <<>>]
  /\ crossed = FALSE

Call(g) ==
  /\ todo[g] = <<>>
  /\ made[g] < Len(calls[g])
  /\ made' = [made EXCEPT ![g] = @ + 1]
  /\ todo' = [todo EXCEPT ![g] = Path(calls[g][made'[g]].op)]
  /\ UNCHANGED <<calls, seen, heap, uchain, ustack, lock, found, crossed>>

-----------------------------------------------------------------------------
(* Locks *)

At(g, act) == todo[g] # <<>> /\ Head(todo[g]).act = act
The(g)     == lock[Head(todo[g]).on]
op(g)      == calls[g][made[g]].op
name(g)    == calls[g][made[g]].name
Go(g)      == todo' = [todo EXCEPT ![g] = Tail(@)]

OnLock(g, l) ==
  /\ lock' = [lock EXCEPT ![Head(todo[g]).on] = l]
  /\ UNCHANGED <<calls, made, seen, heap, uchain, ustack, found, crossed>>

RLock(g) ==
  /\ At(g, "rlock")
  /\ g \notin The(g).waiting
  /\ OnLock(g, RW!AskToRead(The(g), g))
  /\ todo' = [todo EXCEPT ![g] =
       IF The(g).writer = None THEN Tail(@) ELSE <<Act("admitted")>> \o @]

(* A writer that left made it a reader. *)
Admitted(g) ==
  /\ At(g, "admitted")
  /\ g \notin lock[todo[g][2].on].waiting
  /\ todo' = [todo EXCEPT ![g] = Tail(Tail(@))]
  /\ UNCHANGED <<calls, made, seen, heap, uchain, ustack, lock, found, crossed>>

RUnlock(g) ==
  /\ At(g, "runlock")
  /\ OnLock(g, RW!StopReading(The(g), g))
  /\ Go(g)

Announce(g) ==
  /\ At(g, "lock")
  /\ The(g).writer = None
  /\ OnLock(g, RW!Announce(The(g), g))
  /\ UNCHANGED todo

Lock(g) ==
  /\ At(g, "lock")
  /\ The(g).writer = g
  /\ RW!NoReaders(The(g))
  /\ Go(g)
  /\ UNCHANGED <<calls, made, seen, heap, uchain, ustack, lock, found, crossed>>

Unlock(g) ==
  /\ At(g, "unlock")
  /\ OnLock(g, RW!StopWriting(The(g)))
  /\ Go(g)

-----------------------------------------------------------------------------
(* The chain *)

Contents(slice) == SubSeq(heap[slice.array], 1, slice.len)
Chain == Contents(uchain)

(* Another goroutine has removed its name and not yet put it in front.     *)
BetweenHalves(g) == \E h \in Goroutines \ {g} :
  \E i \in DOMAIN todo[h] :
    todo[h][i] = Act("front") /\ ~\E j \in DOMAIN todo[h] : todo[h][j] = Act("remove")

Changed(g, newheap, slice) ==
  /\ heap' = newheap
  /\ uchain' = slice
  /\ crossed' = (crossed \/ BetweenHalves(g))
  /\ Go(g)
  /\ UNCHANGED <<calls, made, seen, lock, found>>

(* A new array with these names, and the slice of all of it. *)
Made(g, names) ==
  Changed(g, Append(heap, names), [array |-> Len(heap) + 1, len |-> Len(names)])

Larger(names) == names \o [i \in 1..(IF names = <<>> THEN 1 ELSE Len(names)) |-> None]

(* Go's append: in the array if it has room, else in one of twice the size. *)
Appended(g, n) ==
  LET len  == uchain.len
      room == len < Len(heap[uchain.array])
      to   == IF room THEN uchain.array ELSE Len(heap) + 1
      h    == IF room THEN heap ELSE Append(heap, Larger(Chain))
  IN  Changed(g, [h EXCEPT ![to][len + 1] = n], [array |-> to, len |-> len + 1])

Nothing(g) == Go(g) /\ UNCHANGED <<calls, made, seen, heap, uchain, ustack, lock, found, crossed>>

(* A mutant of uc_add: the name may be there already.                      *)
uc_addBlind(g) ==
  /\ At(g, "add")
  /\ Appended(g, name(g)) /\ UNCHANGED ustack

uc_add(g) ==
  /\ At(g, "add")
  /\ IF Contains(Chain, name(g)) THEN Nothing(g)
     ELSE Appended(g, name(g)) /\ UNCHANGED ustack

(* A mutant of uc_remove: in the array itself.                             *)
uc_removeInPlace(g) ==
  /\ At(g, "remove")
  /\ IF ~Contains(Chain, name(g)) THEN Nothing(g)
     ELSE /\ Changed(g, [heap EXCEPT ![uchain.array] = RemoveFirst(Chain, name(g)) \o <<None>>],
                     [uchain EXCEPT !.len = @ - 1])
          /\ UNCHANGED ustack

uc_remove(g) ==
  /\ At(g, "remove")
  /\ IF ~Contains(Chain, name(g)) THEN Nothing(g)
     ELSE Made(g, RemoveFirst(Chain, name(g))) /\ UNCHANGED ustack

uc_front(g) ==
  /\ At(g, "front")
  /\ Made(g, <<name(g)>> \o Chain)
  /\ UNCHANGED ustack

uc_reset(g) ==
  /\ At(g, "reset")
  /\ Made(g, <<>>)
  /\ UNCHANGED ustack

ucs_push(g) ==
  /\ At(g, "push")
  /\ ustack' = <<uchain>> \o ustack
  /\ Go(g)
  /\ UNCHANGED <<calls, made, seen, heap, uchain, lock, found, crossed>>

ucs_pop(g) ==
  /\ At(g, "pop")
  /\ IF ustack = <<>> THEN Nothing(g)
     ELSE Changed(g, heap, Head(ustack)) /\ ustack' = Tail(ustack)

(* The lookups (uc_match_...) read the chain name by name. *)
uc_match(g) ==
  /\ At(g, "look")
  /\ IF Len(seen[g]) < uchain.len
     THEN /\ seen' = [seen EXCEPT ![g] = Append(@, heap[uchain.array][Len(@) + 1])]
          /\ UNCHANGED <<todo, found>>
     ELSE /\ seen' = [seen EXCEPT ![g] = <<>>]
          /\ found' = [found EXCEPT ![g] = seen[g]]
          /\ Go(g)
  /\ UNCHANGED <<calls, made, heap, uchain, ustack, lock, crossed>>

Step(g) ==
  \/ Call(g)
  \/ RLock(g) \/ Admitted(g) \/ RUnlock(g) \/ Announce(g) \/ Lock(g) \/ Unlock(g)
  \/ uc_add(g) \/ uc_remove(g) \/ uc_front(g) \/ uc_reset(g) \/ ucs_push(g) \/ ucs_pop(g)
  \/ uc_match(g)

Next == \E g \in Goroutines : Step(g)

Fairness == \A g \in Goroutines : WF_vars(Step(g))

Spec == Init /\ [][Next]_vars /\ Fairness

-----------------------------------------------------------------------------
(* Slices of shared arrays do for the chain and its stack what sequences   *)
(* would: nobody writes what a pushed slice still shows, and no lookup     *)
(* sees names of two chains.                                               *)
S == INSTANCE NameChain WITH
       chain <- Chain,
       stack <- [i \in DOMAIN ustack |-> Contents(ustack[i])]

ChainSpec == S!Spec

(* A name is in the chain twice only if another goroutine changed the      *)
(* chain between the halves of a uc_top.                                   *)
Twice(s) == \E i, j \in DOMAIN s : i # j /\ s[i] = s[j]

TwiceOnlyCrossed == Twice(Chain) => crossed

(* The program can hang on these locks, and only in this way: a lookup of  *)
(* an enum holds globlock for reading while it waits, for globlock again   *)
(* or for the chain.                                                       *)
Busy(g) == todo[g] # <<>>

Waits(g) ==
  \/ At(g, "admitted") /\ g \in lock[todo[g][2].on].waiting
  \/ At(g, "lock") /\ The(g).writer # None
     /\ ~(The(g).writer = g /\ RW!NoReaders(The(g)))

Stuck == /\ \E g \in Goroutines : Busy(g)
         /\ \A g \in Goroutines : IF Busy(g) THEN Waits(g) ELSE made[g] = Len(calls[g])

HoldsInEnum(g) == Busy(g) /\ op(g) = "enum" /\ lock["glob"].readers[g] > 0

StuckOnlyInEnum == Stuck => \E g \in Goroutines : HoldsInEnum(g) /\ Waits(g)

(* In a program that looks no enum up, every call returns. *)
Plain == \A g \in Goroutines : \A i \in DOMAIN calls[g] : calls[g][i].op # "enum"

CallsReturn == \A g \in Goroutines : (Plain /\ Busy(g)) ~> ~Busy(g)
=============================================================================

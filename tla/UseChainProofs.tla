--------------------------- MODULE UseChainProofs ---------------------------
(***************************************************************************)
(* The USE chain for any goroutines, names and plans of calls: what the    *)
(* two locks exclude, that the shared arrays do for the chain and its      *)
(* stack what sequences would, when a name is in the chain twice, and in   *)
(* which calls the program can hang.                                       *)
(***************************************************************************)
EXTENDS UseChain, SequenceTheorems, WellFoundedInduction, TLAPS

-----------------------------------------------------------------------------
(* Paths, place by place *)

Edits == {"add", "reset", "push", "pop", "remove"}
Ops == Edits \cup {"top", "match", "struct", "enum", "define"}
Locks == {"chain", "glob"}

(* The steps of a path that ask for a lock, leave it, or work under it. *)
Place == [act : {"rlock", "runlock", "lock", "unlock"}, on : Locks]
         \cup [act : Edits \cup {"front", "look"}, on : {"none"}]

(* How often a call holds a lock for reading before step k of its path.   *)
Reads(o, k, l) ==
  CASE o = "match"  /\ l = "chain" /\ k \in 2..3 -> 1
    [] o = "struct" /\ l = "chain" /\ k \in 2..4 -> 1
    [] o = "struct" /\ l = "glob"  /\ k \in 3..5 -> 1
    [] o = "enum"   /\ l = "chain" /\ k \in 3..5 -> 1
    [] o = "enum"   /\ l = "glob"  /\ k \in {2, 3, 7} -> 1
    [] o = "enum"   /\ l = "glob"  /\ k \in 4..6 -> 2
    [] OTHER -> 0

(* Whether it holds it for writing. *)
Writes(o, k, l) ==
  \/ l = "chain" /\ o \in Edits /\ k \in 2..3
  \/ l = "chain" /\ o = "top" /\ k \in {2, 3, 5, 6}
  \/ l = "glob" /\ o = "define" /\ k = 2

LEMMA ChangingIs ==
  ASSUME NEW a
  PROVE  /\ Len(Changing(a)) = 3 /\ Changing(a)[1] = Write("chain")
         /\ Changing(a)[2] = Act(a) /\ Changing(a)[3] = Unwrite("chain")
BY DEF Changing

LEMMA PathLooking ==
  /\ Len(LookingGlobal) = 5 /\ Len(Looking) = 3
  /\ LookingGlobal[1] = Read("chain") /\ LookingGlobal[2] = Read("glob") /\ LookingGlobal[3] = Act("look")
  /\ LookingGlobal[4] = Unread("chain") /\ LookingGlobal[5] = Unread("glob")
BY DEF Looking, LookingGlobal

LEMMA ConcatAt ==
  ASSUME NEW T, NEW s \in Seq(T), NEW t \in Seq(T)
  PROVE  /\ s \o t \in Seq(T) /\ Len(s \o t) = Len(s) + Len(t)
         /\ \A i \in 1..Len(s) : (s \o t)[i] = s[i]
         /\ \A i \in 1..Len(t) : (s \o t)[Len(s) + i] = t[i]
<1>1. /\ Len(s \o t) = Len(s) + Len(t) /\ s \o t \in Seq(T) /\ Len(s) \in Nat /\ Len(t) \in Nat
      /\ \A i \in 1..(Len(s) + Len(t)) : (s \o t)[i] = IF i <= Len(s) THEN s[i] ELSE t[i - Len(s)]
  BY ConcatProperties, LenProperties
<1>2. ASSUME NEW i \in 1..Len(s) PROVE (s \o t)[i] = s[i]
  BY <1>1
<1>3. ASSUME NEW i \in 1..Len(t) PROVE (s \o t)[Len(s) + i] = t[i]
  <2>1. Len(s) + i \in 1..(Len(s) + Len(t)) /\ Len(s) + i - Len(s) = i /\ ~(Len(s) + i <= Len(s))
    BY <1>1
  <2> QED BY <1>1, <2>1
<1> QED BY <1>1, <1>2, <1>3

LEMMA TopPath ==
  /\ Path("top") \in Seq(Place) /\ Len(Path("top")) = 6
  /\ Path("top")[1] = Write("chain") /\ Path("top")[2] = Act("remove") /\ Path("top")[3] = Unwrite("chain")
  /\ Path("top")[4] = Write("chain") /\ Path("top")[5] = Act("front") /\ Path("top")[6] = Unwrite("chain")
<1> DEFINE s == Changing("remove")  t == Changing("front")
<1>1. s \in Seq(Place) /\ t \in Seq(Place)
  BY DEF Changing, Place, Write, Unwrite, Act, Edits, Locks
<1>2. Path("top") = s \o t
  BY DEF Path
<1>3. /\ Len(s) = 3 /\ Len(t) = 3
      /\ s[1] = Write("chain") /\ s[2] = Act("remove") /\ s[3] = Unwrite("chain")
      /\ t[1] = Write("chain") /\ t[2] = Act("front") /\ t[3] = Unwrite("chain")
  BY ChangingIs
<1> HIDE DEF s, t
<1>4. /\ s \o t \in Seq(Place) /\ Len(s \o t) = Len(s) + Len(t)
      /\ \A i \in 1..Len(s) : (s \o t)[i] = s[i]
      /\ \A i \in 1..Len(t) : (s \o t)[Len(s) + i] = t[i]
  BY <1>1, ConcatAt
<1> DEFINE st == s \o t
<1>5. /\ st \in Seq(Place) /\ Len(st) = 6
      /\ st[1] = s[1] /\ st[2] = s[2] /\ st[3] = s[3]
      /\ st[4] = t[1] /\ st[5] = t[2] /\ st[6] = t[3]
  <2> HIDE DEF st
  <2>1. /\ st \in Seq(Place) /\ Len(st) = Len(s) + Len(t)
        /\ \A i \in 1..Len(s) : st[i] = s[i]
        /\ \A i \in 1..Len(t) : st[Len(s) + i] = t[i]
    BY <1>4 DEF st
  <2> QED BY <1>3, <2>1
<1> QED BY <1>2, <1>3, <1>5

LEMMA EnumIs ==
  /\ EnumPath \in Seq(Place) /\ Len(EnumPath) = 7
  /\ EnumPath[1] = Read("glob") /\ EnumPath[2] = Read("chain") /\ EnumPath[3] = Read("glob")
  /\ EnumPath[4] = Act("look") /\ EnumPath[5] = Unread("chain") /\ EnumPath[6] = Unread("glob")
  /\ EnumPath[7] = Unread("glob")
<1> DEFINE s == <<Read("glob")>>  t == <<Unread("glob")>>  m == LookingGlobal
<1>1. /\ s \in Seq(Place) /\ t \in Seq(Place) /\ m \in Seq(Place)
      /\ Len(s) = 1 /\ Len(t) = 1 /\ s[1] = Read("glob") /\ t[1] = Unread("glob")
  BY DEF LookingGlobal, Place, Read, Unread, Act, Locks
<1>2. EnumPath = s \o m \o t
  BY DEF EnumPath
<1> HIDE DEF s, t, m
<1> DEFINE sm == s \o m  smt == sm \o t
<1>3. /\ sm \in Seq(Place) /\ Len(sm) = Len(s) + Len(m)
      /\ \A i \in 1..Len(s) : sm[i] = s[i]
      /\ \A i \in 1..Len(m) : sm[Len(s) + i] = m[i]
  <2>1. s \in Seq(Place) /\ m \in Seq(Place)
    BY <1>1
  <2> QED BY <2>1, ConcatAt
<1>4. /\ smt \in Seq(Place) /\ Len(smt) = Len(sm) + Len(t)
      /\ \A i \in 1..Len(sm) : smt[i] = sm[i]
      /\ \A i \in 1..Len(t) : smt[Len(sm) + i] = t[i]
  <2>1. sm \in Seq(Place) /\ t \in Seq(Place)
    BY <1>1, <1>3
  <2> HIDE DEF sm
  <2> QED BY <2>1, ConcatAt
<1> HIDE DEF sm, smt
<1>5. /\ Len(m) = 5
      /\ m[1] = Read("chain") /\ m[2] = Read("glob") /\ m[3] = Act("look")
      /\ m[4] = Unread("chain") /\ m[5] = Unread("glob")
  BY PathLooking DEF m
<1>6. /\ Len(sm) = 6 /\ sm[1] = s[1] /\ sm[2] = m[1] /\ sm[3] = m[2] /\ sm[4] = m[3]
      /\ sm[5] = m[4] /\ sm[6] = m[5]
  BY <1>1, <1>3, <1>5
<1>7. /\ Len(smt) = 7 /\ smt[1] = sm[1] /\ smt[2] = sm[2] /\ smt[3] = sm[3] /\ smt[4] = sm[4]
      /\ smt[5] = sm[5] /\ smt[6] = sm[6] /\ smt[7] = t[1]
  BY <1>1, <1>4, <1>6
<1>8. EnumPath = smt
  BY <1>2 DEF sm, smt
<1> QED BY <1>1, <1>4, <1>5, <1>6, <1>7, <1>8

(* Every path, place by place. *)
LEMMA PathIs ==
  ASSUME NEW o \in Ops
  PROVE  /\ Path(o) \in Seq(Place)
         /\ o \in Edits =>
              /\ Len(Path(o)) = 3 /\ Path(o)[1] = Write("chain") /\ Path(o)[2] = Act(o)
              /\ Path(o)[3] = Unwrite("chain")
         /\ o = "match" =>
              /\ Len(Path(o)) = 3 /\ Path(o)[1] = Read("chain") /\ Path(o)[2] = Act("look")
              /\ Path(o)[3] = Unread("chain")
         /\ o = "struct" => Path(o) = LookingGlobal
         /\ o = "enum" => Path(o) = EnumPath
         /\ o = "define" => Len(Path(o)) = 2 /\ Path(o)[1] = Write("glob") /\ Path(o)[2] = Unwrite("glob")
<1>1. CASE o \in Edits
  <2>1. Path(o) = Changing(o) /\ o \notin {"top", "match", "struct", "enum", "define"}
    BY <1>1 DEF Path, Edits
  <2>2. Changing(o) \in Seq(Place)
    BY <1>1 DEF Changing, Place, Write, Unwrite, Act, Edits, Locks
  <2> QED BY <2>1, <2>2, ChangingIs
<1>2. CASE o = "top"
  BY <1>2, TopPath DEF Edits
<1>3. CASE o = "match"
  <2>1. Path(o) = Looking
    BY <1>3 DEF Path
  <2>2. /\ Looking \in Seq(Place) /\ Len(Looking) = 3
        /\ Looking[1] = Read("chain") /\ Looking[2] = Act("look") /\ Looking[3] = Unread("chain")
    BY DEF Looking, Place, Read, Unread, Act, Locks
  <2> QED BY <1>3, <2>1, <2>2 DEF Edits
<1>4. CASE o = "struct"
  <2>1. Path(o) = LookingGlobal
    BY <1>4 DEF Path
  <2>2. LookingGlobal \in Seq(Place)
    BY DEF LookingGlobal, Place, Read, Unread, Act, Locks
  <2> QED BY <1>4, <2>1, <2>2 DEF Edits
<1>5. CASE o = "enum"
  <2>1. Path(o) = EnumPath
    BY <1>5 DEF Path
  <2> QED BY <1>5, <2>1, EnumIs DEF Edits
<1>6. CASE o = "define"
  <2>1. Path(o) = <<Write("glob"), Unwrite("glob")>>
    BY <1>6 DEF Path
  <2> DEFINE s == <<Write("glob"), Unwrite("glob")>>
  <2>2. s \in Seq(Place) /\ Len(s) = 2 /\ s[1] = Write("glob") /\ s[2] = Unwrite("glob")
    BY DEF Place, Write, Unwrite, Locks
  <2> QED BY <1>6, <2>1, <2>2 DEF Edits
<1> QED BY <1>1, <1>2, <1>3, <1>4, <1>5, <1>6 DEF Ops

LEMMA PathSome ==
  ASSUME NEW o \in Ops
  PROVE  Len(Path(o)) > 0
<1>1. CASE o \in Edits
  BY <1>1, PathIs
<1>2. CASE o = "top"
  BY <1>2, TopPath
<1>3. CASE o = "match"
  BY <1>3, PathIs
<1>4. CASE o = "struct"
  BY <1>4, PathIs, PathLooking
<1>5. CASE o = "enum"
  BY <1>5, PathIs, EnumIs
<1>6. CASE o = "define"
  BY <1>6, PathIs
<1> QED BY <1>1, <1>2, <1>3, <1>4, <1>5, <1>6 DEF Ops

(* What a step of a path does to the locks that the call holds. *)
LEMMA PathTable ==
  ASSUME NEW o \in Ops, NEW k \in 1..Len(Path(o)), NEW x, x = Path(o)[k]
  PROVE  /\ x \in Place
         /\ \A l \in Locks :
              /\ Reads(o, k, l) \in Nat /\ Reads(o, k + 1, l) \in Nat
              /\ Reads(o, k + 1, l) = IF x = Read(l) THEN Reads(o, k, l) + 1
                                      ELSE IF x = Unread(l) THEN Reads(o, k, l) - 1
                                      ELSE Reads(o, k, l)
              /\ x = Unread(l) => Reads(o, k, l) > 0
              /\ Writes(o, k + 1, l) <=> (x = Write(l) \/ (Writes(o, k, l) /\ x # Unwrite(l)))
              /\ x = Write(l) => ~Writes(o, k, l)
              /\ x = Unwrite(l) => Writes(o, k, l)
              /\ Reads(o, 1, l) = 0 /\ Reads(o, Len(Path(o)) + 1, l) = 0
              /\ ~Writes(o, 1, l) /\ ~Writes(o, Len(Path(o)) + 1, l)
              /\ Writes(o, k, l) => x.act \notin {"rlock", "lock"}
         /\ x.act \in Edits \cup {"front"} => Writes(o, k, "chain")
         /\ x.act = "look" => Reads(o, k, "chain") > 0
         /\ x.act = "front" <=> o = "top" /\ k = 5
         /\ o = "top" => (x.act \in Edits <=> k = 2) /\ (k = 2 => x.act = "remove")
         /\ o # "top" /\ x.act \in Edits => x.act = o
         /\ Reads(o, k, "glob") > 0 /\ x.act \notin {"look", "runlock"} => o = "enum"
         /\ Reads(o, k, "chain") > 0 /\ x.act \notin {"look", "runlock"} =>
              x = Read("glob") /\ (o = "enum" => Reads(o, k, "glob") > 0)
<1> USE DEF Place, Read, Unread, Write, Unwrite, Act, Locks, Edits, Ops, Reads, Writes
<1>1. CASE o \in Edits
  <2>1. /\ Len(Path(o)) = 3 /\ Path(o)[1] = Write("chain") /\ Path(o)[2] = Act(o)
        /\ Path(o)[3] = Unwrite("chain")
    BY <1>1, PathIs
  <2>2. k = 1 \/ k = 2 \/ k = 3
    BY <2>1
  <2>3. CASE k = 1
    BY <1>1, <2>1, <2>3
  <2>4. CASE k = 2
    BY <1>1, <2>1, <2>4
  <2>5. CASE k = 3
    BY <1>1, <2>1, <2>5
  <2> QED BY <2>2, <2>3, <2>4, <2>5
<1>2. CASE o = "top"
  <2>1. /\ Len(Path(o)) = 6
        /\ Path(o)[1] = Write("chain") /\ Path(o)[2] = Act("remove") /\ Path(o)[3] = Unwrite("chain")
        /\ Path(o)[4] = Write("chain") /\ Path(o)[5] = Act("front") /\ Path(o)[6] = Unwrite("chain")
    BY <1>2, TopPath
  <2>2. k = 1 \/ k = 2 \/ k = 3 \/ k = 4 \/ k = 5 \/ k = 6
    BY <2>1
  <2>3. CASE k = 1
    BY <1>2, <2>1, <2>3
  <2>4. CASE k = 2
    BY <1>2, <2>1, <2>4
  <2>5. CASE k = 3
    BY <1>2, <2>1, <2>5
  <2>6. CASE k = 4
    BY <1>2, <2>1, <2>6
  <2>7. CASE k = 5
    BY <1>2, <2>1, <2>7
  <2>8. CASE k = 6
    BY <1>2, <2>1, <2>8
  <2> QED BY <2>2, <2>3, <2>4, <2>5, <2>6, <2>7, <2>8
<1>3. CASE o = "match"
  <2>1. /\ Len(Path(o)) = 3 /\ Path(o)[1] = Read("chain") /\ Path(o)[2] = Act("look")
        /\ Path(o)[3] = Unread("chain")
    BY <1>3, PathIs
  <2>2. k = 1 \/ k = 2 \/ k = 3
    BY <2>1
  <2>3. CASE k = 1
    BY <1>3, <2>1, <2>3
  <2>4. CASE k = 2
    BY <1>3, <2>1, <2>4
  <2>5. CASE k = 3
    BY <1>3, <2>1, <2>5
  <2> QED BY <2>2, <2>3, <2>4, <2>5
<1>4. CASE o = "struct"
  <2>1. /\ Len(Path(o)) = 5
        /\ Path(o)[1] = Read("chain") /\ Path(o)[2] = Read("glob") /\ Path(o)[3] = Act("look")
        /\ Path(o)[4] = Unread("chain") /\ Path(o)[5] = Unread("glob")
    BY <1>4, PathIs, PathLooking
  <2>2. k = 1 \/ k = 2 \/ k = 3 \/ k = 4 \/ k = 5
    BY <2>1
  <2>3. CASE k = 1
    BY <1>4, <2>1, <2>3
  <2>4. CASE k = 2
    BY <1>4, <2>1, <2>4
  <2>5. CASE k = 3
    BY <1>4, <2>1, <2>5
  <2>6. CASE k = 4
    BY <1>4, <2>1, <2>6
  <2>7. CASE k = 5
    BY <1>4, <2>1, <2>7
  <2> QED BY <2>2, <2>3, <2>4, <2>5, <2>6, <2>7
<1>5. CASE o = "enum"
  <2>1. /\ Len(Path(o)) = 7
        /\ Path(o)[1] = Read("glob") /\ Path(o)[2] = Read("chain") /\ Path(o)[3] = Read("glob")
        /\ Path(o)[4] = Act("look") /\ Path(o)[5] = Unread("chain") /\ Path(o)[6] = Unread("glob")
        /\ Path(o)[7] = Unread("glob")
    BY <1>5, PathIs, EnumIs
  <2>2. k = 1 \/ k = 2 \/ k = 3 \/ k = 4 \/ k = 5 \/ k = 6 \/ k = 7
    BY <2>1
  <2>3. CASE k = 1
    BY <1>5, <2>1, <2>3
  <2>4. CASE k = 2
    BY <1>5, <2>1, <2>4
  <2>5. CASE k = 3
    BY <1>5, <2>1, <2>5
  <2>6. CASE k = 4
    BY <1>5, <2>1, <2>6
  <2>7. CASE k = 5
    BY <1>5, <2>1, <2>7
  <2>8. CASE k = 6
    BY <1>5, <2>1, <2>8
  <2>9. CASE k = 7
    BY <1>5, <2>1, <2>9
  <2> QED BY <2>2, <2>3, <2>4, <2>5, <2>6, <2>7, <2>8, <2>9
<1>6. CASE o = "define"
  <2>1. Len(Path(o)) = 2 /\ Path(o)[1] = Write("glob") /\ Path(o)[2] = Unwrite("glob")
    BY <1>6, PathIs
  <2>2. k = 1 \/ k = 2
    BY <2>1
  <2>3. CASE k = 1
    BY <1>6, <2>1, <2>3
  <2>4. CASE k = 2
    BY <1>6, <2>1, <2>4
  <2> QED BY <2>2, <2>3, <2>4
<1> QED BY <1>1, <1>2, <1>3, <1>4, <1>5, <1>6

-----------------------------------------------------------------------------
(* Where each goroutine is on its path *)

P(g) == Path(op(g))
Asked(g) == At(g, "admitted")

(* The step of its path that a busy goroutine is at, and what it is. *)
pc(g) == Len(P(g)) + (IF Asked(g) THEN 2 ELSE 1) - Len(todo[g])
Now(g) == P(g)[pc(g)]

Admission == Act("admitted")

PlanOK ==
  /\ calls \in [Goroutines -> Seq([op : Ops, name : Names])]
  /\ made \in [Goroutines -> Nat]
  /\ todo \in [Goroutines -> Seq(Place \cup {Admission})]

OnPath(g) ==
  Busy(g) =>
    /\ made[g] \in 1..Len(calls[g])
    /\ pc(g) \in 1..Len(P(g))
    /\ Asked(g) => todo[g][1] = Admission /\ Now(g).act = "rlock"
    /\ \A i \in (IF Asked(g) THEN 2 ELSE 1)..Len(todo[g]) :
         todo[g][i] = P(g)[Len(P(g)) - Len(todo[g]) + i]

Paths == PlanOK /\ \A g \in Goroutines : made[g] <= Len(calls[g]) /\ OnPath(g)

LEMMA LenOf ==
  ASSUME NEW T, NEW s \in Seq(T)
  PROVE  Len(s) \in Nat /\ (s # <<>> <=> Len(s) > 0) /\ (s # <<>> => Head(s) = s[1] /\ 1 \in 1..Len(s))
BY LenProperties, EmptySeq, HeadTailProperties

LEMMA Busyness ==
  ASSUME Paths, NEW g \in Goroutines, Busy(g)
  PROVE  /\ op(g) \in Ops /\ name(g) \in Names
         /\ P(g) \in Seq(Place) /\ Len(P(g)) \in Nat /\ Len(todo[g]) \in Nat \ {0}
         /\ todo[g] \in Seq(Place \cup {Admission}) /\ Head(todo[g]) = todo[g][1]
         /\ pc(g) \in 1..Len(P(g)) /\ Now(g) \in Place
         /\ ~Asked(g) => Head(todo[g]) = Now(g)
         /\ Asked(g) => /\ Len(todo[g]) >= 2 /\ todo[g][2] = Now(g) /\ Now(g).act = "rlock"
<1>1. /\ calls[g] \in Seq([op : Ops, name : Names]) /\ made[g] \in 1..Len(calls[g])
      /\ todo[g] \in Seq(Place \cup {Admission}) /\ todo[g] # <<>>
  BY DEF Paths, PlanOK, OnPath, Busy
<1>2. calls[g][made[g]] \in [op : Ops, name : Names]
  BY <1>1, ElementOfSeq
<1>3. op(g) \in Ops /\ name(g) \in Names
  BY <1>2 DEF op, name
<1>4. P(g) \in Seq(Place)
  BY <1>3, PathIs DEF P
<1>5. Len(P(g)) \in Nat /\ Len(todo[g]) \in Nat \ {0}
  BY <1>1, <1>4, LenProperties, EmptySeq
<1>6. pc(g) \in 1..Len(P(g)) /\ Now(g) \in Place
  <2>1. pc(g) \in 1..Len(P(g))
    BY DEF Paths, OnPath
  <2> QED BY <1>4, <2>1, ElementOfSeq DEF Now
<1>7. Head(todo[g]) = todo[g][1]
  BY <1>1, HeadTailProperties
<1>8. ASSUME ~Asked(g) PROVE todo[g][1] = Now(g)
  <2>1. \A i \in 1..Len(todo[g]) : todo[g][i] = P(g)[Len(P(g)) - Len(todo[g]) + i]
    BY <1>8 DEF Paths, OnPath
  <2>2. 1 \in 1..Len(todo[g]) /\ pc(g) = Len(P(g)) - Len(todo[g]) + 1
    BY <1>5, <1>8 DEF pc
  <2> QED BY <2>1, <2>2 DEF Now
<1>9. ASSUME Asked(g) PROVE Len(todo[g]) >= 2 /\ todo[g][2] = Now(g) /\ Now(g).act = "rlock"
  <2>1. /\ \A i \in 2..Len(todo[g]) : todo[g][i] = P(g)[Len(P(g)) - Len(todo[g]) + i]
        /\ Now(g).act = "rlock"
    BY <1>9 DEF Paths, OnPath
  <2>2. pc(g) = Len(P(g)) - Len(todo[g]) + 2
    BY <1>5, <1>9 DEF pc
  <2>3. 2 \in 2..Len(todo[g])
    BY <1>5, <1>6, <2>2
  <2>4. todo[g][2] = P(g)[Len(P(g)) - Len(todo[g]) + 2]
    BY <2>1, <2>3
  <2>5. Len(todo[g]) >= 2
    BY <1>5, <2>3
  <2> QED BY <2>1, <2>2, <2>4, <2>5 DEF Now
<1> QED BY <1>1, <1>3, <1>4, <1>5, <1>6, <1>7, <1>8, <1>9

(* Places are told apart by what they do and on which lock. *)
LEMMA Acts ==
  ASSUME Paths, NEW g \in Goroutines, NEW a, a # "admitted", At(g, a)
  PROVE  /\ Busy(g) /\ ~Asked(g) /\ Now(g) = Head(todo[g]) /\ Now(g).act = a /\ Now(g) \in Place
<1>1. Busy(g) /\ ~Asked(g) /\ Head(todo[g]).act = a
  BY DEF At, Busy, Asked
<1> QED BY <1>1, Busyness

LEMMA Places ==
  ASSUME NEW x \in Place
  PROVE  /\ x.act # "admitted"
         /\ x.act = "rlock" => \E l \in Locks : x = Read(l) /\ x.on = l
         /\ x.act = "runlock" => \E l \in Locks : x = Unread(l) /\ x.on = l
         /\ x.act = "lock" => \E l \in Locks : x = Write(l) /\ x.on = l
         /\ x.act = "unlock" => \E l \in Locks : x = Unwrite(l) /\ x.on = l
         /\ \A l \in Locks : /\ x = Read(l) => x.act = "rlock" /\ x.on = l
                             /\ x = Unread(l) => x.act = "runlock" /\ x.on = l
                             /\ x = Write(l) => x.act = "lock" /\ x.on = l
                             /\ x = Unwrite(l) => x.act = "unlock" /\ x.on = l
BY DEF Place, Locks, Read, Unread, Write, Unwrite, Edits

(* A goroutine that does nothing stays where it is. *)
LEMMA Stays ==
  ASSUME NEW g, calls'[g] = calls[g], made'[g] = made[g], todo'[g] = todo[g]
  PROVE  /\ OnPath(g)' <=> OnPath(g)
         /\ Busy(g)' <=> Busy(g)
         /\ Asked(g)' <=> Asked(g)
         /\ pc(g)' = pc(g) /\ op(g)' = op(g) /\ name(g)' = name(g) /\ Now(g)' = Now(g)
BY DEF OnPath, Busy, Asked, At, pc, Now, P, op, name

LEMMA After ==
  ASSUME NEW n \in Nat, NEW k \in 1..n, NEW m \in Nat
  PROVE  (m = n - k => (m > 0 <=> k < n)) /\ (k < n => k + 1 \in 1..n)
OBVIOUS

(* A step of a path, with or without a wait before it. *)
LEMMA Goes ==
  ASSUME Paths, NEW g \in Goroutines, Busy(g), UNCHANGED <<calls, made>>,
         NEW d \in Nat, d = (IF Asked(g) THEN 2 ELSE 1),
         todo' \in [Goroutines -> Seq(Place \cup {Admission})],
         Len(todo'[g]) = Len(todo[g]) - d,
         \A i \in 1..Len(todo'[g]) : todo'[g][i] = todo[g][i + d]
  PROVE  /\ OnPath(g)' /\ ~Asked(g)' /\ op(g)' = op(g) /\ name(g)' = name(g)
         /\ Busy(g)' <=> pc(g) < Len(P(g))
         /\ Busy(g)' => pc(g)' = pc(g) + 1 /\ Now(g)' = P(g)[pc(g) + 1]
<1>1. /\ P(g) \in Seq(Place) /\ Len(P(g)) \in Nat /\ Len(todo[g]) \in Nat \ {0}
      /\ pc(g) \in 1..Len(P(g)) /\ pc(g) = Len(P(g)) + d - Len(todo[g]) /\ d \in 1..2
  BY Busyness DEF pc
<1>2. op(g)' = op(g) /\ name(g)' = name(g) /\ P(g)' = P(g)
  BY DEF op, name, P
<1>3. todo'[g] \in Seq(Place \cup {Admission}) /\ Len(todo'[g]) \in Nat /\ (todo'[g] # <<>> <=> Len(todo'[g]) > 0)
  <2>1. todo'[g] \in Seq(Place \cup {Admission})
    OBVIOUS
  <2> QED BY <2>1, LenOf
<1>4. Len(todo'[g]) = Len(P(g)) - pc(g) /\ (Busy(g)' <=> pc(g) < Len(P(g)))
  <2>1. Len(todo'[g]) = Len(P(g)) - pc(g)
    BY <1>1
  <2>2. Busy(g)' <=> todo'[g] # <<>>
    BY DEF Busy
  <2>3. Len(todo'[g]) > 0 <=> pc(g) < Len(P(g))
    BY <1>1, <1>3, <2>1, After
  <2> QED BY <1>3, <2>1, <2>2, <2>3
<1>5. \A i \in 1..Len(todo'[g]) : todo'[g][i] = P(g)[Len(P(g)) - Len(todo'[g]) + i]
  <2> SUFFICES ASSUME NEW i \in 1..Len(todo'[g])
               PROVE  todo'[g][i] = P(g)[Len(P(g)) - Len(todo'[g]) + i]
    OBVIOUS
  <2>1. i + d \in d..Len(todo[g]) /\ Len(P(g)) - Len(todo[g]) + (i + d) = Len(P(g)) - Len(todo'[g]) + i
    BY <1>1, <1>3
  <2>2. todo[g][i + d] = P(g)[Len(P(g)) - Len(todo[g]) + (i + d)]
    BY <2>1 DEF Paths, OnPath
  <2> QED BY <2>1, <2>2
<1>6. ~Asked(g)'
  <2> SUFFICES ASSUME todo'[g] # <<>>, Head(todo'[g]).act = "admitted" PROVE FALSE
    BY DEF Asked, At
  <2>1. Head(todo'[g]) = todo'[g][1] /\ 1 \in 1..Len(todo'[g])
    BY <1>3, LenOf
  <2>2. Len(P(g)) - Len(todo'[g]) + 1 \in 1..Len(P(g))
    BY <1>1, <1>3, <2>1
  <2>3. P(g)[Len(P(g)) - Len(todo'[g]) + 1] \in Place
    BY <1>1, <2>2, ElementOfSeq
  <2>4. Head(todo'[g]) \in Place
    BY <1>5, <2>1, <2>3
  <2> QED BY <2>4, Places
<1>7. Busy(g)' => pc(g)' = pc(g) + 1 /\ Now(g)' = P(g)[pc(g) + 1]
  BY <1>1, <1>2, <1>3, <1>6 DEF pc, Now
<1>8. OnPath(g)'
  <2> SUFFICES ASSUME Busy(g)'
               PROVE  /\ made'[g] \in 1..Len(calls'[g])
                      /\ pc(g)' \in 1..Len(P(g)')
                      /\ \A i \in 1..Len(todo'[g]) : todo'[g][i] = P(g)'[Len(P(g)') - Len(todo'[g]) + i]
    BY <1>6 DEF OnPath
  <2>1. made'[g] \in 1..Len(calls'[g])
    BY DEF OnPath, Paths
  <2>2. pc(g)' \in 1..Len(P(g)')
    <3>1. pc(g)' = pc(g) + 1 /\ pc(g) < Len(P(g)) /\ P(g)' = P(g)
      BY <1>2, <1>4, <1>7
    <3>2. pc(g) + 1 \in 1..Len(P(g))
      BY <1>1, <3>1, After
    <3> QED BY <3>1, <3>2
  <2> QED BY <1>2, <1>5, <2>1, <2>2
<1> QED BY <1>2, <1>4, <1>6, <1>7, <1>8

Others(g) == \A h \in Goroutines \ {g} : todo'[h] = todo[h] /\ made'[h] = made[h]

(* A goroutine has taken a step of its path. *)
Moved(g) ==
  /\ calls' = calls /\ Others(g) /\ made' = made
  /\ Busy(g) /\ ~Asked(g)' /\ op(g)' = op(g) /\ name(g)' = name(g)
  /\ Busy(g)' <=> pc(g) < Len(P(g))
  /\ Busy(g)' => pc(g)' = pc(g) + 1 /\ Now(g)' = P(g)[pc(g) + 1]

LEMMA OthersStay ==
  ASSUME Paths, NEW g \in Goroutines, calls' = calls, made' \in [Goroutines -> Nat], Others(g),
         made'[g] <= Len(calls[g]), todo' \in [Goroutines -> Seq(Place \cup {Admission})], OnPath(g)'
  PROVE  Paths'
<1>1. \A h \in Goroutines \ {g} : OnPath(h)' /\ made'[h] <= Len(calls'[h])
  BY Stays DEF Paths, Others
<1> QED BY <1>1 DEF Paths, PlanOK

LEMMA GoMoves ==
  ASSUME Paths, NEW g \in Goroutines, NEW a, a # "admitted", At(g, a), Go(g), UNCHANGED <<calls, made>>
  PROVE  Paths' /\ Moved(g)
<1>1. Busy(g) /\ ~Asked(g)
  BY Acts
<1>2. todo[g] \in Seq(Place \cup {Admission}) /\ todo[g] # <<>>
  BY <1>1, Busyness DEF Busy
<1>3. /\ Tail(todo[g]) \in Seq(Place \cup {Admission}) /\ Len(Tail(todo[g])) = Len(todo[g]) - 1
      /\ \A i \in 1..Len(Tail(todo[g])) : Tail(todo[g])[i] = todo[g][i + 1]
  BY <1>2, HeadTailProperties
<1>4. /\ todo' \in [Goroutines -> Seq(Place \cup {Admission})]
      /\ todo'[g] = Tail(todo[g]) /\ \A h \in Goroutines \ {g} : todo'[h] = todo[h]
  BY <1>3 DEF Go, Paths, PlanOK
<1>5. /\ OnPath(g)' /\ ~Asked(g)' /\ op(g)' = op(g) /\ name(g)' = name(g)
      /\ Busy(g)' <=> pc(g) < Len(P(g))
      /\ Busy(g)' => pc(g)' = pc(g) + 1 /\ Now(g)' = P(g)[pc(g) + 1]
  BY <1>1, <1>3, <1>4, Goes
<1>6. Others(g) /\ made' \in [Goroutines -> Nat] /\ made'[g] <= Len(calls[g])
  BY <1>4 DEF Others, Paths, PlanOK
<1> QED BY <1>1, <1>4, <1>5, <1>6, OthersStay DEF Moved

LEMMA AdmittedMoves ==
  ASSUME Paths, NEW g \in Goroutines, Admitted(g)
  PROVE  Paths' /\ Moved(g) /\ Asked(g)
<1>1. Busy(g) /\ Asked(g)
  BY DEF Admitted, At, Busy, Asked
<1>2. todo[g] \in Seq(Place \cup {Admission}) /\ Len(todo[g]) >= 2 /\ todo[g] # <<>>
  BY <1>1, Busyness DEF Busy
<1> DEFINE t == Tail(todo[g])
<1>3. /\ t \in Seq(Place \cup {Admission}) /\ Len(t) = Len(todo[g]) - 1
      /\ \A i \in 1..Len(t) : t[i] = todo[g][i + 1]
  BY <1>2, HeadTailProperties
<1>4. todo' = [todo EXCEPT ![g] = Tail(t)]
  BY DEF Admitted
<1> HIDE DEF t
<1>5. t # <<>> /\ Len(t) \in Nat
  BY <1>2, <1>3, LenOf
<1>6. /\ Tail(t) \in Seq(Place \cup {Admission}) /\ Len(Tail(t)) = Len(t) - 1
      /\ \A i \in 1..Len(Tail(t)) : Tail(t)[i] = t[i + 1]
  BY <1>3, <1>5, HeadTailProperties
<1>7. /\ Len(Tail(t)) = Len(todo[g]) - 2
      /\ \A i \in 1..Len(Tail(t)) : Tail(t)[i] = todo[g][i + 2]
  BY <1>3, <1>5, <1>6
<1>8. /\ todo' \in [Goroutines -> Seq(Place \cup {Admission})]
      /\ todo'[g] = Tail(t) /\ \A h \in Goroutines \ {g} : todo'[h] = todo[h]
  BY <1>4, <1>6 DEF Paths, PlanOK
<1>9. UNCHANGED <<calls, made>>
  BY DEF Admitted
<1>10. /\ OnPath(g)' /\ ~Asked(g)' /\ op(g)' = op(g) /\ name(g)' = name(g)
       /\ Busy(g)' <=> pc(g) < Len(P(g))
       /\ Busy(g)' => pc(g)' = pc(g) + 1 /\ Now(g)' = P(g)[pc(g) + 1]
  BY <1>1, <1>7, <1>8, <1>9, Goes
<1>11. Others(g) /\ made' \in [Goroutines -> Nat] /\ made'[g] <= Len(calls[g])
  BY <1>8, <1>9 DEF Others, Paths, PlanOK
<1> QED BY <1>1, <1>8, <1>9, <1>10, <1>11, OthersStay DEF Moved

(* A reader that has to wait for a writer. *)
Asking(g) ==
  /\ calls' = calls /\ Others(g) /\ made' = made
  /\ Busy(g) /\ ~Asked(g) /\ Now(g).act = "rlock"
  /\ Busy(g)' /\ Asked(g)' /\ op(g)' = op(g) /\ name(g)' = name(g)
  /\ pc(g)' = pc(g) /\ Now(g)' = Now(g)

LEMMA AskingMoves ==
  ASSUME Paths, NEW g \in Goroutines, At(g, "rlock"), UNCHANGED <<calls, made>>,
         todo' = [todo EXCEPT ![g] = <<Act("admitted")>> \o @]
  PROVE  Paths' /\ Asking(g)
<1>1. /\ Busy(g) /\ ~Asked(g) /\ Now(g).act = "rlock" /\ P(g) \in Seq(Place) /\ Len(P(g)) \in Nat
      /\ todo[g] \in Seq(Place \cup {Admission}) /\ Len(todo[g]) \in Nat
  BY Acts, Busyness
<1> DEFINE t == <<Admission>> \o todo[g]
<1>2. /\ t \in Seq(Place \cup {Admission}) /\ Len(t) = Len(todo[g]) + 1 /\ t[1] = Admission
      /\ \A i \in 2..Len(t) : t[i] = todo[g][i - 1]
  <2>1. <<Admission>> \in Seq(Place \cup {Admission}) /\ Len(<<Admission>>) = 1 /\ <<Admission>>[1] = Admission
    OBVIOUS
  <2>2. /\ t \in Seq(Place \cup {Admission}) /\ Len(t) = Len(<<Admission>>) + Len(todo[g])
        /\ \A i \in 1..Len(<<Admission>>) : t[i] = <<Admission>>[i]
        /\ \A i \in 1..Len(todo[g]) : t[Len(<<Admission>>) + i] = todo[g][i]
    <3> DEFINE s == <<Admission>>
    <3>1. s \in Seq(Place \cup {Admission})
      OBVIOUS
    <3> HIDE DEF s
    <3>2. /\ s \o todo[g] \in Seq(Place \cup {Admission}) /\ Len(s \o todo[g]) = Len(s) + Len(todo[g])
          /\ \A i \in 1..Len(s) : (s \o todo[g])[i] = s[i]
          /\ \A i \in 1..Len(todo[g]) : (s \o todo[g])[Len(s) + i] = todo[g][i]
      BY <1>1, <3>1, ConcatAt
    <3> QED BY <3>2 DEF s
  <2> HIDE DEF t
  <2> QED BY <1>1, <2>1, <2>2
<1>3. todo' = [todo EXCEPT ![g] = t]
  BY DEF Admission
<1> HIDE DEF t
<1>4. /\ todo' \in [Goroutines -> Seq(Place \cup {Admission})]
      /\ todo'[g] = t /\ \A h \in Goroutines \ {g} : todo'[h] = todo[h]
  BY <1>2, <1>3 DEF Paths, PlanOK
<1>5. t # <<>> /\ Head(t) = Admission
  BY <1>1, <1>2, LenOf
<1>6. Busy(g)' /\ Asked(g)' /\ op(g)' = op(g) /\ name(g)' = name(g) /\ P(g)' = P(g)
  BY <1>4, <1>5 DEF Busy, Asked, At, Admission, Act, op, name, P
<1>7. pc(g)' = pc(g) /\ Now(g)' = Now(g)
  BY <1>1, <1>2, <1>4, <1>6 DEF pc, Now
<1>8. OnPath(g)'
  <2>1. /\ made[g] \in 1..Len(calls[g]) /\ pc(g) \in 1..Len(P(g))
        /\ \A i \in 1..Len(todo[g]) : todo[g][i] = P(g)[Len(P(g)) - Len(todo[g]) + i]
    BY <1>1 DEF Paths, OnPath
  <2>2. \A i \in 2..Len(t) : t[i] = P(g)[Len(P(g)) - Len(t) + i]
    <3> SUFFICES ASSUME NEW i \in 2..Len(t) PROVE t[i] = P(g)[Len(P(g)) - Len(t) + i]
      OBVIOUS
    <3>1. i - 1 \in 1..Len(todo[g]) /\ Len(P(g)) - Len(todo[g]) + (i - 1) = Len(P(g)) - Len(t) + i
      BY <1>1, <1>2
    <3>2. t[i] = todo[g][i - 1] /\ todo[g][i - 1] = P(g)[Len(P(g)) - Len(todo[g]) + (i - 1)]
      BY <1>2, <2>1, <3>1
    <3> QED BY <3>1, <3>2
  <2> QED BY <1>1, <1>2, <1>4, <1>6, <1>7, <2>1, <2>2 DEF OnPath
<1>9. Others(g) /\ made' \in [Goroutines -> Nat] /\ made'[g] <= Len(calls[g])
  BY <1>4 DEF Others, Paths, PlanOK
<1> QED BY <1>1, <1>4, <1>6, <1>7, <1>8, <1>9, OthersStay DEF Asking

Called(g) ==
  /\ calls' = calls /\ Others(g) /\ ~Busy(g)
  /\ Busy(g)' /\ ~Asked(g)' /\ pc(g)' = 1 /\ op(g)' \in Ops

LEMMA CallMoves ==
  ASSUME Paths, NEW g \in Goroutines, Call(g)
  PROVE  Paths' /\ Called(g)
<1>1. /\ calls' = calls /\ todo[g] = <<>> /\ made[g] \in Nat /\ made[g] < Len(calls[g])
      /\ calls[g] \in Seq([op : Ops, name : Names])
      /\ made' \in [Goroutines -> Nat] /\ made'[g] = made[g] + 1
      /\ \A h \in Goroutines \ {g} : made'[h] = made[h]
      /\ todo' = [todo EXCEPT ![g] = Path(calls[g][made'[g]].op)]
  <2>1. calls[g] \in Seq([op : Ops, name : Names]) /\ made[g] \in Nat
    BY DEF Paths, PlanOK
  <2>2. made' = [made EXCEPT ![g] = @ + 1] /\ made' \in [Goroutines -> Nat]
    BY <2>1 DEF Call, Paths, PlanOK
  <2>3. made'[g] = made[g] + 1 /\ \A h \in Goroutines \ {g} : made'[h] = made[h]
    BY <2>2 DEF Paths, PlanOK
  <2> QED BY <2>1, <2>2, <2>3 DEF Call
<1>2. made'[g] \in 1..Len(calls[g])
  BY <1>1, LenOf
<1>3. calls[g][made'[g]].op \in Ops
  <2>1. calls[g][made'[g]] \in [op : Ops, name : Names]
    BY <1>1, <1>2, ElementOfSeq
  <2> QED BY <2>1
<1> DEFINE p == Path(calls[g][made'[g]].op)
<1>4. /\ p \in Seq(Place) /\ p \in Seq(Place \cup {Admission}) /\ p # <<>>
  <2>1. p \in Seq(Place) /\ Len(p) > 0
    BY <1>3, PathIs, PathSome
  <2>2. p \in Seq(Place \cup {Admission})
    BY <2>1
  <2> QED BY <2>1, <2>2, LenOf
<1>5. op(g)' = calls[g][made'[g]].op /\ P(g)' = p
  BY <1>1 DEF op, P
<1> HIDE DEF p
<1>6. /\ todo' \in [Goroutines -> Seq(Place \cup {Admission})]
      /\ todo'[g] = p /\ \A h \in Goroutines \ {g} : todo'[h] = todo[h]
  BY <1>1, <1>4 DEF Paths, PlanOK, p
<1>7. Head(p) = p[1] /\ 1 \in 1..Len(p) /\ Len(p) \in Nat
  BY <1>4, LenOf
<1>8. ~Asked(g)'
  <2>1. Head(p) \in Place
    BY <1>4, <1>7, ElementOfSeq
  <2> QED BY <1>6, <2>1, Places DEF Asked, At
<1>9. ~Busy(g) /\ Busy(g)' /\ pc(g)' = 1
  BY <1>1, <1>4, <1>5, <1>6, <1>7, <1>8 DEF Busy, pc
<1>10. OnPath(g)'
  <2>1. \A i \in 1..Len(p) : Len(p) - Len(p) + i = i
    BY <1>7
  <2> QED BY <1>1, <1>2, <1>5, <1>6, <1>7, <1>8, <1>9, <2>1 DEF OnPath
<1>11. Others(g)
  BY <1>1, <1>6 DEF Others
<1>12. made'[g] <= Len(calls[g])
  BY <1>2
<1> QED BY <1>1, <1>3, <1>5, <1>6, <1>8, <1>9, <1>10, <1>11, <1>12, OthersStay DEF Called

-----------------------------------------------------------------------------
(* What the locks hold *)

HeldReads(g, l)  == IF Busy(g) THEN Reads(op(g), pc(g), l) ELSE 0
HeldWrites(g, l) == Busy(g) /\ Writes(op(g), pc(g), l)
AsksFor(g, l)    == Busy(g) /\ Asked(g) /\ Now(g) = Read(l)
Announced(g, l)  == Busy(g) /\ ~Asked(g) /\ Now(g) = Write(l)

RWMutex == [readers : [Goroutines -> Nat], writer : Goroutines \cup {None}, waiting : SUBSET Goroutines]
LockType == lock \in [Locks -> RWMutex]

(* A lock's readers are those that hold it and those that were let in and  *)
(* do not know it yet; its writer has it to itself once it goes on.        *)
LockHolds(l, g) ==
  /\ lock[l].readers[g] = HeldReads(g, l) + (IF AsksFor(g, l) /\ g \notin lock[l].waiting THEN 1 ELSE 0)
  /\ g \in lock[l].waiting => AsksFor(g, l) /\ lock[l].writer # None
  /\ lock[l].writer = g => HeldWrites(g, l) \/ Announced(g, l)
  /\ HeldWrites(g, l) => lock[l].writer = g /\ RW!NoReaders(lock[l])
Locking == LockType /\ \A l \in Locks, g \in Goroutines : LockHolds(l, g)

LEMMA OtherHolds ==
  ASSUME NEW g \in Goroutines, calls' = calls, Others(g), NEW h \in Goroutines \ {g}, NEW l
  PROVE  /\ HeldReads(h, l)' = HeldReads(h, l) /\ (HeldWrites(h, l)' <=> HeldWrites(h, l))
         /\ (AsksFor(h, l)' <=> AsksFor(h, l)) /\ (Announced(h, l)' <=> Announced(h, l))
<1>1. /\ Busy(h)' <=> Busy(h)
      /\ Asked(h)' <=> Asked(h)
      /\ pc(h)' = pc(h) /\ op(h)' = op(h) /\ Now(h)' = Now(h)
  BY Stays DEF Others
<1> QED BY <1>1 DEF HeldReads, HeldWrites, AsksFor, Announced

LEMMA MovedHolds ==
  ASSUME Paths, NEW g \in Goroutines, Moved(g), NEW l \in Locks, NEW x, x = Now(g)
  PROVE  /\ HeldReads(g, l) \in Nat
         /\ HeldReads(g, l)' = IF x = Read(l) THEN HeldReads(g, l) + 1
                               ELSE IF x = Unread(l) THEN HeldReads(g, l) - 1
                               ELSE HeldReads(g, l)
         /\ x = Unread(l) => HeldReads(g, l) > 0
         /\ HeldWrites(g, l)' <=> (x = Write(l) \/ (HeldWrites(g, l) /\ x # Unwrite(l)))
         /\ x = Write(l) => ~HeldWrites(g, l)
         /\ x = Unwrite(l) => HeldWrites(g, l)
         /\ ~AsksFor(g, l)'
<1>1. /\ op(g) \in Ops /\ pc(g) \in 1..Len(P(g)) /\ Len(P(g)) \in Nat
      /\ Busy(g)' <=> pc(g) < Len(P(g))
      /\ Busy(g)' => pc(g)' = pc(g) + 1
      /\ op(g)' = op(g) /\ Busy(g) /\ ~Asked(g)'
  BY Busyness DEF Moved
<1> DEFINE o == op(g)  k == pc(g)
<1>2. /\ Reads(o, k, l) \in Nat
      /\ Reads(o, k + 1, l) = IF x = Read(l) THEN Reads(o, k, l) + 1
                              ELSE IF x = Unread(l) THEN Reads(o, k, l) - 1
                              ELSE Reads(o, k, l)
      /\ x = Unread(l) => Reads(o, k, l) > 0
      /\ Writes(o, k + 1, l) <=> (x = Write(l) \/ (Writes(o, k, l) /\ x # Unwrite(l)))
      /\ x = Write(l) => ~Writes(o, k, l)
      /\ x = Unwrite(l) => Writes(o, k, l)
      /\ Reads(o, Len(P(g)) + 1, l) = 0 /\ ~Writes(o, Len(P(g)) + 1, l)
  <2>1. o \in Ops /\ k \in 1..Len(Path(o)) /\ x = Path(o)[k] /\ Len(P(g)) = Len(Path(o))
    BY <1>1 DEF Now, P
  <2> HIDE DEF o, k
  <2> QED BY <2>1, PathTable
<1> HIDE DEF o, k
<1>3. HeldReads(g, l) = Reads(o, k, l) /\ (HeldWrites(g, l) <=> Writes(o, k, l))
  BY <1>1 DEF HeldReads, HeldWrites, o, k
<1>4. HeldReads(g, l)' = Reads(o, k + 1, l) /\ (HeldWrites(g, l)' <=> Writes(o, k + 1, l))
  <2>1. CASE Busy(g)'
    BY <1>1, <2>1 DEF HeldReads, HeldWrites, o, k
  <2>2. CASE ~Busy(g)'
    <3>1. k = Len(P(g))
      BY <1>1, <2>2 DEF k
    <3>2. Reads(o, k + 1, l) = 0 /\ ~Writes(o, k + 1, l)
      BY <1>2, <3>1
    <3> QED BY <2>2, <3>2 DEF HeldReads, HeldWrites
  <2> QED BY <2>1, <2>2
<1>5. ~AsksFor(g, l)'
  BY <1>1 DEF AsksFor
<1> QED BY <1>2, <1>3, <1>4, <1>5

LEMMA AskingHolds ==
  ASSUME Paths, NEW g \in Goroutines, Asking(g), NEW l \in Locks
  PROVE  /\ HeldReads(g, l)' = HeldReads(g, l) /\ (HeldWrites(g, l)' <=> HeldWrites(g, l))
         /\ AsksFor(g, l)' <=> Now(g) = Read(l)
         /\ ~AsksFor(g, l) /\ ~Announced(g, l)'
BY DEF Asking, HeldReads, HeldWrites, AsksFor, Announced

LEMMA CalledHolds ==
  ASSUME NEW g \in Goroutines, Called(g), NEW l \in Locks
  PROVE  /\ HeldReads(g, l)' = 0 /\ HeldReads(g, l) = 0 /\ ~HeldWrites(g, l)' /\ ~HeldWrites(g, l)
         /\ ~AsksFor(g, l)' /\ ~AsksFor(g, l) /\ ~Announced(g, l)
<1>1. \A o \in Ops : Reads(o, 1, l) = 0 /\ ~Writes(o, 1, l)
  BY DEF Reads, Writes
<1> QED BY <1>1 DEF Called, HeldReads, HeldWrites, AsksFor, Announced

(* A lock that a step does not concern. *)
LEMMA Elsewhere ==
  ASSUME Paths, NEW g \in Goroutines, NEW l \in Locks, \A h \in Goroutines : LockHolds(l, h),
         lock'[l] = lock[l],
         \/ Moved(g) /\ ~Asked(g) /\ Now(g) \notin {Read(l), Unread(l), Write(l), Unwrite(l)}
         \/ Moved(g) /\ Asked(g) /\ Now(g) # Read(l)
         \/ Asking(g) /\ Now(g) # Read(l)
         \/ Called(g)
  PROVE  \A h \in Goroutines : LockHolds(l, h)'
<1>1. calls' = calls /\ Others(g)
  BY DEF Moved, Asking, Called
<1>2. RW!NoReaders(lock[l])' <=> RW!NoReaders(lock[l])
  BY DEF RW!NoReaders
<1>3. \A h \in Goroutines \ {g} : LockHolds(l, h)'
  BY <1>1, <1>2, OtherHolds DEF LockHolds
<1>4. LockHolds(l, g)'
  <2>1. CASE Moved(g)
    <3>1. Now(g) \notin {Read(l), Unread(l), Write(l), Unwrite(l)}
      <4>1. CASE Asked(g)
        <5>1. Now(g).act = "rlock" /\ Now(g) # Read(l)
          BY <2>1, <4>1, Busyness DEF Moved, Asking, Called
        <5> QED BY <5>1 DEF Unread, Write, Unwrite
      <4> QED BY <2>1, <4>1 DEF Moved, Asking, Called
    <3>2. ~AsksFor(g, l) /\ ~Announced(g, l)
      BY <3>1 DEF AsksFor, Announced
    <3> QED BY <1>2, <2>1, <3>1, <3>2, MovedHolds DEF LockHolds
  <2>2. CASE Asking(g) /\ Now(g) # Read(l)
    <3>1. ~Announced(g, l)
      BY <2>2 DEF Announced, Asking, Write
    <3> QED BY <1>2, <2>2, <3>1, AskingHolds DEF LockHolds
  <2>3. CASE Called(g)
    BY <1>2, <2>3, CalledHolds DEF LockHolds
  <2> QED BY <2>1, <2>2, <2>3
<1> QED BY <1>3, <1>4

LEMMA ReadersSet ==
  ASSUME NEW r \in RWMutex, NEW g \in Goroutines, NEW n \in Nat
  PROVE  LET s == [r EXCEPT !.readers[g] = n]
         IN  /\ s \in RWMutex /\ s.readers = [r.readers EXCEPT ![g] = n]
             /\ s.writer = r.writer /\ s.waiting = r.waiting
<1>1. [r.readers EXCEPT ![g] = n] \in [Goroutines -> Nat]
  BY DEF RWMutex
<1>2. [r EXCEPT !.readers[g] = n] = [r EXCEPT !.readers = [r.readers EXCEPT ![g] = n]]
  BY DEF RWMutex
<1> QED BY <1>1, <1>2 DEF RWMutex

LEMMA RLockHolds ==
  ASSUME Paths, Locking, NEW g \in Goroutines, RLock(g)
  PROVE  Paths' /\ Locking'
<1>1. Busy(g) /\ ~Asked(g) /\ Now(g) = Head(todo[g]) /\ Now(g).act = "rlock" /\ Now(g) \in Place
  BY Acts DEF RLock
<1>2. PICK l \in Locks : Now(g) = Read(l) /\ Now(g).on = l
  BY <1>1, Places
<1>3. /\ UNCHANGED <<calls, made>> /\ The(g) = lock[l]
      /\ lock' = [lock EXCEPT ![l] = RW!AskToRead(lock[l], g)]
      /\ todo' = [todo EXCEPT ![g] = IF lock[l].writer = None THEN Tail(@) ELSE <<Act("admitted")>> \o @]
  BY <1>1, <1>2 DEF RLock, OnLock, The
<1>4. \A m \in Locks \ {l} : lock'[m] = lock[m] /\ Now(g) \notin {Read(m), Unread(m), Write(m), Unwrite(m)}
  BY <1>1, <1>2, <1>3, Places DEF Locking, LockType, RWMutex
<1>5. /\ lock[l].readers \in [Goroutines -> Nat] /\ lock[l].waiting \in SUBSET Goroutines
      /\ lock[l].writer \in Goroutines \cup {None} /\ lock'[l] = RW!AskToRead(lock[l], g)
      /\ None \notin Goroutines
  BY <1>3, UseChainAssumption DEF Locking, LockType, RWMutex
<1>6. CASE lock[l].writer = None
  <2>1. Go(g)
    BY <1>3, <1>6 DEF Go
  <2>2. Paths' /\ Moved(g)
    BY <1>3, <2>1, GoMoves DEF RLock
  <2>3. /\ lock'[l].readers = [lock[l].readers EXCEPT ![g] = @ + 1]
        /\ lock'[l].writer = None /\ lock'[l].waiting = lock[l].waiting
        /\ LockType'
    <3>1. lock[l] \in RWMutex /\ lock[l].readers[g] + 1 \in Nat
      BY <1>5 DEF Locking, LockType
    <3>2. lock'[l] = [lock[l] EXCEPT !.readers[g] = lock[l].readers[g] + 1]
      BY <1>5, <1>6 DEF RW!AskToRead
    <3>3. lock'[l] \in RWMutex /\ lock'[l].readers = [lock[l].readers EXCEPT ![g] = lock[l].readers[g] + 1]
          /\ lock'[l].writer = lock[l].writer /\ lock'[l].waiting = lock[l].waiting
      BY <3>1, <3>2, ReadersSet
    <3> QED BY <1>3, <1>6, <3>3 DEF Locking, LockType
  <2>4. \A m \in Locks \ {l}, h \in Goroutines : LockHolds(m, h)'
    BY <1>1, <1>4, <2>2, Elsewhere DEF Locking
  <2>5. \A h \in Goroutines \ {g} : LockHolds(l, h)'
    BY <1>5, <1>6, <2>2, <2>3, OtherHolds DEF LockHolds, Locking, Moved
  <2>6. LockHolds(l, g)'
    <3>1. ~AsksFor(g, l) /\ ~Announced(g, l) /\ ~HeldWrites(g, l)
      BY <1>1, <1>2, <1>5, <1>6 DEF AsksFor, Announced, Locking, LockHolds, Read, Write
    <3>2. HeldReads(g, l)' = HeldReads(g, l) + 1 /\ ~AsksFor(g, l)' /\ ~HeldWrites(g, l)' /\ HeldReads(g, l) \in Nat
      BY <1>2, <2>2, <3>1, MovedHolds DEF Read, Write
    <3> QED BY <1>5, <1>6, <2>3, <3>1, <3>2 DEF LockHolds, Locking
  <2> QED BY <2>2, <2>3, <2>4, <2>5, <2>6 DEF Locking
<1>7. CASE lock[l].writer # None
  <2>1. Paths' /\ Asking(g)
    BY <1>3, <1>7, AskingMoves DEF RLock
  <2>2. /\ lock'[l].readers = lock[l].readers /\ lock'[l].writer = lock[l].writer
        /\ lock'[l].waiting = lock[l].waiting \cup {g} /\ LockType'
    BY <1>3, <1>5, <1>7 DEF RW!AskToRead, Locking, LockType, RWMutex
  <2>3. RW!NoReaders(lock[l])' <=> RW!NoReaders(lock[l])
    BY <2>2 DEF RW!NoReaders
  <2>4. \A m \in Locks \ {l}, h \in Goroutines : LockHolds(m, h)'
    BY <1>4, <2>1, Elsewhere DEF Locking
  <2>5. \A h \in Goroutines \ {g} : LockHolds(l, h)'
    BY <2>1, <2>2, <2>3, OtherHolds DEF LockHolds, Locking, Asking
  <2>6. LockHolds(l, g)'
    <3>1. ~Announced(g, l)
      BY <1>2 DEF Announced, Read, Write
    <3> QED BY <1>2, <1>7, <2>1, <2>2, <2>3, <3>1, AskingHolds DEF LockHolds, Locking
  <2> QED BY <2>1, <2>2, <2>4, <2>5, <2>6 DEF Locking
<1> QED BY <1>6, <1>7

LEMMA AdmittedHolds ==
  ASSUME Paths, Locking, NEW g \in Goroutines, Admitted(g)
  PROVE  Paths' /\ Locking'
<1>1. Paths' /\ Moved(g) /\ Asked(g) /\ Busy(g)
  BY AdmittedMoves DEF Moved
<1>2. todo[g][2] = Now(g) /\ Now(g) \in Place /\ Now(g).act = "rlock"
  BY <1>1, Busyness
<1>3. PICK l \in Locks : Now(g) = Read(l) /\ Now(g).on = l
  BY <1>2, Places
<1>4. /\ lock' = lock /\ g \notin lock[l].waiting
      /\ \A m \in Locks \ {l} : Now(g) # Read(m)
  BY <1>2, <1>3, Places DEF Admitted
<1>5. \A m \in Locks \ {l}, h \in Goroutines : LockHolds(m, h)'
  BY <1>1, <1>4, Elsewhere DEF Locking
<1>6. RW!NoReaders(lock[l])' <=> RW!NoReaders(lock[l])
  BY <1>4 DEF RW!NoReaders
<1>7. \A h \in Goroutines \ {g} : LockHolds(l, h)'
  BY <1>1, <1>4, <1>6, OtherHolds DEF LockHolds, Locking, Moved
<1>8. LockHolds(l, g)'
  <2>1. AsksFor(g, l) /\ ~Announced(g, l)
    BY <1>1, <1>3 DEF AsksFor, Announced
  <2>2. /\ HeldReads(g, l)' = HeldReads(g, l) + 1 /\ ~AsksFor(g, l)' /\ HeldReads(g, l) \in Nat
        /\ HeldWrites(g, l)' <=> HeldWrites(g, l)
    BY <1>1, <1>3, MovedHolds DEF Read, Write, Unwrite
  <2> QED BY <1>4, <1>6, <2>1, <2>2 DEF LockHolds, Locking
<1> QED BY <1>1, <1>4, <1>5, <1>7, <1>8 DEF Locking, LockType, RWMutex

LEMMA RUnlockHolds ==
  ASSUME Paths, Locking, NEW g \in Goroutines, RUnlock(g)
  PROVE  Paths' /\ Locking'
<1>1. Busy(g) /\ ~Asked(g) /\ Now(g) = Head(todo[g]) /\ Now(g).act = "runlock" /\ Now(g) \in Place
  BY Acts DEF RUnlock
<1>2. PICK l \in Locks : Now(g) = Unread(l) /\ Now(g).on = l
  BY <1>1, Places
<1>3. /\ UNCHANGED <<calls, made>> /\ Go(g)
      /\ lock' = [lock EXCEPT ![l] = RW!StopReading(lock[l], g)]
  BY <1>1, <1>2 DEF RUnlock, OnLock, The
<1>4. \A m \in Locks \ {l} : lock'[m] = lock[m] /\ Now(g) \notin {Read(m), Unread(m), Write(m), Unwrite(m)}
  BY <1>1, <1>2, <1>3, Places DEF Locking, LockType, RWMutex
<1>5. /\ lock[l].readers \in [Goroutines -> Nat] /\ lock[l].waiting \in SUBSET Goroutines
      /\ lock[l].writer \in Goroutines \cup {None} /\ lock'[l] = RW!StopReading(lock[l], g)
  BY <1>3 DEF Locking, LockType, RWMutex
<1>6. Paths' /\ Moved(g)
  BY <1>3, GoMoves DEF RUnlock
<1>7. /\ ~AsksFor(g, l) /\ ~Announced(g, l)
  BY <1>1, <1>2 DEF AsksFor, Announced, Unread, Write
<1>8. /\ HeldReads(g, l)' = HeldReads(g, l) - 1 /\ ~AsksFor(g, l)' /\ HeldReads(g, l) \in Nat
      /\ HeldReads(g, l) > 0 /\ (HeldWrites(g, l)' <=> HeldWrites(g, l))
  BY <1>2, <1>6, MovedHolds DEF Read, Unread, Write, Unwrite
<1>9. lock[l].readers[g] = HeldReads(g, l) /\ ~RW!NoReaders(lock[l])
  BY <1>7, <1>8 DEF Locking, LockHolds, RW!NoReaders
<1>10. /\ lock'[l].readers = [lock[l].readers EXCEPT ![g] = @ - 1]
       /\ lock'[l].writer = lock[l].writer /\ lock'[l].waiting = lock[l].waiting
       /\ LockType'
  <2>1. lock[l] \in RWMutex /\ lock[l].readers[g] - 1 \in Nat
    BY <1>5, <1>8, <1>9 DEF Locking, LockType
  <2>2. lock'[l] = [lock[l] EXCEPT !.readers[g] = lock[l].readers[g] - 1]
    BY <1>5 DEF RW!StopReading
  <2>3. lock'[l] \in RWMutex /\ lock'[l].readers = [lock[l].readers EXCEPT ![g] = lock[l].readers[g] - 1]
        /\ lock'[l].writer = lock[l].writer /\ lock'[l].waiting = lock[l].waiting
    BY <2>1, <2>2, ReadersSet
  <2> QED BY <1>3, <2>3 DEF Locking, LockType
<1>11. \A m \in Locks \ {l}, h \in Goroutines : LockHolds(m, h)'
  BY <1>1, <1>4, <1>6, Elsewhere DEF Locking
<1>12. \A h \in Goroutines \ {g} : LockHolds(l, h)'
  BY <1>5, <1>6, <1>9, <1>10, OtherHolds DEF LockHolds, Locking, Moved
<1>13. LockHolds(l, g)'
  BY <1>5, <1>7, <1>8, <1>9, <1>10 DEF LockHolds, Locking
<1> QED BY <1>6, <1>10, <1>11, <1>12, <1>13 DEF Locking

LEMMA HeldNat ==
  ASSUME Paths, NEW g \in Goroutines, NEW l \in Locks
  PROVE  HeldReads(g, l) \in Nat
<1>1. ASSUME Busy(g) PROVE Reads(op(g), pc(g), l) \in Nat
  BY <1>1, Busyness, PathTable DEF P
<1> QED BY <1>1 DEF HeldReads

LEMMA AnnounceHolds ==
  ASSUME Paths, Locking, NEW g \in Goroutines, Announce(g)
  PROVE  Paths' /\ Locking'
<1>1. Busy(g) /\ ~Asked(g) /\ Now(g) = Head(todo[g]) /\ Now(g).act = "lock" /\ Now(g) \in Place
  BY Acts DEF Announce
<1>2. PICK l \in Locks : Now(g) = Write(l) /\ Now(g).on = l
  BY <1>1, Places
<1>3. /\ UNCHANGED <<calls, made, todo>> /\ lock[l].writer = None
      /\ lock' = [lock EXCEPT ![l] = RW!Announce(lock[l], g)]
  BY <1>1, <1>2 DEF Announce, OnLock, The
<1>4. /\ lock'[l].readers = lock[l].readers /\ lock'[l].writer = g
      /\ lock'[l].waiting = lock[l].waiting /\ LockType'
      /\ \A m \in Locks \ {l} : lock'[m] = lock[m]
  BY <1>3 DEF RW!Announce, Locking, LockType, RWMutex
<1>5. \A h \in Goroutines, m \in Locks :
        /\ HeldReads(h, m)' = HeldReads(h, m) /\ (HeldWrites(h, m)' <=> HeldWrites(h, m))
        /\ (AsksFor(h, m)' <=> AsksFor(h, m)) /\ (Announced(h, m)' <=> Announced(h, m))
  BY <1>3, Stays DEF HeldReads, HeldWrites, AsksFor, Announced
<1>6. \A m \in Locks \ {l}, h \in Goroutines : LockHolds(m, h)'
  BY <1>4, <1>5 DEF Locking, LockHolds, RW!NoReaders
<1>7. \A h \in Goroutines : LockHolds(l, h)'
  <2>1. Announced(g, l) /\ None \notin Goroutines
    BY <1>1, <1>2, UseChainAssumption DEF Announced
  <2> QED BY <1>3, <1>4, <1>5, <2>1 DEF Locking, LockHolds
<1>8. Paths'
  BY <1>3, Stays DEF Paths, PlanOK
<1> QED BY <1>4, <1>6, <1>7, <1>8 DEF Locking

LEMMA LockGoesOn ==
  ASSUME Paths, Locking, NEW g \in Goroutines, Lock(g)
  PROVE  Paths' /\ Locking'
<1>1. Busy(g) /\ ~Asked(g) /\ Now(g) = Head(todo[g]) /\ Now(g).act = "lock" /\ Now(g) \in Place
  BY Acts DEF Lock
<1>2. PICK l \in Locks : Now(g) = Write(l) /\ Now(g).on = l
  BY <1>1, Places
<1>3. /\ UNCHANGED <<calls, made, lock>> /\ Go(g) /\ lock[l].writer = g /\ RW!NoReaders(lock[l])
  BY <1>1, <1>2 DEF Lock, The
<1>4. \A m \in Locks \ {l} : Now(g) \notin {Read(m), Unread(m), Write(m), Unwrite(m)}
  BY <1>1, <1>2, Places
<1>5. Paths' /\ Moved(g)
  BY <1>3, GoMoves DEF Lock
<1>6. RW!NoReaders(lock[l])' <=> RW!NoReaders(lock[l])
  BY <1>3 DEF RW!NoReaders
<1>7. \A m \in Locks \ {l}, h \in Goroutines : LockHolds(m, h)'
  BY <1>1, <1>3, <1>4, <1>5, Elsewhere DEF Locking
<1>8. \A h \in Goroutines \ {g} : LockHolds(l, h)'
  BY <1>3, <1>5, <1>6, OtherHolds DEF LockHolds, Locking, Moved
<1>9. LockHolds(l, g)'
  <2>1. ~AsksFor(g, l)
    BY <1>1 DEF AsksFor
  <2>2. /\ HeldReads(g, l)' = HeldReads(g, l) /\ ~AsksFor(g, l)' /\ HeldWrites(g, l)'
    BY <1>2, <1>5, MovedHolds DEF Read, Unread, Write, Unwrite
  <2> QED BY <1>3, <1>6, <2>1, <2>2 DEF LockHolds, Locking
<1> QED BY <1>3, <1>5, <1>7, <1>8, <1>9 DEF Locking, LockType, RWMutex

LEMMA UnlockHolds ==
  ASSUME Paths, Locking, NEW g \in Goroutines, Unlock(g)
  PROVE  Paths' /\ Locking'
<1>1. Busy(g) /\ ~Asked(g) /\ Now(g) = Head(todo[g]) /\ Now(g).act = "unlock" /\ Now(g) \in Place
  BY Acts DEF Unlock
<1>2. PICK l \in Locks : Now(g) = Unwrite(l) /\ Now(g).on = l
  BY <1>1, Places
<1>3. /\ UNCHANGED <<calls, made>> /\ Go(g)
      /\ lock' = [lock EXCEPT ![l] = RW!StopWriting(lock[l])]
  BY <1>1, <1>2 DEF Unlock, OnLock, The
<1>4. \A m \in Locks \ {l} : lock'[m] = lock[m] /\ Now(g) \notin {Read(m), Unread(m), Write(m), Unwrite(m)}
  BY <1>1, <1>2, <1>3, Places DEF Locking, LockType, RWMutex
<1>5. Paths' /\ Moved(g)
  BY <1>3, GoMoves DEF Unlock
<1>6. /\ lock[l].readers \in [Goroutines -> Nat] /\ lock[l].waiting \in SUBSET Goroutines
      /\ lock'[l] = RW!StopWriting(lock[l]) /\ None \notin Goroutines
  BY <1>3, UseChainAssumption DEF Locking, LockType, RWMutex
<1>7. /\ HeldReads(g, l)' = HeldReads(g, l) /\ ~AsksFor(g, l)' /\ HeldWrites(g, l) /\ ~HeldWrites(g, l)'
      /\ ~AsksFor(g, l)
  <2>1. ~AsksFor(g, l)
    BY <1>1 DEF AsksFor
  <2> QED BY <1>2, <1>5, <2>1, MovedHolds DEF Read, Unread, Write, Unwrite
<1>8. lock[l].writer = g /\ \A h \in Goroutines : lock[l].readers[h] = 0
  BY <1>7 DEF Locking, LockHolds, RW!NoReaders
<1>9. /\ lock'[l].readers = [h \in Goroutines |-> IF h \in lock[l].waiting THEN 1 ELSE 0]
      /\ lock'[l].writer = None /\ lock'[l].waiting = {}
  BY <1>6, <1>8 DEF RW!StopWriting
<1>10. LockType'
  <2>1. lock'[l] \in RWMutex
    BY <1>6, <1>8 DEF RW!StopWriting, RWMutex
  <2> QED BY <1>3, <2>1 DEF Locking, LockType
<1>11. \A h \in Goroutines :
         /\ HeldReads(h, l) = 0 /\ (h \in lock[l].waiting <=> AsksFor(h, l))
  <2> SUFFICES ASSUME NEW h \in Goroutines
               PROVE  HeldReads(h, l) = 0 /\ (h \in lock[l].waiting <=> AsksFor(h, l))
    OBVIOUS
  <2>1. HeldReads(h, l) \in Nat
    BY HeldNat
  <2>2. /\ 0 = HeldReads(h, l) + (IF AsksFor(h, l) /\ h \notin lock[l].waiting THEN 1 ELSE 0)
        /\ h \in lock[l].waiting => AsksFor(h, l)
    BY <1>8 DEF Locking, LockHolds
  <2> QED BY <2>1, <2>2
<1>12. \A m \in Locks \ {l}, h \in Goroutines : LockHolds(m, h)'
  BY <1>1, <1>4, <1>5, Elsewhere DEF Locking
<1>13. \A h \in Goroutines \ {g} : LockHolds(l, h)'
  <2> SUFFICES ASSUME NEW h \in Goroutines \ {g} PROVE LockHolds(l, h)'
    OBVIOUS
  <2>1. ~HeldWrites(h, l)
    BY <1>8 DEF Locking, LockHolds
  <2>2. HeldReads(h, l)' = 0 /\ (AsksFor(h, l)' <=> AsksFor(h, l)) /\ ~HeldWrites(h, l)'
    BY <1>5, <1>11, <2>1, OtherHolds DEF Moved
  <2> QED BY <1>6, <1>9, <1>11, <2>2 DEF LockHolds
<1>14. LockHolds(l, g)'
  BY <1>6, <1>7, <1>9, <1>11 DEF LockHolds
<1> QED BY <1>5, <1>10, <1>12, <1>13, <1>14 DEF Locking

LEMMA CallHolds ==
  ASSUME Paths, Locking, NEW g \in Goroutines, Call(g)
  PROVE  Paths' /\ Locking'
<1>1. Paths' /\ Called(g) /\ lock' = lock
  BY CallMoves DEF Call
<1>2. \A l \in Locks, h \in Goroutines : LockHolds(l, h)'
  BY <1>1, Elsewhere DEF Locking
<1> QED BY <1>1, <1>2 DEF Locking, LockType, RWMutex

LEMMA ActHolds ==
  ASSUME Paths, Locking, NEW g \in Goroutines, NEW a \in Edits \cup {"front", "look"}, At(g, a), Go(g),
         UNCHANGED <<calls, made, lock>>
  PROVE  Paths' /\ Locking' /\ Moved(g)
<1>1. a # "admitted"
  BY DEF Edits
<1>2. Busy(g) /\ ~Asked(g) /\ Now(g).act = a /\ Now(g) \in Place
  BY <1>1, Acts
<1>3. Paths' /\ Moved(g)
  BY <1>1, GoMoves
<1>4. \A l \in Locks : Now(g) \notin {Read(l), Unread(l), Write(l), Unwrite(l)}
  BY <1>2, Places DEF Edits
<1>5. \A l \in Locks, h \in Goroutines : LockHolds(l, h)'
  BY <1>2, <1>3, <1>4, Elsewhere DEF Locking
<1> QED BY <1>3, <1>5 DEF Locking, LockType, RWMutex

LEMMA NothingHolds ==
  ASSUME Paths, Locking, UNCHANGED <<calls, made, todo, lock>>
  PROVE  Paths' /\ Locking'
<1>1. \A g \in Goroutines, l \in Locks : LockHolds(l, g)'
  <2> SUFFICES ASSUME NEW g \in Goroutines, NEW l \in Locks PROVE LockHolds(l, g)'
    OBVIOUS
  <2>1. /\ HeldReads(g, l)' = HeldReads(g, l) /\ (HeldWrites(g, l)' <=> HeldWrites(g, l))
        /\ (AsksFor(g, l)' <=> AsksFor(g, l)) /\ (Announced(g, l)' <=> Announced(g, l))
    BY Stays DEF HeldReads, HeldWrites, AsksFor, Announced
  <2> QED BY <2>1 DEF Locking, LockHolds, RW!NoReaders
<1>2. Paths'
  BY Stays DEF Paths, PlanOK
<1> QED BY <1>1, <1>2 DEF Locking, LockType, RWMutex

(* A change of the chain is made at one of these places. *)
Changes(g) ==
  /\ \E a \in Edits \cup {"front"} : At(g, a)
  /\ Go(g) /\ UNCHANGED <<calls, made, lock, seen, found>>

LEMMA EditsAre ==
  ASSUME NEW g \in Goroutines
  PROVE  uc_add(g) \/ uc_remove(g) \/ uc_front(g) \/ uc_reset(g) \/ ucs_push(g) \/ ucs_pop(g) => Changes(g)
<1> USE DEF Changes, Edits, Nothing, Changed, Made, Appended
<1>1. uc_add(g) => Changes(g)
  BY DEF uc_add
<1>2. uc_remove(g) => Changes(g)
  BY DEF uc_remove
<1>3. uc_front(g) => Changes(g)
  BY DEF uc_front
<1>4. uc_reset(g) => Changes(g)
  BY DEF uc_reset
<1>5. ucs_push(g) => Changes(g)
  BY DEF ucs_push
<1>6. ucs_pop(g) => Changes(g)
  BY DEF ucs_pop
<1> QED BY <1>1, <1>2, <1>3, <1>4, <1>5, <1>6

LEMMA StepHolds ==
  ASSUME Paths, Locking, NEW g \in Goroutines, Step(g)
  PROVE  Paths' /\ Locking'
<1>1. CASE Changes(g)
  BY <1>1, ActHolds DEF Changes
<1>2. CASE uc_match(g)
  <2>1. CASE Len(seen[g]) < uchain.len
    BY <1>2, <2>1, NothingHolds DEF uc_match
  <2>2. CASE ~(Len(seen[g]) < uchain.len)
    <3>1. At(g, "look") /\ Go(g) /\ UNCHANGED <<calls, made, lock>>
      BY <1>2, <2>2 DEF uc_match
    <3> QED BY <3>1, ActHolds
  <2> QED BY <2>1, <2>2
<1> QED BY <1>1, <1>2, EditsAre, CallHolds, RLockHolds, AdmittedHolds, RUnlockHolds, AnnounceHolds,
           LockGoesOn, UnlockHolds DEF Step

LEMMA InitHolds == Init => Paths /\ Locking
<1> SUFFICES ASSUME Init PROVE Paths /\ Locking
  OBVIOUS
<1>1. \A g \in Goroutines : todo[g] = <<>> /\ made[g] = 0 /\ ~Busy(g)
  BY DEF Init, Busy
<1>2. PlanOK
  <2>1. calls \in [Goroutines -> Seq([op : Ops, name : Names])]
    BY UseChainAssumption DEF Init, Ops, Edits
  <2>2. \A T : <<>> \in Seq(T)
    OBVIOUS
  <2> QED BY <2>1, <2>2 DEF PlanOK, Init
<1>3. Paths
  <2> SUFFICES ASSUME NEW g \in Goroutines PROVE made[g] <= Len(calls[g]) /\ OnPath(g)
    BY <1>2 DEF Paths
  <2>1. calls[g] \in Seq([op : Ops, name : Names])
    BY <1>2 DEF PlanOK
  <2>2. Len(calls[g]) \in Nat
    BY <2>1, LenProperties
  <2>3. OnPath(g)
    BY <1>1 DEF OnPath
  <2> QED BY <1>1, <2>2, <2>3
<1>4. Locking
  <2>1. lock = [l \in Locks |-> RW!Free]
    BY DEF Init, Locks
  <2>2. RW!Free \in RWMutex /\ RW!NoReaders(RW!Free) /\ RW!Free.waiting = {} /\ RW!Free.writer = None
        /\ \A g \in Goroutines : RW!Free.readers[g] = 0
    BY DEF RW!Free, RWMutex, RW!NoReaders
  <2> QED BY <1>1, <2>1, <2>2, UseChainAssumption DEF Locking, LockType, LockHolds, HeldReads, HeldWrites,
             AsksFor, Announced
<1> QED BY <1>3, <1>4

(* The locks are held where the paths say: a goroutine that writes is      *)
(* alone, and a lock has as many readers as the calls that read under it   *)
(* and those that it let in.                                               *)
THEOREM LocksHold == Spec => [](Paths /\ Locking)
<1>1. Paths /\ Locking /\ [Next]_vars => Paths' /\ Locking'
  <2>1. Paths /\ Locking /\ UNCHANGED vars => Paths' /\ Locking'
    BY NothingHolds DEF vars
  <2> QED BY <2>1, StepHolds DEF Next
<1> QED BY <1>1, InitHolds, PTL DEF Spec

-----------------------------------------------------------------------------
(* Where the program can hang *)

WaitsFor(g, l) ==
  /\ Busy(g) /\ lock[l].writer # None
  /\ \/ AsksFor(g, l) /\ g \in lock[l].waiting
     \/ Announced(g, l) /\ ~(lock[l].writer = g /\ RW!NoReaders(lock[l]))

LEMMA WaitsAre ==
  ASSUME Paths, Locking, NEW g \in Goroutines, Waits(g)
  PROVE  \E l \in Locks : WaitsFor(g, l) /\ Now(g) \in {Read(l), Write(l)}
<1>1. CASE At(g, "admitted") /\ g \in lock[todo[g][2].on].waiting
  <2>1. Busy(g) /\ Asked(g)
    BY <1>1 DEF At, Busy, Asked
  <2>2. todo[g][2] = Now(g) /\ Now(g) \in Place /\ Now(g).act = "rlock"
    BY <2>1, Busyness
  <2>3. PICK l \in Locks : Now(g) = Read(l) /\ Now(g).on = l
    BY <2>2, Places
  <2>4. g \in lock[l].waiting /\ lock[l].writer # None /\ AsksFor(g, l)
    BY <1>1, <2>2, <2>3 DEF Locking, LockHolds
  <2> QED BY <2>1, <2>3, <2>4 DEF WaitsFor
<1>2. CASE At(g, "lock") /\ The(g).writer # None /\ ~(The(g).writer = g /\ RW!NoReaders(The(g)))
  <2>1. Busy(g) /\ ~Asked(g) /\ Now(g) = Head(todo[g]) /\ Now(g).act = "lock" /\ Now(g) \in Place
    BY <1>2, Acts
  <2>2. PICK l \in Locks : Now(g) = Write(l) /\ Now(g).on = l
    BY <2>1, Places
  <2>3. The(g) = lock[l]
    BY <2>1, <2>2 DEF The
  <2> QED BY <1>2, <2>1, <2>2, <2>3 DEF WaitsFor, Announced
<1> QED BY <1>1, <1>2 DEF Waits

LEMMA HangsOnlyInEnumNow ==
  ASSUME Paths, Locking
  PROVE  StuckOnlyInEnum
<1> SUFFICES ASSUME Stuck, \A g \in Goroutines : ~(HoldsInEnum(g) /\ Waits(g)) PROVE FALSE
  BY DEF StuckOnlyInEnum
<1>1. \A g \in Goroutines : Busy(g) => Waits(g)
  BY DEF Stuck
<1>2. ASSUME NEW g \in Goroutines, Busy(g)
      PROVE  /\ \E l \in Locks : WaitsFor(g, l) /\ Now(g) \in {Read(l), Write(l)}
             /\ Now(g).act \in {"rlock", "lock"} /\ pc(g) \in 1..Len(P(g)) /\ op(g) \in Ops
             /\ Now(g) = Path(op(g))[pc(g)]
  <2>1. PICK l \in Locks : WaitsFor(g, l) /\ Now(g) \in {Read(l), Write(l)}
    BY <1>1, <1>2, WaitsAre
  <2>2. Now(g).act \in {"rlock", "lock"}
    BY <2>1 DEF Read, Write
  <2> QED BY <1>2, <2>1, <2>2, Busyness DEF Now, P
<1>3. ASSUME NEW g \in Goroutines, Busy(g), NEW l \in Locks, AsksFor(g, l)
      PROVE  g \in lock[l].waiting
  <2>1. PICK m \in Locks : WaitsFor(g, m) /\ Now(g) \in {Read(m), Write(m)}
    BY <1>2, <1>3
  <2>2. Now(g) = Read(l) /\ m = l
    BY <1>3, <2>1 DEF AsksFor, Read, Write
  <2>3. ~Announced(g, l)
    BY <2>2 DEF Announced, Read, Write
  <2> QED BY <2>1, <2>2, <2>3 DEF WaitsFor
<1>4. ASSUME NEW l \in Locks, NEW g \in Goroutines, lock[l].readers[g] # 0
      PROVE  Busy(g) /\ Reads(op(g), pc(g), l) > 0
  <2>1. lock[l].readers[g] = HeldReads(g, l) + (IF AsksFor(g, l) /\ g \notin lock[l].waiting THEN 1 ELSE 0)
    BY DEF Locking, LockHolds
  <2>2. ~(AsksFor(g, l) /\ g \notin lock[l].waiting)
    BY <1>3 DEF AsksFor
  <2>3. HeldReads(g, l) \in Nat
    BY HeldNat
  <2>4. HeldReads(g, l) > 0
    BY <1>4, <2>1, <2>2, <2>3
  <2> QED BY <2>4 DEF HeldReads
<1>5. ASSUME NEW l \in Locks, \A g \in Goroutines : lock[l].readers[g] = 0
      PROVE  \A g \in Goroutines : ~WaitsFor(g, l)
  <2> SUFFICES ASSUME lock[l].writer # None PROVE FALSE
    BY DEF WaitsFor
  <2> DEFINE w == lock[l].writer
  <2>1. w \in Goroutines
    BY DEF Locking, LockType, RWMutex
  <2>2. HeldWrites(w, l) \/ Announced(w, l)
    BY <2>1 DEF Locking, LockHolds
  <2>3. CASE HeldWrites(w, l)
    <3>1. Busy(w) /\ Writes(op(w), pc(w), l)
      BY <2>3 DEF HeldWrites
    <3>2. /\ Now(w).act \in {"rlock", "lock"} /\ pc(w) \in 1..Len(P(w)) /\ op(w) \in Ops
          /\ Now(w) = Path(op(w))[pc(w)]
      BY <1>2, <2>1, <3>1
    <3>3. Now(w).act \notin {"rlock", "lock"}
      <4> HIDE DEF w
      <4> QED BY <3>1, <3>2, PathTable DEF P
    <3> QED BY <3>2, <3>3
  <2>4. CASE Announced(w, l)
    <3>1. Busy(w) /\ ~Asked(w) /\ Now(w) = Write(l)
      BY <2>4 DEF Announced
    <3>2. PICK m \in Locks : WaitsFor(w, m) /\ Now(w) \in {Read(m), Write(m)}
      BY <1>2, <2>1, <3>1
    <3>3. m = l /\ ~AsksFor(w, l)
      BY <3>1, <3>2 DEF Read, Write, AsksFor
    <3>4. ~RW!NoReaders(lock[l])
      BY <3>2, <3>3 DEF WaitsFor
    <3> QED BY <1>5, <3>4 DEF RW!NoReaders
  <2> QED BY <2>2, <2>3, <2>4
<1>6. "glob" \in Locks /\ "chain" \in Locks
  BY DEF Locks
<1>7. \A g \in Goroutines : lock["glob"].readers[g] = 0
  <2> SUFFICES ASSUME NEW g \in Goroutines, lock["glob"].readers[g] # 0 PROVE FALSE
    OBVIOUS
  <2>1. Busy(g) /\ Reads(op(g), pc(g), "glob") > 0
    BY <1>4, <1>6
  <2>2. op(g) = "enum"
    BY <1>2, <2>1, PathTable DEF P
  <2>3. lock["glob"].readers[g] > 0
    BY <1>6 DEF Locking, LockType, RWMutex
  <2> QED BY <1>1, <2>1, <2>2, <2>3 DEF HoldsInEnum
<1>8. \A g \in Goroutines : ~WaitsFor(g, "glob")
  BY <1>5, <1>6, <1>7
<1>9. \A g \in Goroutines : lock["chain"].readers[g] = 0
  <2> SUFFICES ASSUME NEW g \in Goroutines, lock["chain"].readers[g] # 0 PROVE FALSE
    OBVIOUS
  <2>1. Busy(g) /\ Reads(op(g), pc(g), "chain") > 0
    BY <1>4, <1>6
  <2>2. Now(g) = Read("glob")
    BY <1>2, <2>1, PathTable DEF P
  <2>3. PICK m \in Locks : WaitsFor(g, m) /\ Now(g) \in {Read(m), Write(m)}
    BY <1>2, <2>1
  <2>4. m = "glob"
    BY <2>2, <2>3 DEF Read, Write
  <2> QED BY <1>8, <2>3, <2>4
<1>10. \A g \in Goroutines : ~WaitsFor(g, "chain")
  BY <1>5, <1>6, <1>9
<1>11. \A g \in Goroutines : ~Busy(g)
  BY <1>2, <1>8, <1>10 DEF Locks
<1> QED BY <1>11 DEF Stuck

(* If no goroutine can take a step and a call has not returned, a lookup   *)
(* of an enum holds globlock for reading and waits: the second RLock of    *)
(* globlock in uc_match_enum, and that of chainlock under it, are the only *)
(* places where the two locks can stop the program.                        *)
THEOREM HangsOnlyInEnum == Spec => []StuckOnlyInEnum
BY LocksHold, HangsOnlyInEnumNow, PTL

-----------------------------------------------------------------------------
(* Names in sequences *)

OnceIn(s) == \A i, j \in 1..Len(s) : s[i] = s[j] => i = j

LEMMA LeastNat ==
  ASSUME NEW I \in SUBSET Nat, I # {}
  PROVE  Min(I) \in I
<1>1. IsWellFoundedOn(OpToRel(<, Nat), Nat)
  BY NatLessThanWellFounded
<1>2. PICK x \in I : \A y \in I : ~(<<y, x>> \in OpToRel(<, Nat))
  BY <1>1, WFMin
<1>3. \A y \in I : x <= y
  <2> SUFFICES ASSUME NEW y \in I, y < x PROVE FALSE
    OBVIOUS
  <2>1. <<y, x>> \in Nat \X Nat /\ <<y, x>>[1] = y /\ <<y, x>>[2] = x
    OBVIOUS
  <2>2. <<y, x>> \in OpToRel(<, Nat)
    BY <2>1 DEF OpToRel
  <2> QED BY <1>2, <2>2
<1> QED BY <1>2, <1>3 DEF Min

(* What is left of a sequence without one occurrence of a name. *)
LEMMA RemoveFirstIs ==
  ASSUME NEW T, NEW s \in Seq(T), NEW e, Contains(s, e)
  PROVE  \E p \in 1..Len(s) :
           /\ s[p] = e /\ RemoveFirst(s, e) \in Seq(T) /\ Len(RemoveFirst(s, e)) = Len(s) - 1
           /\ \A i \in 1..(Len(s) - 1) : RemoveFirst(s, e)[i] = IF i < p THEN s[i] ELSE s[i + 1]
<1> DEFINE I == {i \in 1..Len(s) : s[i] = e}
           p == Min(I)
<1>1. Len(s) \in Nat /\ I # {} /\ I \in SUBSET Nat
  BY LenProperties DEF Contains
<1>2. p \in I
  BY <1>1, LeastNat
<1>3. p \in 1..Len(s) /\ s[p] = e
  BY <1>2
<1>4. RemoveFirst(s, e) = SubSeq(s, 1, p - 1) \o SubSeq(s, p + 1, Len(s))
  <2>1. SelectInSeq(s, LAMBDA v : v = e) = p
    BY <1>1 DEF SelectInSeq
  <2> HIDE DEF p, I
  <2> QED BY <2>1 DEF RemoveFirst, RemoveAt, Contains
<1> HIDE DEF I, p
<1> DEFINE t == SubSeq(s, 1, p - 1)  u == SubSeq(s, p + 1, Len(s))
<1>5. /\ t \in Seq(T) /\ Len(t) = p - 1 /\ \A i \in 1..(p - 1) : t[i] = s[i]
  <2>1. \A i \in 1..(p - 1) : s[i] \in T
    BY <1>1, <1>3, ElementOfSeq
  <2>2. /\ t \in Seq(T) /\ Len(t) = IF 1 <= p - 1 THEN p - 1 - 1 + 1 ELSE 0
        /\ \A i \in 1..(p - 1 - 1 + 1) : t[i] = s[1 + i - 1]
    BY <1>1, <1>3, <2>1, SubSeqProperties
  <2> QED BY <1>1, <1>3, <2>2
<1>6. /\ u \in Seq(T) /\ Len(u) = Len(s) - p /\ \A i \in 1..(Len(s) - p) : u[i] = s[p + i]
  <2>1. \A i \in (p + 1)..Len(s) : s[i] \in T
    BY <1>1, <1>3, ElementOfSeq
  <2>2. /\ u \in Seq(T) /\ Len(u) = IF p + 1 <= Len(s) THEN Len(s) - (p + 1) + 1 ELSE 0
        /\ \A i \in 1..(Len(s) - (p + 1) + 1) : u[i] = s[p + 1 + i - 1]
    BY <1>1, <1>3, <2>1, SubSeqProperties
  <2> QED BY <1>1, <1>3, <2>2
<1> HIDE DEF t, u
<1>7. /\ t \o u \in Seq(T) /\ Len(t \o u) = Len(t) + Len(u)
      /\ \A i \in 1..Len(t) : (t \o u)[i] = t[i]
      /\ \A i \in 1..Len(u) : (t \o u)[Len(t) + i] = u[i]
  <2>1. t \in Seq(T) /\ u \in Seq(T)
    BY <1>5, <1>6
  <2> QED BY <2>1, ConcatAt
<1> DEFINE r == t \o u
<1>8. RemoveFirst(s, e) = r
  BY <1>4 DEF t, u
<1> HIDE DEF r
<1>9. /\ r \in Seq(T) /\ Len(r) = Len(s) - 1
      /\ \A i \in 1..(p - 1) : r[i] = s[i]
      /\ \A i \in 1..(Len(s) - p) : r[(p - 1) + i] = s[p + i]
  BY <1>1, <1>3, <1>5, <1>6, <1>7 DEF r
<1>10. \A i \in 1..(Len(s) - 1) : r[i] = IF i < p THEN s[i] ELSE s[i + 1]
  <2> SUFFICES ASSUME NEW i \in 1..(Len(s) - 1) PROVE r[i] = IF i < p THEN s[i] ELSE s[i + 1]
    OBVIOUS
  <2>1. CASE i < p
    BY <1>1, <1>3, <1>9, <2>1
  <2>2. CASE ~(i < p)
    <3>1. /\ i - p + 1 \in 1..(Len(s) - p) /\ (p - 1) + (i - p + 1) = i /\ p + (i - p + 1) = i + 1
      BY <1>1, <1>3, <2>2
    <3>2. r[(p - 1) + (i - p + 1)] = s[p + (i - p + 1)]
      BY <1>9, <3>1
    <3> QED BY <2>2, <3>1, <3>2
  <2> QED BY <2>1, <2>2
<1> QED BY <1>3, <1>8, <1>9, <1>10

LEMMA OnceWithout ==
  ASSUME NEW T, NEW s \in Seq(T), NEW e, Contains(s, e), OnceIn(s)
  PROVE  OnceIn(RemoveFirst(s, e)) /\ ~Contains(RemoveFirst(s, e), e)
<1> DEFINE r == RemoveFirst(s, e)
<1>0. \E p \in 1..Len(s) :
         /\ s[p] = e /\ r \in Seq(T) /\ Len(r) = Len(s) - 1
         /\ \A i \in 1..(Len(s) - 1) : r[i] = IF i < p THEN s[i] ELSE s[i + 1]
  BY ONLY RemoveFirstIs, s \in Seq(T), Contains(s, e)
<1> HIDE DEF r
<1>1. PICK p \in 1..Len(s) :
         /\ s[p] = e /\ r \in Seq(T) /\ Len(r) = Len(s) - 1
         /\ \A i \in 1..(Len(s) - 1) : r[i] = IF i < p THEN s[i] ELSE s[i + 1]
  BY <1>0
<1>2. Len(s) \in Nat
  BY LenProperties
<1> DEFINE at(i) == IF i < p THEN i ELSE i + 1
<1>3. \A i \in 1..Len(r) : r[i] = s[at(i)] /\ at(i) \in 1..Len(s) /\ at(i) # p
  BY <1>1, <1>2
<1>4. \A i, j \in 1..Len(r) : at(i) = at(j) => i = j
  BY <1>1, <1>2
<1> HIDE DEF at
<1>5. OnceIn(r)
  BY <1>3, <1>4 DEF OnceIn
<1>6. ~Contains(r, e)
  BY <1>1, <1>3 DEF OnceIn, Contains
<1> QED BY <1>5, <1>6 DEF r

LEMMA OnceBehind ==
  ASSUME NEW T, NEW s \in Seq(T), NEW e \in T, ~Contains(s, e), OnceIn(s)
  PROVE  OnceIn(Append(s, e))
<1> DEFINE r == Append(s, e)
<1>1. /\ r \in Seq(T) /\ Len(r) = Len(s) + 1 /\ Len(s) \in Nat
      /\ \A i \in 1..Len(s) : r[i] = s[i]
      /\ r[Len(s) + 1] = e
  BY AppendProperties, LenProperties
<1> HIDE DEF r
<1>2. \A i, j \in 1..Len(r) : r[i] = r[j] => i = j
  <2> SUFFICES ASSUME NEW i \in 1..Len(r), NEW j \in 1..Len(r), r[i] = r[j] PROVE i = j
    OBVIOUS
  <2>1. i \in 1..Len(s) \/ i = Len(s) + 1
    BY <1>1
  <2>2. j \in 1..Len(s) \/ j = Len(s) + 1
    BY <1>1
  <2> QED BY <1>1, <2>1, <2>2 DEF Contains, OnceIn
<1> QED BY <1>2 DEF OnceIn, r

LEMMA InFront ==
  ASSUME NEW T, NEW s \in Seq(T), NEW e \in T
  PROVE  LET r == <<e>> \o s
         IN  /\ r \in Seq(T) /\ Len(r) = Len(s) + 1 /\ r[1] = e
             /\ \A i \in 1..Len(s) : r[i + 1] = s[i]
<1> DEFINE o == <<e>>
<1>1. o \in Seq(T) /\ Len(o) = 1 /\ o[1] = e
  OBVIOUS
<1> HIDE DEF o
<1>2. Len(s) \in Nat
  BY LenProperties
<1>3. /\ o \o s \in Seq(T) /\ Len(o \o s) = Len(o) + Len(s)
      /\ \A i \in 1..Len(o) : (o \o s)[i] = o[i]
      /\ \A i \in 1..Len(s) : (o \o s)[Len(o) + i] = s[i]
  BY <1>1, ConcatAt
<1> DEFINE r == o \o s
<1> HIDE DEF r
<1>4. /\ r \in Seq(T) /\ Len(r) = Len(s) + 1 /\ r[1] = e
      /\ \A i \in 1..Len(s) : r[1 + i] = s[i]
  BY <1>1, <1>2, <1>3 DEF r
<1>5. \A i \in 1..Len(s) : 1 + i = i + 1
  BY <1>2
<1>6. \A i \in 1..Len(s) : r[i + 1] = s[i]
  BY <1>4, <1>5
<1>7. r = <<e>> \o s
  BY DEF r, o
<1> QED BY <1>4, <1>6, <1>7

LEMMA OnceInFront ==
  ASSUME NEW T, NEW s \in Seq(T), NEW e \in T, ~Contains(s, e), OnceIn(s)
  PROVE  OnceIn(<<e>> \o s)
<1> DEFINE r == <<e>> \o s
<1>1. /\ Len(r) = Len(s) + 1 /\ Len(s) \in Nat /\ r[1] = e
      /\ \A i \in 1..Len(s) : r[i + 1] = s[i]
  BY InFront, LenProperties
<1> HIDE DEF r
<1>2. \A i \in 1..Len(r) : i = 1 \/ (i - 1 \in 1..Len(s) /\ r[i] = s[i - 1])
  <2> SUFFICES ASSUME NEW i \in 1..Len(r), i # 1 PROVE i - 1 \in 1..Len(s) /\ r[i] = s[i - 1]
    OBVIOUS
  <2>1. i - 1 \in 1..Len(s) /\ (i - 1) + 1 = i
    BY <1>1
  <2>2. r[(i - 1) + 1] = s[i - 1]
    BY <1>1, <2>1
  <2> QED BY <2>1, <2>2
<1>3. \A i, j \in 1..Len(r) : r[i] = r[j] => i = j
  <2> SUFFICES ASSUME NEW i \in 1..Len(r), NEW j \in 1..Len(r), r[i] = r[j] PROVE i = j
    OBVIOUS
  <2>1. CASE i = 1 /\ j = 1
    BY <2>1
  <2>2. CASE i # 1 /\ j # 1
    <3>1. i - 1 = j - 1
      BY <1>2, <2>2 DEF OnceIn
    <3> QED BY <1>1, <3>1
  <2>3. CASE (i = 1 /\ j # 1) \/ (i # 1 /\ j = 1)
    BY <1>1, <1>2, <2>3 DEF Contains
  <2> QED BY <2>1, <2>2, <2>3
<1> QED BY <1>3 DEF OnceIn, r

-----------------------------------------------------------------------------
(* Arrays and slices *)

Arrays == Seq(Names \cup {None})
Slice == [array : Nat \ {0}, len : Nat]
SliceOK(s) == s.array \in 1..Len(heap) /\ s.len <= Len(heap[s.array])
                /\ \A i \in 1..s.len : heap[s.array][i] \in Names

(* Of the slices of an array, the later pushed is the longer, and the one  *)
(* in use the longest: an append writes behind all of them.                *)
Nested ==
  /\ \A i \in 1..Len(ustack) : ustack[i].array = uchain.array => ustack[i].len <= uchain.len
  /\ \A i, j \in 1..Len(ustack) :
       i < j /\ ustack[i].array = ustack[j].array => ustack[j].len <= ustack[i].len

Slices ==
  /\ heap \in Seq(Arrays)
  /\ uchain \in Slice /\ ustack \in Seq(Slice)
  /\ SliceOK(uchain) /\ \A i \in 1..Len(ustack) : SliceOK(ustack[i])
  /\ Nested

(* A change of the arrays that leaves what the slices show. *)
Keeps ==
  /\ heap' \in Seq(Arrays) /\ Len(heap') >= Len(heap)
  /\ \A k \in 1..Len(heap) :
       /\ Len(heap'[k]) = Len(heap[k])
       /\ \A i \in 1..Len(heap[k]) : (k = uchain.array => i <= uchain.len) => heap'[k][i] = heap[k][i]

(* The chain has become these names, in an array of its own or further on  *)
(* in the one it was in.                                                   *)
NewChain(names) ==
  /\ Keeps
  /\ uchain' \in Slice /\ uchain'.len = Len(names) /\ names \in Seq(Names)
  /\ uchain'.array \in 1..Len(heap') /\ uchain'.len <= Len(heap'[uchain'.array])
  /\ \A i \in 1..Len(names) : heap'[uchain'.array][i] = names[i]
  /\ uchain'.array > Len(heap) \/ (uchain'.array = uchain.array /\ uchain'.len >= uchain.len)

Same          == UNCHANGED <<heap, uchain, ustack>>
Renewed(names) == NewChain(names) /\ ustack' = ustack
Pushed        == heap' = heap /\ uchain' = uchain /\ ustack' = <<uchain>> \o ustack
Popped        == ustack # <<>> /\ heap' = heap /\ uchain' = Head(ustack) /\ ustack' = Tail(ustack)

LEMMA FirstNames ==
  ASSUME NEW h, NEW n \in Nat, \A i \in 1..n : h[i] \in Names
  PROVE  /\ SubSeq(h, 1, n) \in Seq(Names) /\ Len(SubSeq(h, 1, n)) = n
         /\ \A i \in 1..n : SubSeq(h, 1, n)[i] = h[i]
<1>1. /\ SubSeq(h, 1, n) \in Seq(Names)
      /\ Len(SubSeq(h, 1, n)) = IF 1 <= n THEN n - 1 + 1 ELSE 0
      /\ \A i \in 1..(n - 1 + 1) : SubSeq(h, 1, n)[i] = h[1 + i - 1]
  BY SubSeqProperties
<1> DEFINE c == SubSeq(h, 1, n)
<1> HIDE DEF c
<1>2. c \in Seq(Names) /\ Len(c) = n /\ \A i \in 1..n : c[i] = h[i]
  BY <1>1 DEF c
<1> QED BY <1>2 DEF c

LEMMA ContentsAre ==
  ASSUME NEW s \in Slice, SliceOK(s)
  PROVE  /\ Contents(s) \in Seq(Names) /\ Len(Contents(s)) = s.len
         /\ \A i \in 1..s.len : Contents(s)[i] = heap[s.array][i]
BY FirstNames DEF Contents, Slice, SliceOK

LEMMA ChainIs ==
  ASSUME Slices
  PROVE  /\ Chain \in Seq(Names) /\ Len(Chain) = uchain.len /\ uchain.len \in Nat
         /\ \A i \in 1..uchain.len : Chain[i] = heap[uchain.array][i]
BY ContentsAre DEF Slices, Chain, Slice

LEMMA SliceStays ==
  ASSUME Slices, Keeps, NEW s \in Slice, SliceOK(s), s.array = uchain.array => s.len <= uchain.len
  PROVE  /\ s.array \in 1..Len(heap') /\ s.len <= Len(heap'[s.array])
         /\ \A i \in 1..s.len : heap'[s.array][i] = heap[s.array][i]
<1>1. Len(heap) \in Nat /\ Len(heap') \in Nat /\ s.array \in 1..Len(heap) /\ s.len \in Nat
      /\ s.len <= Len(heap[s.array]) /\ Len(heap') >= Len(heap)
  <2>1. heap \in Seq(Arrays) /\ heap' \in Seq(Arrays)
    BY DEF Slices, Keeps
  <2>2. Len(heap) \in Nat /\ Len(heap') \in Nat
    BY <2>1, LenProperties
  <2> QED BY <2>2 DEF SliceOK, Slice, Keeps
<1>2. heap[s.array] \in Arrays
  BY <1>1, ElementOfSeq DEF Slices
<1>3. Len(heap[s.array]) \in Nat
  BY <1>2, LenProperties DEF Arrays
<1>4. uchain.len \in Nat
  BY DEF Slices, Slice
<1>5. /\ Len(heap'[s.array]) = Len(heap[s.array])
      /\ \A i \in 1..Len(heap[s.array]) :
           (s.array = uchain.array => i <= uchain.len) => heap'[s.array][i] = heap[s.array][i]
  BY <1>1 DEF Keeps
<1>6. \A i \in 1..s.len : i \in 1..Len(heap[s.array]) /\ (s.array = uchain.array => i <= uchain.len)
  BY <1>1, <1>3, <1>4
<1> QED BY <1>1, <1>5, <1>6

LEMMA RenewedSlices ==
  ASSUME Slices, NEW names, Renewed(names)
  PROVE  /\ Slices' /\ Chain' = names
         /\ \A i \in 1..Len(ustack) : Contents(ustack[i])' = Contents(ustack[i])
<1>1. ustack' = ustack /\ ustack \in Seq(Slice) /\ Keeps
  BY DEF Renewed, Slices, NewChain
<1>2. \A i \in 1..Len(ustack) :
        /\ ustack[i] \in Slice /\ SliceOK(ustack[i])
        /\ ustack[i].array = uchain.array => ustack[i].len <= uchain.len
  BY <1>1, ElementOfSeq DEF Slices, Nested
<1>3. \A i \in 1..Len(ustack) :
        /\ ustack[i].array \in 1..Len(heap') /\ ustack[i].len <= Len(heap'[ustack[i].array])
        /\ \A k \in 1..ustack[i].len : heap'[ustack[i].array][k] = heap[ustack[i].array][k]
  BY <1>1, <1>2, SliceStays
<1>4. \A i \in 1..Len(ustack) : SliceOK(ustack[i])'
  BY <1>1, <1>2, <1>3 DEF SliceOK
<1>5. SliceOK(uchain)'
  <2>1. \A i \in 1..Len(names) : names[i] \in Names
    BY ElementOfSeq DEF Renewed, NewChain
  <2> QED BY <2>1 DEF Renewed, NewChain, SliceOK
<1>6. Nested'
  <2>1. ASSUME NEW i \in 1..Len(ustack), ustack[i].array = uchain'.array PROVE ustack[i].len <= uchain'.len
    <3>1. ustack[i].array \in 1..Len(heap) /\ Len(heap) \in Nat
      BY <1>2, LenProperties DEF SliceOK, Slices
    <3>2. uchain'.array = uchain.array /\ uchain'.len >= uchain.len
      BY <2>1, <3>1 DEF Renewed, NewChain
    <3>3. ustack[i].len <= uchain.len /\ ustack[i].len \in Nat /\ uchain.len \in Nat /\ uchain'.len \in Nat
      BY <1>2, <2>1, <3>2 DEF Slices, Slice, Renewed, NewChain
    <3> QED BY <3>2, <3>3
  <2> QED BY <1>1, <2>1 DEF Nested, Slices
<1>7. Slices'
  BY <1>1, <1>4, <1>5, <1>6 DEF Slices, Renewed, NewChain, Keeps
<1>8. Chain' = names
  <2>1. /\ Chain' \in Seq(Names) /\ Len(Chain') = uchain'.len
        /\ \A i \in 1..uchain'.len : Chain'[i] = heap'[uchain'.array][i]
    BY <1>7, FirstNames DEF Slices, Slice, SliceOK, Chain, Contents
  <2>2. /\ names \in Seq(Names) /\ uchain'.len = Len(names)
        /\ \A i \in 1..Len(names) : heap'[uchain'.array][i] = names[i]
    BY DEF Renewed, NewChain
  <2> QED BY <2>1, <2>2, SeqEqual
<1>9. \A i \in 1..Len(ustack) : Contents(ustack[i])' = Contents(ustack[i])
  <2> SUFFICES ASSUME NEW i \in 1..Len(ustack) PROVE Contents(ustack[i])' = Contents(ustack[i])
    OBVIOUS
  <2>1. PICK s \in Slice : s = ustack[i]
    BY <1>2
  <2>2. /\ Contents(s) \in Seq(Names) /\ Len(Contents(s)) = s.len
        /\ \A k \in 1..s.len : Contents(s)[k] = heap[s.array][k]
    BY <1>2, <2>1, ContentsAre
  <2>3. s.len \in Nat /\ \A k \in 1..s.len : heap'[s.array][k] \in Names
    BY <1>2, <1>3, <2>1 DEF SliceOK, Slice
  <2>4. /\ Contents(s)' \in Seq(Names) /\ Len(Contents(s)') = s.len
        /\ \A k \in 1..s.len : Contents(s)'[k] = heap'[s.array][k]
    BY <2>3, FirstNames DEF Contents
  <2>5. Contents(s)' = Contents(s)
    BY <1>3, <2>1, <2>2, <2>4, SeqEqual
  <2> QED BY <1>1, <2>1, <2>5
<1> QED BY <1>3, <1>7, <1>8, <1>9

LEMMA HeapGrows ==
  ASSUME Slices, heap' \in Seq(Arrays), Len(heap') = Len(heap) + 1,
         \A k \in 1..Len(heap) : heap'[k] = heap[k]
  PROVE  Keeps /\ Len(heap) \in Nat
<1>1. Len(heap) \in Nat
  BY LenProperties DEF Slices
<1> QED BY <1>1 DEF Keeps

LEMMA MadeRenews ==
  ASSUME Slices, NEW names \in Seq(Names), heap' = Append(heap, names),
         uchain' = [array |-> Len(heap) + 1, len |-> Len(names)], ustack' = ustack
  PROVE  Renewed(names)
<1>1. names \in Arrays /\ heap \in Seq(Arrays) /\ Len(names) \in Nat
  BY SeqMonotonic, LenProperties DEF Arrays, Slices
<1>2. /\ heap' \in Seq(Arrays) /\ Len(heap') = Len(heap) + 1
      /\ \A k \in 1..Len(heap) : heap'[k] = heap[k]
      /\ heap'[Len(heap) + 1] = names
  BY <1>1, AppendProperties
<1>3. Keeps /\ Len(heap) \in Nat
  BY <1>1, <1>2, HeapGrows
<1>4. uchain'.array = Len(heap) + 1 /\ uchain'.len = Len(names) /\ uchain' \in Slice
  BY <1>1, <1>3 DEF Slice
<1> QED BY <1>1, <1>2, <1>3, <1>4 DEF Renewed, NewChain

LEMMA LargerIs ==
  ASSUME NEW names \in Seq(Names)
  PROVE  /\ Larger(names) \in Arrays /\ Len(Larger(names)) >= Len(names) + 1
         /\ Len(names) \in Nat /\ Len(Larger(names)) \in Nat
         /\ \A i \in 1..Len(names) : Larger(names)[i] = names[i]
<1> DEFINE k == IF names = <<>> THEN 1 ELSE Len(names)
           r == [i \in 1..k |-> None]
<1>1. Len(names) \in Nat /\ k \in Nat /\ k >= 1
  BY EmptySeq, LenProperties
<1> HIDE DEF k
<1>2. r \in Arrays /\ Len(r) = k
  BY <1>1 DEF Arrays
<1>3. names \in Arrays
  BY SeqMonotonic DEF Arrays
<1>4. Larger(names) = names \o r
  BY DEF Larger, k, r
<1> HIDE DEF r
<1>5. /\ names \o r \in Arrays /\ Len(names \o r) = Len(names) + Len(r)
      /\ \A i \in 1..Len(names) : (names \o r)[i] = names[i]
  BY <1>2, <1>3, ConcatAt DEF Arrays
<1> DEFINE l == names \o r
<1> HIDE DEF l
<1>6. /\ l \in Arrays /\ Len(l) = Len(names) + k /\ \A i \in 1..Len(names) : l[i] = names[i]
  BY <1>2, <1>5 DEF l
<1>7. Larger(names) = l
  BY <1>4 DEF l
<1> QED BY <1>1, <1>6, <1>7

LEMMA AppendedRenews ==
  ASSUME Slices, NEW g, NEW n \in Names, Appended(g, n), ustack' = ustack
  PROVE  Renewed(Append(Chain, n))
<1> DEFINE len == uchain.len  a == uchain.array  c == Append(Chain, n)
<1>1. /\ Chain \in Seq(Names) /\ Len(Chain) = len /\ len \in Nat
      /\ \A i \in 1..len : Chain[i] = heap[a][i]
  BY ChainIs
<1>2. /\ heap \in Seq(Arrays) /\ a \in 1..Len(heap) /\ Len(heap) \in Nat /\ len <= Len(heap[a])
      /\ heap[a] \in Arrays /\ Len(heap[a]) \in Nat /\ uchain = [array |-> a, len |-> len]
      /\ n \in Names \cup {None}
  <2>1. heap \in Seq(Arrays) /\ a \in 1..Len(heap)
    BY DEF Slices, SliceOK
  <2>2. heap[a] \in Arrays /\ Len(heap) \in Nat
    BY <2>1, ElementOfSeq, LenProperties
  <2>3. Len(heap[a]) \in Nat
    BY <2>2, LenProperties DEF Arrays
  <2> QED BY <2>1, <2>2, <2>3 DEF Slices, SliceOK, Slice
<1>3. /\ c \in Seq(Names) /\ Len(c) = len + 1
      /\ \A i \in 1..len : c[i] = Chain[i]
      /\ c[len + 1] = n
  <2> HIDE DEF len
  <2> QED BY <1>1, AppendProperties
<1> HIDE DEF c
<1>4. CASE len < Len(heap[a])
  <2> DEFINE m == [heap[a] EXCEPT ![len + 1] = n]
  <2>1. heap' = [heap EXCEPT ![a] = m] /\ uchain' = [array |-> a, len |-> len + 1]
    BY <1>4 DEF Appended, Changed
  <2>2. len + 1 \in 1..Len(heap[a])
    BY <1>1, <1>2, <1>4
  <2>3. /\ m \in Arrays /\ Len(m) = Len(heap[a])
        /\ \A j \in 1..Len(heap[a]) : m[j] = IF j = len + 1 THEN n ELSE heap[a][j]
    <3> HIDE DEF len, a
    <3> QED BY <1>2, <2>2, ExceptSeq DEF Arrays
  <2> HIDE DEF m
  <2>4. /\ heap' \in Seq(Arrays) /\ Len(heap') = Len(heap)
        /\ \A k \in 1..Len(heap) : heap'[k] = IF k = a THEN m ELSE heap[k]
    <3> HIDE DEF len, a
    <3> QED BY <1>2, <2>1, <2>3, ExceptSeq
  <2>5. Keeps
    <3>1. ASSUME NEW k \in 1..Len(heap)
          PROVE  /\ Len(heap'[k]) = Len(heap[k])
                 /\ \A i \in 1..Len(heap[k]) : (k = a => i <= len) => heap'[k][i] = heap[k][i]
      <4>1. CASE k = a
        BY <1>1, <1>2, <2>3, <2>4, <4>1
      <4>2. CASE k # a
        BY <2>4, <4>2
      <4> QED BY <4>1, <4>2
    <3> QED BY <1>2, <2>4, <3>1 DEF Keeps
  <2>6. uchain'.array = a /\ uchain'.len = len + 1 /\ uchain' \in Slice
    BY <1>1, <1>2, <2>1 DEF Slice, Slices
  <2>7. \A i \in 1..(len + 1) : heap'[a][i] = c[i]
    <3> SUFFICES ASSUME NEW i \in 1..(len + 1) PROVE heap'[a][i] = c[i]
      OBVIOUS
    <3>1. heap'[a] = m /\ i \in 1..Len(heap[a])
      BY <1>1, <1>2, <2>2, <2>4
    <3>2. CASE i = len + 1
      BY <1>3, <2>3, <3>1, <3>2
    <3>3. CASE i # len + 1
      <4>1. i \in 1..len
        BY <1>1, <3>3
      <4> QED BY <1>1, <1>3, <2>3, <3>1, <3>3, <4>1
    <3> QED BY <3>2, <3>3
  <2>8. heap'[a] = m /\ len + 1 <= Len(m) /\ a \in 1..Len(heap') /\ len + 1 >= len
    BY <1>1, <1>2, <2>2, <2>3, <2>4
  <2> HIDE DEF len, a
  <2>9. NewChain(c)
    BY <1>3, <2>5, <2>6, <2>7, <2>8 DEF NewChain, len, a
  <2> QED BY <2>9 DEF Renewed, c
<1>5. CASE ~(len < Len(heap[a]))
  <2> DEFINE l == Larger(Chain)  m == [l EXCEPT ![len + 1] = n]  h == Append(heap, l)  to == Len(heap) + 1
  <2>1. heap' = [h EXCEPT ![to][len + 1] = n] /\ uchain' = [array |-> to, len |-> len + 1]
    BY <1>5 DEF Appended, Changed
  <2>2. /\ l \in Arrays /\ Len(l) >= len + 1 /\ Len(l) \in Nat
        /\ \A i \in 1..len : l[i] = Chain[i]
    BY <1>1, LargerIs
  <2> HIDE DEF l
  <2>3. /\ h \in Seq(Arrays) /\ Len(h) = Len(heap) + 1 /\ h[to] = l
        /\ \A k \in 1..Len(heap) : h[k] = heap[k]
    BY <1>2, <2>2, AppendProperties
  <2> HIDE DEF h
  <2>4. len + 1 \in 1..Len(l) /\ to \in 1..Len(h)
    BY <1>1, <1>2, <2>2, <2>3
  <2>5. /\ m \in Arrays /\ Len(m) = Len(l)
        /\ \A j \in 1..Len(l) : m[j] = IF j = len + 1 THEN n ELSE l[j]
    <3> HIDE DEF len, a
    <3> QED BY <1>2, <2>2, <2>4, ExceptSeq DEF Arrays
  <2>6. heap' = [h EXCEPT ![to] = m]
    BY <2>1, <2>3
  <2> HIDE DEF m
  <2>7. /\ heap' \in Seq(Arrays) /\ Len(heap') = Len(h)
        /\ \A k \in 1..Len(h) : heap'[k] = IF k = to THEN m ELSE h[k]
    <3> HIDE DEF len, a, to
    <3> QED BY <2>3, <2>4, <2>5, <2>6, ExceptSeq
  <2>8. /\ Len(heap') = Len(heap) + 1 /\ heap'[to] = m
        /\ \A k \in 1..Len(heap) : heap'[k] = heap[k]
    <3>1. \A k \in 1..Len(heap) : k # to /\ k \in 1..Len(h)
      BY <1>2, <2>3
    <3> QED BY <2>3, <2>4, <2>7, <3>1
  <2>9. Keeps
    BY <1>2, <2>7, <2>8, HeapGrows
  <2>10. uchain'.array = to /\ uchain'.len = len + 1 /\ uchain' \in Slice /\ to > Len(heap)
    BY <1>1, <1>2, <2>1 DEF Slice
  <2>11. \A i \in 1..(len + 1) : m[i] = c[i]
    <3> SUFFICES ASSUME NEW i \in 1..(len + 1) PROVE m[i] = c[i]
      OBVIOUS
    <3>1. i \in 1..Len(l)
      BY <1>1, <2>2
    <3>2. CASE i = len + 1
      BY <1>3, <2>5, <3>1, <3>2
    <3>3. CASE i # len + 1
      <4>1. i \in 1..len
        BY <1>1, <3>3
      <4> QED BY <1>3, <2>2, <2>5, <3>1, <3>3, <4>1
    <3> QED BY <3>2, <3>3
  <2>12. len + 1 <= Len(m) /\ to \in 1..Len(heap')
    BY <2>2, <2>3, <2>4, <2>5, <2>7
  <2> HIDE DEF len, a, to
  <2>13. NewChain(c)
    BY <1>3, <2>8, <2>9, <2>10, <2>11, <2>12 DEF NewChain
  <2> QED BY <2>13 DEF Renewed, c
<1> QED BY <1>4, <1>5

(* The pushed sequences of names, the last one first. *)
Stack == [i \in DOMAIN ustack |-> Contents(ustack[i])]

LEMMA StackOf ==
  ASSUME NEW u \in Seq(Slice), \A i \in 1..Len(u) : SliceOK(u[i]),
         NEW t, t = [i \in DOMAIN u |-> Contents(u[i])]
  PROVE  /\ t \in Seq(Seq(Names)) /\ Len(t) = Len(u) /\ Len(u) \in Nat
         /\ \A i \in 1..Len(u) : t[i] = Contents(u[i])
<1>1. Len(u) \in Nat /\ DOMAIN u = 1..Len(u)
  BY LenProperties
<1>2. \A i \in 1..Len(u) : Contents(u[i]) \in Seq(Names)
  BY ElementOfSeq, ContentsAre
<1>3. t \in [1..Len(u) -> Seq(Names)]
  BY <1>1, <1>2
<1>4. t \in Seq(Seq(Names)) /\ Len(t) = Len(u)
  BY <1>1, <1>3
<1> QED BY <1>1, <1>4

LEMMA StackIs ==
  ASSUME Slices
  PROVE  /\ Stack \in Seq(Seq(Names)) /\ Len(Stack) = Len(ustack) /\ Len(ustack) \in Nat
         /\ \A i \in 1..Len(ustack) : Stack[i] = Contents(ustack[i])
BY StackOf DEF Slices, Stack

LEMMA RenewedStack ==
  ASSUME Slices, NEW names, Renewed(names)
  PROVE  Stack' = Stack
<1>1. ustack' = ustack /\ DOMAIN ustack = 1..Len(ustack)
  BY LenProperties DEF Renewed, Slices
<1>2. \A i \in 1..Len(ustack) : Contents(ustack[i])' = Contents(ustack[i])
  BY RenewedSlices
<1> QED BY <1>1, <1>2 DEF Stack

LEMMA SameSlices ==
  ASSUME Slices, Same
  PROVE  Slices' /\ Chain' = Chain /\ Stack' = Stack
BY DEF Slices, Same, SliceOK, Nested, Chain, Stack, Contents

LEMMA PushedSlices ==
  ASSUME Slices, Pushed
  PROVE  Slices' /\ Chain' = Chain /\ Stack' = <<Chain>> \o Stack
<1> DEFINE u == <<uchain>> \o ustack
<1>1. /\ u \in Seq(Slice) /\ Len(u) = Len(ustack) + 1 /\ u[1] = uchain /\ Len(ustack) \in Nat
      /\ \A i \in 1..Len(ustack) : u[i + 1] = ustack[i]
  BY InFront, LenProperties DEF Slices
<1>2. heap' = heap /\ uchain' = uchain /\ ustack' = u
  BY DEF Pushed
<1> HIDE DEF u
<1>3. \A i \in 1..Len(u) : i = 1 \/ (i - 1 \in 1..Len(ustack) /\ u[i] = ustack[i - 1])
  <2> SUFFICES ASSUME NEW i \in 1..Len(u), i # 1 PROVE i - 1 \in 1..Len(ustack) /\ u[i] = ustack[i - 1]
    OBVIOUS
  <2>1. i - 1 \in 1..Len(ustack) /\ (i - 1) + 1 = i
    BY <1>1
  <2>2. u[(i - 1) + 1] = ustack[i - 1]
    BY <1>1, <2>1
  <2> QED BY <2>1, <2>2
<1>4. \A i \in 1..Len(u) : SliceOK(u[i])
  BY <1>1, <1>3 DEF Slices
<1>5. uchain.len \in Nat
  BY DEF Slices, Slice
<1>6. \A i \in 1..Len(u) : u[i].array = uchain.array => u[i].len <= uchain.len
  <2> SUFFICES ASSUME NEW i \in 1..Len(u), u[i].array = uchain.array PROVE u[i].len <= uchain.len
    OBVIOUS
  <2>1. CASE i = 1
    BY <1>1, <1>5, <2>1
  <2>2. CASE i # 1
    BY <1>3, <2>2 DEF Slices, Nested
  <2> QED BY <2>1, <2>2
<1>7. ASSUME NEW i \in 1..Len(u), NEW j \in 1..Len(u), i < j, u[i].array = u[j].array
      PROVE  u[j].len <= u[i].len
  <2>1. CASE i = 1
    BY <1>1, <1>6, <1>7, <2>1
  <2>2. CASE i # 1
    <3>1. /\ i - 1 \in 1..Len(ustack) /\ u[i] = ustack[i - 1]
          /\ j - 1 \in 1..Len(ustack) /\ u[j] = ustack[j - 1] /\ i - 1 < j - 1
      BY <1>1, <1>3, <1>7, <2>2
    <3> QED BY <1>7, <3>1 DEF Slices, Nested
  <2> QED BY <2>1, <2>2
<1>8. Slices'
  BY <1>1, <1>2, <1>4, <1>6, <1>7 DEF Slices, Nested, SliceOK
<1>9. Chain' = Chain
  BY <1>2 DEF Chain, Contents
<1>10. Stack' = <<Chain>> \o Stack
  <2> DEFINE t == [i \in DOMAIN u |-> Contents(u[i])]
             v == <<Chain>> \o Stack
  <2>1. Stack' = t
    BY <1>2 DEF Stack, Contents
  <2>2. /\ t \in Seq(Seq(Names)) /\ Len(t) = Len(u)
        /\ \A i \in 1..Len(u) : t[i] = Contents(u[i])
    BY <1>1, <1>4, StackOf
  <2>3. /\ Stack \in Seq(Seq(Names)) /\ Len(Stack) = Len(ustack)
        /\ \A i \in 1..Len(ustack) : Stack[i] = Contents(ustack[i])
    BY StackIs
  <2>4. /\ v \in Seq(Seq(Names)) /\ Len(v) = Len(Stack) + 1 /\ v[1] = Chain
        /\ \A i \in 1..Len(Stack) : v[i + 1] = Stack[i]
    BY <2>3, ChainIs, InFront
  <2> HIDE DEF t, v
  <2>5. \A i \in 1..Len(t) : t[i] = v[i]
    <3> SUFFICES ASSUME NEW i \in 1..Len(u) PROVE t[i] = v[i]
      BY <2>2
    <3>1. CASE i = 1
      BY <1>1, <2>2, <2>4, <3>1 DEF Chain
    <3>2. CASE i # 1
      <4>1. i - 1 \in 1..Len(ustack) /\ u[i] = ustack[i - 1] /\ (i - 1) + 1 = i
        BY <1>1, <1>3, <3>2
      <4>2. v[(i - 1) + 1] = Stack[i - 1]
        BY <2>3, <2>4, <4>1
      <4> QED BY <2>2, <2>3, <4>1, <4>2
    <3> QED BY <3>1, <3>2
  <2>6. t = v
    BY <1>1, <2>2, <2>3, <2>4, <2>5, SeqEqual
  <2> QED BY <2>1, <2>6 DEF v
<1> QED BY <1>8, <1>9, <1>10

LEMMA PoppedSlices ==
  ASSUME Slices, Popped
  PROVE  Slices' /\ Stack # <<>> /\ Chain' = Head(Stack) /\ Stack' = Tail(Stack)
<1> DEFINE u == Tail(ustack)
<1>1. /\ u \in Seq(Slice) /\ Len(u) = Len(ustack) - 1 /\ Len(ustack) \in Nat \ {0} /\ Head(ustack) = ustack[1]
      /\ \A i \in 1..Len(u) : u[i] = ustack[i + 1]
  BY HeadTailProperties, LenOf, LenProperties DEF Slices, Popped
<1>2. heap' = heap /\ uchain' = ustack[1] /\ ustack' = u
  BY <1>1 DEF Popped
<1> HIDE DEF u
<1>3. 1 \in 1..Len(ustack) /\ \A i \in 1..Len(u) : i + 1 \in 1..Len(ustack) /\ 1 < i + 1
  BY <1>1
<1>4. SliceOK(ustack[1]) /\ ustack[1] \in Slice /\ \A i \in 1..Len(u) : SliceOK(u[i])
  BY <1>1, <1>3, ElementOfSeq DEF Slices
<1>5. \A i \in 1..Len(u) : u[i].array = ustack[1].array => u[i].len <= ustack[1].len
  <2> SUFFICES ASSUME NEW i \in 1..Len(u), u[i].array = ustack[1].array PROVE u[i].len <= ustack[1].len
    OBVIOUS
  <2>1. u[i] = ustack[i + 1] /\ i + 1 \in 1..Len(ustack) /\ 1 < i + 1
    BY <1>1, <1>3
  <2> QED BY <1>3, <2>1 DEF Slices, Nested
<1>6. ASSUME NEW i \in 1..Len(u), NEW j \in 1..Len(u), i < j, u[i].array = u[j].array
      PROVE  u[j].len <= u[i].len
  <2>1. /\ u[i] = ustack[i + 1] /\ i + 1 \in 1..Len(ustack)
        /\ u[j] = ustack[j + 1] /\ j + 1 \in 1..Len(ustack) /\ i + 1 < j + 1
    BY <1>1, <1>3, <1>6
  <2> QED BY <1>6, <2>1 DEF Slices, Nested
<1>7. Slices'
  BY <1>1, <1>2, <1>4, <1>5, <1>6 DEF Slices, Nested, SliceOK
<1>8. /\ Stack \in Seq(Seq(Names)) /\ Len(Stack) = Len(ustack)
      /\ \A i \in 1..Len(ustack) : Stack[i] = Contents(ustack[i])
  BY StackIs
<1>9. Stack # <<>> /\ Head(Stack) = Contents(ustack[1])
  <2>1. Stack # <<>> <=> Len(Stack) > 0
    BY <1>8, LenOf
  <2>2. Stack # <<>>
    BY <1>1, <1>8, <2>1
  <2> QED BY <1>3, <1>8, <2>2, LenOf
<1>10. Chain' = Contents(ustack[1])
  BY <1>2 DEF Chain, Contents
<1>11. Stack' = Tail(Stack)
  <2> DEFINE t == [i \in DOMAIN u |-> Contents(u[i])]
             v == Tail(Stack)
  <2>1. Stack' = t
    BY <1>2 DEF Stack, Contents
  <2>2. /\ t \in Seq(Seq(Names)) /\ Len(t) = Len(u)
        /\ \A i \in 1..Len(u) : t[i] = Contents(u[i])
    BY <1>1, <1>4, StackOf
  <2>3. /\ v \in Seq(Seq(Names)) /\ Len(v) = Len(Stack) - 1
        /\ \A i \in 1..Len(v) : v[i] = Stack[i + 1]
    BY <1>8, <1>9, HeadTailProperties
  <2> HIDE DEF t, v
  <2>4. \A i \in 1..Len(t) : t[i] = v[i]
    BY <1>1, <1>3, <1>8, <2>2, <2>3
  <2>5. t = v
    BY <1>1, <1>8, <2>2, <2>3, <2>4, SeqEqual
  <2> QED BY <2>1, <2>5 DEF v
<1> QED BY <1>7, <1>9, <1>10, <1>11

-----------------------------------------------------------------------------
(* What the operations do to the chain and its stack *)

Crosses(g) == crossed' = (crossed \/ BetweenHalves(g))
Idle       == Same /\ crossed' = crossed

(* The effect of each: a is the operation's place on its path. *)
Effect(g, a) ==
  /\ At(g, a)
  /\ CASE a = "add" ->
            (Idle /\ Contains(Chain, name(g)))
            \/ (~Contains(Chain, name(g)) /\ Renewed(Append(Chain, name(g))) /\ Crosses(g))
       [] a = "remove" ->
            (Idle /\ ~Contains(Chain, name(g)))
            \/ (Contains(Chain, name(g)) /\ Renewed(RemoveFirst(Chain, name(g))) /\ Crosses(g))
       [] a = "front" -> Renewed(<<name(g)>> \o Chain) /\ Crosses(g)
       [] a = "reset" -> Renewed(<<>>) /\ Crosses(g)
       [] a = "push"  -> Pushed /\ crossed' = crossed
       [] a = "pop"   -> Idle \/ (Popped /\ Crosses(g))

ChangeOps == Edits \cup {"front"}

LEMMA EffectsAre ==
  ASSUME Paths, Slices, NEW g \in Goroutines,
         uc_add(g) \/ uc_remove(g) \/ uc_front(g) \/ uc_reset(g) \/ ucs_push(g) \/ ucs_pop(g)
  PROVE  Changes(g) /\ \E a \in ChangeOps : Effect(g, a)
<1>1. Changes(g) /\ Chain \in Seq(Names)
  BY EditsAre, ChainIs
<1>2. Busy(g)
  BY <1>1 DEF Changes, At, Busy
<1>3. name(g) \in Names
  BY <1>2, Busyness
<1>4. \A a \in {"add", "remove", "front", "reset", "push", "pop"} : a \in ChangeOps
  BY DEF ChangeOps, Edits
<1>5. ASSUME NEW names \in Seq(Names), Made(g, names), ustack' = ustack
      PROVE  Renewed(names) /\ Crosses(g)
  <2>1. /\ heap' = Append(heap, names) /\ Crosses(g)
        /\ uchain' = [array |-> Len(heap) + 1, len |-> Len(names)]
    BY <1>5 DEF Made, Changed, Crosses
  <2> QED BY <1>5, <2>1, MadeRenews
<1>6. CASE uc_add(g)
  <2>1. CASE Contains(Chain, name(g))
    <3>1. At(g, "add") /\ Idle
      BY <1>6, <2>1 DEF uc_add, Nothing, Idle, Same
    <3> QED BY <1>1, <1>4, <2>1, <3>1 DEF Effect
  <2>2. CASE ~Contains(Chain, name(g))
    <3>1. At(g, "add") /\ Appended(g, name(g)) /\ ustack' = ustack
      BY <1>6, <2>2 DEF uc_add
    <3>2. Renewed(Append(Chain, name(g)))
      BY <1>3, <3>1, AppendedRenews
    <3>3. Crosses(g)
      BY <3>1 DEF Appended, Changed, Crosses
    <3> QED BY <1>1, <1>4, <2>2, <3>1, <3>2, <3>3 DEF Effect
  <2> QED BY <2>1, <2>2
<1>7. CASE uc_remove(g)
  <2>1. CASE ~Contains(Chain, name(g))
    <3>1. At(g, "remove") /\ Idle
      BY <1>7, <2>1 DEF uc_remove, Nothing, Idle, Same
    <3> QED BY <1>1, <1>4, <2>1, <3>1 DEF Effect
  <2>2. CASE Contains(Chain, name(g))
    <3>1. RemoveFirst(Chain, name(g)) \in Seq(Names)
      BY <1>1, <2>2, RemoveFirstIs
    <3>2. At(g, "remove") /\ Made(g, RemoveFirst(Chain, name(g))) /\ ustack' = ustack
      BY <1>7, <2>2 DEF uc_remove
    <3>3. Renewed(RemoveFirst(Chain, name(g))) /\ Crosses(g)
      BY <1>5, <3>1, <3>2
    <3> QED BY <1>1, <1>4, <2>2, <3>2, <3>3 DEF Effect
  <2> QED BY <2>1, <2>2
<1>8. CASE uc_front(g)
  <2>1. <<name(g)>> \o Chain \in Seq(Names)
    BY <1>1, <1>3, InFront
  <2>2. At(g, "front") /\ Made(g, <<name(g)>> \o Chain) /\ ustack' = ustack
    BY <1>8 DEF uc_front
  <2>3. Renewed(<<name(g)>> \o Chain) /\ Crosses(g)
    BY <1>5, <2>1, <2>2
  <2> QED BY <1>1, <1>4, <2>2, <2>3 DEF Effect
<1>9. CASE uc_reset(g)
  <2>1. At(g, "reset") /\ Made(g, <<>>) /\ ustack' = ustack
    BY <1>9 DEF uc_reset
  <2>2. Renewed(<<>>) /\ Crosses(g)
    BY <1>5, <2>1, EmptySeq
  <2> QED BY <1>1, <1>4, <2>1, <2>2 DEF Effect
<1>10. CASE ucs_push(g)
  BY <1>1, <1>4, <1>10 DEF ucs_push, Effect, Pushed
<1>11. CASE ucs_pop(g)
  <2>1. At(g, "pop") /\ (Idle \/ (Popped /\ Crosses(g)))
    BY <1>11 DEF ucs_pop, Nothing, Changed, Idle, Same, Popped, Crosses
  <2> QED BY <1>1, <1>4, <2>1 DEF Effect
<1> QED BY <1>6, <1>7, <1>8, <1>9, <1>10, <1>11

LEMMA EffectSlices ==
  ASSUME Slices, NEW g, NEW a \in ChangeOps, Effect(g, a)
  PROVE  Slices'
<1>1. Idle => Same
  BY DEF Idle
<1>2. a \in {"add", "remove", "front", "reset", "push", "pop"}
  BY DEF ChangeOps, Edits
<1>3. Same \/ Pushed \/ Popped \/ \E names : Renewed(names)
  BY <1>1, <1>2 DEF Effect
<1> QED BY <1>3, SameSlices, PushedSlices, PoppedSlices, RenewedSlices

(* Every other step leaves the chain and its stack alone. *)
Leaves(g) ==
  /\ UNCHANGED <<heap, uchain, ustack, crossed>>
  /\ \/ uc_match(g)
     \/ /\ UNCHANGED <<seen, found>> /\ ~At(g, "look")
        /\ \/ Moved(g) /\ Now(g).act \notin ChangeOps
           \/ Asking(g) \/ Called(g) \/ UNCHANGED <<calls, made, todo>>

LEMMA LocksLeave ==
  ASSUME Paths, NEW g \in Goroutines,
         \/ Call(g) \/ RLock(g) \/ Admitted(g) \/ RUnlock(g) \/ Announce(g) \/ Lock(g) \/ Unlock(g)
  PROVE  Leaves(g)
<1>1. UNCHANGED <<heap, uchain, ustack, crossed, seen, found>>
  BY DEF Call, RLock, Admitted, RUnlock, Announce, Lock, Unlock, OnLock
<1>2. ASSUME NEW a \in {"runlock", "lock", "unlock"}, At(g, a), Go(g), UNCHANGED <<calls, made>>
      PROVE  Moved(g) /\ Now(g).act \notin ChangeOps /\ ~At(g, "look")
  BY <1>2, Acts, GoMoves DEF ChangeOps, Edits, At
<1>3. CASE Call(g)
  BY <1>1, <1>3, CallMoves DEF Leaves, Call, At
<1>4. CASE RLock(g)
  <2>1. At(g, "rlock") /\ UNCHANGED <<calls, made>> /\ ~At(g, "look") /\ Now(g).act = "rlock"
    BY <1>4, Acts DEF RLock, OnLock, At
  <2>2. CASE The(g).writer = None
    <3>1. Go(g)
      BY <1>4, <2>2 DEF RLock, Go
    <3>2. Moved(g)
      BY <2>1, <3>1, GoMoves
    <3> QED BY <1>1, <2>1, <3>2 DEF Leaves, ChangeOps, Edits
  <2>3. CASE The(g).writer # None
    <3>1. todo' = [todo EXCEPT ![g] = <<Act("admitted")>> \o @]
      BY <1>4, <2>3 DEF RLock
    <3>2. Asking(g)
      BY <2>1, <3>1, AskingMoves
    <3> QED BY <1>1, <2>1, <3>2 DEF Leaves
  <2> QED BY <2>2, <2>3
<1>5. CASE Admitted(g)
  <2>1. Moved(g) /\ Asked(g) /\ ~At(g, "look")
    BY <1>5, AdmittedMoves DEF Admitted, At
  <2>2. Now(g).act = "rlock"
    BY <2>1, Busyness DEF Moved
  <2> QED BY <1>1, <2>1, <2>2 DEF Leaves, ChangeOps, Edits
<1>6. CASE RUnlock(g)
  BY <1>1, <1>2, <1>6 DEF Leaves, RUnlock, OnLock
<1>7. CASE Announce(g)
  BY <1>1, <1>7 DEF Leaves, Announce, OnLock, At
<1>8. CASE Lock(g)
  BY <1>1, <1>2, <1>8 DEF Leaves, Lock
<1>9. CASE Unlock(g)
  BY <1>1, <1>2, <1>9 DEF Leaves, Unlock, OnLock
<1> QED BY <1>3, <1>4, <1>5, <1>6, <1>7, <1>8, <1>9

(* A step either changes the chain at one of its places or leaves it. *)
LEMMA StepsAre ==
  ASSUME Paths, Slices, NEW g \in Goroutines, Step(g)
  PROVE  Leaves(g) \/ (Changes(g) /\ \E a \in ChangeOps : Effect(g, a))
<1>1. uc_match(g) => Leaves(g)
  BY DEF uc_match, Leaves
<1> QED BY <1>1, EffectsAre, LocksLeave DEF Step

-----------------------------------------------------------------------------
(* Lookups *)

(* A lookup has seen the first names of the chain. *)
Seen(g) ==
  /\ Len(seen[g]) > 0 => At(g, "look")
  /\ Len(seen[g]) <= uchain.len
  /\ \A i \in 1..Len(seen[g]) : seen[g][i] = Chain[i]
Lookups == seen \in [Goroutines -> Seq(Names)] /\ \A g \in Goroutines : Seen(g)

(* Who changes the chain has chainlock for writing, who looks for reading. *)
LEMMA Excluded ==
  ASSUME Paths, Locking, NEW g \in Goroutines, NEW h \in Goroutines, NEW a \in ChangeOps,
         At(g, a), At(h, "look")
  PROVE  FALSE
<1>1. a # "admitted" /\ "chain" \in Locks
  BY DEF ChangeOps, Edits, Locks
<1>2. /\ Busy(g) /\ Now(g).act = a /\ op(g) \in Ops /\ pc(g) \in 1..Len(P(g)) /\ Now(g) = P(g)[pc(g)]
  BY <1>1, Acts, Busyness DEF Now
<1>3. Writes(op(g), pc(g), "chain")
  BY <1>2, PathTable DEF P, ChangeOps
<1>4. RW!NoReaders(lock["chain"])
  BY <1>1, <1>2, <1>3 DEF Locking, LockHolds, HeldWrites
<1>5. /\ Busy(h) /\ Now(h).act = "look" /\ op(h) \in Ops /\ pc(h) \in 1..Len(P(h)) /\ Now(h) = P(h)[pc(h)]
  BY Acts, Busyness DEF Now
<1>6. Reads(op(h), pc(h), "chain") > 0
  BY <1>5, PathTable DEF P
<1>7. HeldReads(h, "chain") > 0 /\ HeldReads(h, "chain") \in Nat
  BY <1>1, <1>5, <1>6, HeldNat DEF HeldReads
<1>8. lock["chain"].readers[h] # 0
  <2>1. lock["chain"].readers[h] =
          HeldReads(h, "chain") + (IF AsksFor(h, "chain") /\ h \notin lock["chain"].waiting THEN 1 ELSE 0)
    BY <1>1 DEF Locking, LockHolds
  <2> QED BY <1>7, <2>1
<1> QED BY <1>4, <1>8 DEF RW!NoReaders

LEMMA LookupsStay ==
  ASSUME Paths, Locking, Slices, Lookups, NEW g \in Goroutines,
         Leaves(g) \/ (Changes(g) /\ \E a \in ChangeOps : Effect(g, a)), Slices'
  PROVE  Lookups'
<1>1. \A h \in Goroutines : seen[h] \in Seq(Names) /\ Len(seen[h]) \in Nat
  BY LenProperties DEF Lookups
<1>2. CASE Changes(g) /\ \E a \in ChangeOps : Effect(g, a)
  <2>1. PICK a \in ChangeOps : At(g, a)
    BY <1>2 DEF Effect
  <2>2. \A h \in Goroutines : ~At(h, "look")
    BY <2>1, Excluded
  <2>3. \A h \in Goroutines : Len(seen[h]) = 0
    BY <1>1, <2>2 DEF Lookups, Seen
  <2>4. seen' = seen /\ uchain'.len \in Nat
    BY <1>2 DEF Changes, Slices, Slice
  <2> QED BY <2>3, <2>4 DEF Lookups, Seen
<1>3. CASE Leaves(g)
  <2>1. uchain' = uchain /\ Chain' = Chain
    BY <1>3 DEF Leaves, Chain, Contents
  <2>2. CASE uc_match(g)
    <3>1. At(g, "look")
      BY <2>2 DEF uc_match
    <3>2. CASE Len(seen[g]) < uchain.len
      <4> DEFINE n == Len(seen[g])  x == heap[uchain.array][n + 1]  t == Append(seen[g], x)
      <4>1. todo' = todo /\ seen' = [seen EXCEPT ![g] = t]
        BY <2>2, <3>2 DEF uc_match
      <4>2. x = Chain[n + 1] /\ x \in Names /\ n + 1 <= uchain.len
        <5>1. n + 1 \in 1..uchain.len
          BY <1>1, <3>2, ChainIs
        <5>2. /\ Chain \in Seq(Names) /\ Len(Chain) = uchain.len
              /\ \A i \in 1..uchain.len : Chain[i] = heap[uchain.array][i]
          BY ChainIs
        <5>3. Chain[n + 1] \in Names
          <6> HIDE DEF n
          <6> QED BY <5>1, <5>2, ElementOfSeq
        <5> QED BY <5>1, <5>2, <5>3
      <4> HIDE DEF x
      <4>3. /\ t \in Seq(Names) /\ Len(t) = n + 1
            /\ \A i \in 1..n : t[i] = seen[g][i]
            /\ t[n + 1] = x
        BY <1>1, <4>2, AppendProperties
      <4> HIDE DEF t
      <4>4. \A i \in 1..(n + 1) : t[i] = Chain[i]
        <5> SUFFICES ASSUME NEW i \in 1..(n + 1) PROVE t[i] = Chain[i]
          OBVIOUS
        <5>1. CASE i = n + 1
          BY <4>2, <4>3, <5>1
        <5>2. CASE i # n + 1
          <6>1. i \in 1..n
            BY <1>1, <5>2
          <6> QED BY <4>3, <6>1 DEF Lookups, Seen
        <5> QED BY <5>1, <5>2
      <4>5. seen' \in [Goroutines -> Seq(Names)] /\ seen'[g] = t /\ \A h \in Goroutines \ {g} : seen'[h] = seen[h]
        BY <4>1, <4>3 DEF Lookups
      <4>6. Seen(g)'
        <5>1. At(g, "look")'
          BY <3>1, <4>1 DEF At
        <5>2. uchain.len \in Nat /\ n \in Nat
          BY <1>1, ChainIs
        <5>3. Len(t) = n + 1 /\ n + 1 <= uchain.len /\ seen'[g] = t /\ uchain' = uchain
          BY <2>1, <4>2, <4>3, <4>5
        <5>4. \A i \in 1..Len(t) : t[i] = Chain'[i]
          BY <2>1, <4>4, <5>3
        <5> HIDE DEF n
        <5> QED BY <5>1, <5>3, <5>4 DEF Seen
      <4>7. \A h \in Goroutines \ {g} : Seen(h)'
        BY <2>1, <4>1, <4>5 DEF Seen, Lookups, At
      <4> QED BY <4>5, <4>6, <4>7 DEF Lookups
    <3>3. CASE ~(Len(seen[g]) < uchain.len)
      <4>1. seen' = [seen EXCEPT ![g] = <<>>] /\ Go(g)
        BY <2>2, <3>3 DEF uc_match
      <4>2. \A h \in Goroutines \ {g} : todo'[h] = todo[h]
        BY <4>1 DEF Go, Paths, PlanOK
      <4>3. seen' \in [Goroutines -> Seq(Names)] /\ seen'[g] = <<>> /\ \A h \in Goroutines \ {g} : seen'[h] = seen[h]
        BY <4>1, EmptySeq DEF Lookups
      <4>4. Len(seen'[g]) = 0 /\ uchain'.len \in Nat
        BY <4>3 DEF Slices, Slice
      <4>5. Seen(g)'
        BY <4>4 DEF Seen
      <4>6. \A h \in Goroutines \ {g} : Seen(h)'
        <5> SUFFICES ASSUME NEW h \in Goroutines \ {g} PROVE Seen(h)'
          OBVIOUS
        <5>1. todo'[h] = todo[h] /\ seen'[h] = seen[h]
          BY <4>2, <4>3
        <5>2. Seen(h)
          BY DEF Lookups
        <5> QED BY <2>1, <5>1, <5>2 DEF Seen, At
      <4> QED BY <4>3, <4>5, <4>6 DEF Lookups
    <3> QED BY <3>2, <3>3
  <2>3. CASE ~uc_match(g)
    <3>1. seen' = seen /\ ~At(g, "look") /\ \A h \in Goroutines \ {g} : todo'[h] = todo[h]
      BY <1>3, <2>3 DEF Leaves, Moved, Asking, Called, Others
    <3>2. Len(seen[g]) = 0 /\ uchain.len \in Nat
      BY <1>1, <3>1 DEF Lookups, Seen, Slices, Slice
    <3>3. Seen(g)'
      BY <2>1, <3>1, <3>2 DEF Seen
    <3>4. \A h \in Goroutines \ {g} : Seen(h)'
      BY <2>1, <3>1 DEF Seen, Lookups, At
    <3> QED BY <3>1, <3>3, <3>4 DEF Lookups
  <2> QED BY <2>2, <2>3
<1> QED BY <1>2, <1>3

(* A lookup that ends has seen the whole chain. *)
LEMMA SeenAll ==
  ASSUME Slices, Lookups, NEW g \in Goroutines, ~(Len(seen[g]) < uchain.len)
  PROVE  seen[g] = Chain
<1>1. seen[g] \in Seq(Names) /\ Len(seen[g]) \in Nat
  BY LenProperties DEF Lookups
<1>2. Chain \in Seq(Names) /\ Len(Chain) = uchain.len /\ uchain.len \in Nat
  BY ChainIs
<1>3. Len(seen[g]) = Len(Chain) /\ \A i \in 1..Len(seen[g]) : seen[g][i] = Chain[i]
  BY <1>1, <1>2 DEF Lookups, Seen
<1> QED BY <1>1, <1>2, <1>3, SeqEqual

-----------------------------------------------------------------------------
(* A name twice in the chain *)

(* Between the halves of its uc_top. *)
Halfway(g) == Busy(g) /\ op(g) = "top" /\ pc(g) \in 3..5

(* Halfway through a uc_top the name is not in the chain, unless another   *)
(* goroutine has changed the chain meanwhile.                              *)
Once ==
  ~crossed =>
    /\ OnceIn(Chain) /\ \A i \in 1..Len(Stack) : OnceIn(Stack[i])
    /\ \A g \in Goroutines : Halfway(g) => ~Contains(Chain, name(g))

LEMMA HalfwayBetween ==
  ASSUME Paths, NEW g \in Goroutines, NEW h \in Goroutines \ {g}, Halfway(h)
  PROVE  BetweenHalves(g)
<1>1. /\ Busy(h) /\ op(h) = "top" /\ pc(h) \in 3..5 /\ P(h) = Path("top")
      /\ todo[h] \in Seq(Place \cup {Admission}) /\ Len(todo[h]) \in Nat
  BY Busyness DEF Halfway, P
<1>2. /\ Len(P(h)) = 6 /\ P(h)[2] = Act("remove") /\ P(h)[5] = Act("front")
      /\ P(h)[3] = Unwrite("chain") /\ P(h)[4] = Write("chain") /\ P(h)[6] = Unwrite("chain")
  BY <1>1, TopPath
<1>3. ~Asked(h)
  <2>1. Now(h).act # "rlock"
    <3>1. pc(h) = 3 \/ pc(h) = 4 \/ pc(h) = 5
      BY <1>1
    <3> QED BY <1>2, <3>1 DEF Now, Unwrite, Write, Act
  <2> QED BY <1>1, <2>1, Busyness
<1>4. pc(h) = 6 + 1 - Len(todo[h])
  BY <1>2, <1>3 DEF pc
<1>5. \A i \in 1..Len(todo[h]) : todo[h][i] = P(h)[6 - Len(todo[h]) + i]
  BY <1>1, <1>2, <1>3 DEF Paths, OnPath
<1> DEFINE i == 6 - pc(h)
<1>6. i \in 1..Len(todo[h]) /\ 6 - Len(todo[h]) + i = 5
  BY <1>1, <1>4
<1> HIDE DEF i
<1>7. todo[h][i] = Act("front")
  BY <1>2, <1>5, <1>6
<1>8. ASSUME NEW j \in 1..Len(todo[h]) PROVE todo[h][j] # Act("remove")
  <2>1. 6 - Len(todo[h]) + j \in 3..6
    BY <1>1, <1>4
  <2>2. \A k \in 3..6 : P(h)[k] # Act("remove")
    <3> SUFFICES ASSUME NEW k \in 3..6 PROVE P(h)[k] # Act("remove")
      OBVIOUS
    <3>1. k = 3 \/ k = 4 \/ k = 5 \/ k = 6
      OBVIOUS
    <3> QED BY <1>2, <3>1 DEF Unwrite, Write, Act
  <2> QED BY <1>5, <2>1, <2>2
<1>9. DOMAIN todo[h] = 1..Len(todo[h])
  BY <1>1, LenProperties
<1> QED BY <1>6, <1>7, <1>8, <1>9 DEF BetweenHalves

(* A step that changes nothing in the chain leaves nobody newly halfway,   *)
(* and one that does only after the removal.                               *)
LEMMA HalfwayStays ==
  ASSUME Paths, NEW g \in Goroutines,
         \/ Moved(g) /\ Now(g).act # "remove"
         \/ Asking(g) \/ Called(g) \/ UNCHANGED <<calls, made, todo>>
  PROVE  \A h \in Goroutines : Halfway(h)' => Halfway(h) /\ name(h)' = name(h)
<1>1. ASSUME NEW h, calls' = calls, todo'[h] = todo[h], made'[h] = made[h]
      PROVE  Halfway(h)' => Halfway(h) /\ name(h)' = name(h)
  BY <1>1, Stays DEF Halfway
<1>2. CASE Moved(g) /\ Now(g).act # "remove"
  <2>1. /\ op(g) \in Ops /\ pc(g) \in 1..Len(P(g)) /\ Now(g) = P(g)[pc(g)] /\ pc(g) \in Nat
    BY <1>2, Busyness DEF Moved, Now
  <2>2. op(g) = "top" => pc(g) # 2
    BY <1>2, <2>1, PathTable DEF P
  <2>3. Halfway(g)' => Halfway(g) /\ name(g)' = name(g)
    BY <1>2, <2>1, <2>2 DEF Moved, Halfway
  <2> QED BY <1>1, <1>2, <2>3 DEF Moved, Others
<1>3. CASE Asking(g)
  <2>1. Halfway(g)' => Halfway(g) /\ name(g)' = name(g)
    BY <1>3 DEF Asking, Halfway
  <2> QED BY <1>1, <1>3, <2>1 DEF Asking, Others
<1>4. CASE Called(g)
  <2>1. ~Halfway(g)'
    BY <1>4 DEF Called, Halfway
  <2> QED BY <1>1, <1>4, <2>1 DEF Called, Others
<1>5. CASE UNCHANGED <<calls, made, todo>>
  BY <1>1, <1>5
<1> QED BY <1>2, <1>3, <1>4, <1>5

LEMMA OnceLeft ==
  ASSUME Paths, Locking, Slices, Once, NEW g \in Goroutines, Leaves(g)
  PROVE  Once'
<1>1. Chain' = Chain /\ Stack' = Stack /\ crossed' = crossed
  BY SameSlices DEF Leaves, Same
<1>2. \A h \in Goroutines : Halfway(h)' => Halfway(h) /\ name(h)' = name(h)
  <2>1. CASE uc_match(g)
    <3>1. CASE Len(seen[g]) < uchain.len
      BY <2>1, <3>1, HalfwayStays DEF uc_match
    <3>2. CASE ~(Len(seen[g]) < uchain.len)
      <4>1. At(g, "look") /\ Go(g) /\ UNCHANGED <<calls, made>>
        BY <2>1, <3>2 DEF uc_match
      <4>2. Moved(g) /\ Now(g).act # "remove"
        BY <4>1, GoMoves, Acts
      <4> QED BY <4>2, HalfwayStays
    <3> QED BY <3>1, <3>2
  <2>2. CASE ~uc_match(g)
    BY <2>2, HalfwayStays DEF Leaves, ChangeOps, Edits
  <2> QED BY <2>1, <2>2
<1> QED BY <1>1, <1>2 DEF Once

LEMMA OnceChanged ==
  ASSUME Paths, Locking, Slices, Once, NEW g \in Goroutines, Changes(g), NEW a \in ChangeOps, Effect(g, a)
  PROVE  Once'
<1>1. At(g, a) /\ a # "admitted" /\ a \in {"add", "remove", "front", "reset", "push", "pop"}
  BY DEF Effect, ChangeOps, Edits
<1>2. Moved(g) /\ Now(g).act = a
  BY <1>1, GoMoves, Acts DEF Changes
<1>3. /\ op(g) \in Ops /\ pc(g) \in 1..Len(P(g)) /\ Now(g) = P(g)[pc(g)] /\ Busy(g) /\ name(g) \in Names
      /\ Chain \in Seq(Names) /\ name(g)' = name(g)
  BY <1>2, Busyness, ChainIs DEF Moved, Now
<1>4. ASSUME NEW h \in Goroutines, Halfway(h)'
      PROVE  (h = g /\ a = "remove") \/ (Halfway(h) /\ h # g /\ name(h)' = name(h))
  <2>1. CASE a # "remove"
    <3>1. Halfway(h) /\ name(h)' = name(h)
      BY <1>2, <1>4, <2>1, HalfwayStays
    <3>2. h # g
      <4> SUFFICES ASSUME Halfway(g), Halfway(g)' PROVE FALSE
        BY <1>4, <3>1
      <4>1. op(g) = "top" /\ pc(g) \in 3..5 /\ pc(g) # 5
        BY <1>2 DEF Halfway, Moved
      <4>2. ~(a \in Edits) /\ a # "front"
        BY <1>2, <1>3, <4>1, PathTable DEF P
      <4> QED BY <4>2 DEF ChangeOps
    <3> QED BY <3>1, <3>2
  <2>2. CASE a = "remove" /\ h # g
    BY <1>2, <1>4, <2>2, Stays DEF Moved, Others, Halfway
  <2> QED BY <2>1, <2>2
<1>5. SUFFICES ASSUME ~crossed'
               PROVE  /\ OnceIn(Chain') /\ \A i \in 1..Len(Stack') : OnceIn(Stack'[i])
                      /\ \A h \in Goroutines : Halfway(h)' => ~Contains(Chain', name(h)')
  BY DEF Once
<1>6. CASE crossed' = crossed /\ Chain' = Chain /\ (a = "remove" => ~Contains(Chain, name(g)))
           /\ \A i \in 1..Len(Stack') : OnceIn(Stack'[i])
  BY <1>3, <1>4, <1>5, <1>6 DEF Once
<1>7. ASSUME Crosses(g), OnceIn(Chain'), \A i \in 1..Len(Stack') : OnceIn(Stack'[i]),
             a = "remove" => ~Contains(Chain', name(g))
      PROVE  /\ OnceIn(Chain') /\ \A i \in 1..Len(Stack') : OnceIn(Stack'[i])
             /\ \A h \in Goroutines : Halfway(h)' => ~Contains(Chain', name(h)')
  <2>1. ~BetweenHalves(g)
    BY <1>5, <1>7 DEF Crosses
  <2>2. \A h \in Goroutines \ {g} : ~Halfway(h)
    BY <2>1, HalfwayBetween
  <2> QED BY <1>3, <1>4, <1>7, <2>2
<1>8. ~crossed /\ OnceIn(Chain) /\ \A i \in 1..Len(Stack) : OnceIn(Stack[i])
  BY <1>1, <1>5 DEF Once, Effect, Idle, Crosses
<1>9. CASE Idle /\ (a = "remove" => ~Contains(Chain, name(g)))
  <2>1. Chain' = Chain /\ Stack' = Stack /\ crossed' = crossed
    BY <1>9, SameSlices DEF Idle
  <2> QED BY <1>6, <1>8, <1>9, <2>1
<1>10. CASE a = "add" /\ ~Idle
  <2>1. Renewed(Append(Chain, name(g))) /\ ~Contains(Chain, name(g)) /\ Crosses(g)
    BY <1>10 DEF Effect
  <2>2. Chain' = Append(Chain, name(g)) /\ Stack' = Stack
    BY <2>1, RenewedSlices, RenewedStack
  <2>3. OnceIn(Chain')
    BY <1>3, <1>8, <2>1, <2>2, OnceBehind
  <2> QED BY <1>7, <1>8, <1>10, <2>1, <2>2, <2>3
<1>11. CASE a = "remove" /\ Contains(Chain, name(g))
  <2>1. Renewed(RemoveFirst(Chain, name(g))) /\ Contains(Chain, name(g)) /\ Crosses(g)
    BY <1>11 DEF Effect
  <2>2. Chain' = RemoveFirst(Chain, name(g)) /\ Stack' = Stack
    BY <2>1, RenewedSlices, RenewedStack
  <2>3. OnceIn(Chain') /\ ~Contains(Chain', name(g))
    BY <1>3, <1>8, <2>1, <2>2, OnceWithout
  <2> QED BY <1>7, <1>8, <2>1, <2>2, <2>3
<1>12. CASE a = "front"
  <2>1. Renewed(<<name(g)>> \o Chain) /\ Crosses(g)
    BY <1>12 DEF Effect
  <2>2. Chain' = <<name(g)>> \o Chain /\ Stack' = Stack
    BY <2>1, RenewedSlices, RenewedStack
  <2>3. Halfway(g)
    <3>1. op(g) = "top" /\ pc(g) = 5
      BY <1>2, <1>3, <1>12, PathTable DEF P
    <3> QED BY <1>3, <3>1 DEF Halfway
  <2>4. ~Contains(Chain, name(g))
    BY <1>8, <2>3 DEF Once
  <2>5. OnceIn(Chain')
    BY <1>3, <1>8, <2>2, <2>4, OnceInFront
  <2> QED BY <1>7, <1>8, <1>12, <2>1, <2>2, <2>5
<1>13. CASE a = "reset"
  <2>1. Renewed(<<>>) /\ Crosses(g)
    BY <1>13 DEF Effect
  <2>2. Chain' = <<>> /\ Stack' = Stack
    BY <2>1, RenewedSlices, RenewedStack
  <2>3. OnceIn(Chain')
    BY <2>2 DEF OnceIn
  <2> QED BY <1>7, <1>8, <1>13, <2>1, <2>2, <2>3
<1>14. CASE a = "push"
  <2>1. Pushed /\ crossed' = crossed
    BY <1>14 DEF Effect
  <2>2. Chain' = Chain /\ Stack' = <<Chain>> \o Stack
    BY <2>1, PushedSlices
  <2>3. \A i \in 1..Len(Stack') : OnceIn(Stack'[i])
    <3> DEFINE v == <<Chain>> \o Stack
    <3>1. /\ Len(v) = Len(Stack) + 1 /\ v[1] = Chain /\ Len(Stack) \in Nat
          /\ \A i \in 1..Len(Stack) : v[i + 1] = Stack[i]
      BY <1>3, StackIs, InFront
    <3>2. Stack' = v
      BY <2>2
    <3> HIDE DEF v
    <3>3. ASSUME NEW i \in 1..Len(v) PROVE OnceIn(v[i])
      <4>1. CASE i = 1
        BY <1>8, <3>1, <4>1
      <4>2. CASE i # 1
        <5>1. i - 1 \in 1..Len(Stack) /\ (i - 1) + 1 = i
          BY <3>1, <4>2
        <5>2. v[(i - 1) + 1] = Stack[i - 1]
          BY <3>1, <5>1
        <5> QED BY <1>8, <5>1, <5>2
      <4> QED BY <4>1, <4>2
    <3> QED BY <3>2, <3>3
  <2> QED BY <1>6, <1>14, <2>1, <2>2, <2>3
<1>15. CASE a = "pop" /\ ~Idle
  <2>1. Popped /\ Crosses(g)
    BY <1>15 DEF Effect
  <2>2. Stack # <<>> /\ Chain' = Head(Stack) /\ Stack' = Tail(Stack)
    BY <2>1, PoppedSlices
  <2>3. Stack \in Seq(Seq(Names)) /\ Len(Stack) \in Nat
    BY StackIs
  <2>4. Head(Stack) = Stack[1] /\ 1 \in 1..Len(Stack)
    BY <2>2, <2>3, LenOf
  <2>5. Len(Tail(Stack)) = Len(Stack) - 1 /\ \A i \in 1..Len(Tail(Stack)) : Tail(Stack)[i] = Stack[i + 1]
    BY <2>2, <2>3, HeadTailProperties
  <2>6. OnceIn(Chain')
    BY <1>8, <2>2, <2>4
  <2>7. \A i \in 1..Len(Tail(Stack)) : i + 1 \in 1..Len(Stack)
    BY <2>3, <2>5
  <2>8. \A i \in 1..Len(Stack') : OnceIn(Stack'[i])
    BY <1>8, <2>2, <2>5, <2>7
  <2> QED BY <1>7, <1>15, <2>1, <2>6, <2>8
<1>16. a = "remove" /\ ~Contains(Chain, name(g)) => Idle
  BY DEF Effect
<1> QED BY <1>1, <1>9, <1>10, <1>11, <1>12, <1>13, <1>14, <1>15, <1>16

-----------------------------------------------------------------------------
(* The theorems *)

Good == Paths /\ Locking /\ Slices /\ Lookups /\ Once

LEMMA InitGood == Init => Good
<1> SUFFICES ASSUME Init PROVE Good
  OBVIOUS
<1>1. /\ heap = <<<<>>>> /\ uchain = [array |-> 1, len |-> 0] /\ ustack = <<>>
      /\ seen = [g \in Goroutines |-> <<>>]
  BY DEF Init
<1>2. heap \in Seq(Arrays) /\ Len(heap) = 1 /\ heap[1] = <<>>
  <2>1. <<>> \in Arrays
    BY EmptySeq DEF Arrays
  <2> QED BY <1>1, <2>1
<1>3. ustack \in Seq(Slice) /\ Len(ustack) = 0 /\ uchain \in Slice /\ uchain.array = 1 /\ uchain.len = 0
  BY <1>1, EmptySeq DEF Slice
<1>4. Len(heap[1]) = 0
  BY <1>2
<1>5. Slices
  BY <1>2, <1>3, <1>4 DEF Slices, SliceOK, Nested
<1>6. Lookups
  <2>1. \A g \in Goroutines : seen[g] = <<>>
    BY <1>1
  <2>2. \A g \in Goroutines : Len(seen[g]) = 0 /\ seen[g] \in Seq(Names)
    BY <2>1, EmptySeq
  <2>3. \A g \in Goroutines : Seen(g)
    BY <1>3, <2>2 DEF Seen
  <2> QED BY <1>1, <2>2, <2>3 DEF Lookups
<1>7. Once
  <2>1. Len(Chain) = 0 /\ Len(Stack) = 0
    BY <1>3, <1>5, ChainIs, StackIs
  <2>2. \A g \in Goroutines : ~Busy(g)
    BY DEF Init, Busy
  <2> QED BY <2>1, <2>2 DEF Once, OnceIn, Halfway
<1> QED BY <1>5, <1>6, <1>7, InitHolds DEF Good

LEMMA StepGood ==
  ASSUME Good, NEW g \in Goroutines, Step(g)
  PROVE  Good'
<1>1. Paths /\ Locking /\ Slices /\ Lookups /\ Once
  BY DEF Good
<1>2. Paths' /\ Locking'
  BY <1>1, StepHolds
<1>3. CASE Leaves(g)
  <2>1. Slices'
    BY <1>1, <1>3, SameSlices DEF Leaves, Same
  <2> QED BY <1>1, <1>2, <1>3, <2>1, LookupsStay, OnceLeft DEF Good
<1>4. CASE Changes(g) /\ \E a \in ChangeOps : Effect(g, a)
  <2>1. PICK a \in ChangeOps : Effect(g, a)
    BY <1>4
  <2>2. Slices'
    BY <1>1, <2>1, EffectSlices
  <2> QED BY <1>1, <1>2, <1>4, <2>1, <2>2, LookupsStay, OnceChanged DEF Good
<1> QED BY <1>1, <1>3, <1>4, StepsAre

LEMMA NothingGood ==
  ASSUME Good, UNCHANGED vars
  PROVE  Good'
<1>1. Paths' /\ Locking'
  BY NothingHolds DEF Good, vars
<1>2. Slices' /\ Chain' = Chain /\ Stack' = Stack
  BY SameSlices DEF Good, vars, Same
<1>3. Lookups'
  BY <1>2 DEF Good, vars, Lookups, Seen, At
<1>4. Once'
  <2>1. \A g \in Goroutines : (Halfway(g)' <=> Halfway(g)) /\ name(g)' = name(g)
    BY Stays DEF vars, Halfway
  <2> QED BY <1>2, <2>1 DEF Good, vars, Once
<1> QED BY <1>1, <1>2, <1>3, <1>4 DEF Good

LEMMA GoodNext == Good /\ [Next]_vars => Good'
BY StepGood, NothingGood DEF Next

THEOREM AllGood == Spec => []Good
BY InitGood, GoodNext, PTL DEF Spec

LEMMA GoodOnce ==
  ASSUME Good
  PROVE  TwiceOnlyCrossed
<1>1. Chain \in Seq(Names) /\ DOMAIN Chain = 1..Len(Chain)
  BY ChainIs, LenProperties DEF Good
<1> QED BY <1>1 DEF Good, Once, OnceIn, TwiceOnlyCrossed, Twice

(* uc_add looks for the name first and uc_top takes it out first, but the  *)
(* second locks anew for its other half: if the chain has a name twice,    *)
(* another goroutine has changed the chain between the halves of a uc_top. *)
THEOREM TwiceOnlyByCrossing == Spec => []TwiceOnlyCrossed
BY AllGood, GoodOnce, PTL

(* Every step of the slices is a step of the sequences, or none.           *)
LEMMA InitChains == Init => S!Init
<1> SUFFICES ASSUME Init PROVE S!Init
  OBVIOUS
<1>1. Good
  BY InitGood
<1>2. Chain = <<>>
  <2>1. Chain \in Seq(Names) /\ Len(Chain) = uchain.len /\ uchain.len = 0
    BY <1>1, ChainIs DEF Good, Init
  <2> QED BY <2>1, LenOf
<1>3. Stack = <<>>
  <2>1. Stack \in Seq(Seq(Names)) /\ Len(Stack) = Len(ustack) /\ Len(ustack) = 0
    BY <1>1, StackIs DEF Good, Init
  <2> QED BY <2>1, LenOf
<1> QED BY <1>2, <1>3 DEF S!Init, Stack, Init

LEMMA StepChains ==
  ASSUME Good, NEW g \in Goroutines, Step(g)
  PROVE  S!Next \/ (Chain' = Chain /\ Stack' = Stack /\ found' = found)
<1>1. Paths /\ Locking /\ Slices /\ Lookups
  BY DEF Good
<1>2. CASE Leaves(g)
  <2>1. Chain' = Chain /\ Stack' = Stack
    BY <1>1, <1>2, SameSlices DEF Leaves, Same
  <2>2. CASE uc_match(g) /\ ~(Len(seen[g]) < uchain.len)
    <3>1. found' = [found EXCEPT ![g] = Chain]
      BY <1>1, <2>2, SeenAll DEF uc_match
    <3> QED BY <2>1, <3>1 DEF S!Next, S!Look, Stack
  <2>3. CASE uc_match(g) /\ Len(seen[g]) < uchain.len
    BY <2>1, <2>3 DEF uc_match
  <2> QED BY <1>2, <2>1, <2>2, <2>3 DEF Leaves
<1>3. CASE Changes(g) /\ \E a \in ChangeOps : Effect(g, a)
  <2>1. PICK a \in ChangeOps : Effect(g, a)
    BY <1>3
  <2>2. a \in {"add", "remove", "front", "reset", "push", "pop"} /\ At(g, a) /\ Busy(g) /\ found' = found
    BY <1>3, <2>1 DEF Effect, ChangeOps, Edits, Changes, At, Busy
  <2>3. name(g) \in Names
    BY <1>1, <2>2, Busyness
  <2>4. CASE Idle
    BY <1>1, <2>2, <2>4, SameSlices DEF Idle
  <2>5. ASSUME NEW names, Renewed(names) PROVE Chain' = names /\ Stack' = Stack
    BY <1>1, <2>5, RenewedSlices, RenewedStack
  <2>6. CASE a = "add" /\ ~Idle
    <3>1. ~Contains(Chain, name(g)) /\ Chain' = Append(Chain, name(g)) /\ Stack' = Stack
      BY <2>1, <2>5, <2>6 DEF Effect
    <3>2. S!Add(name(g))
      BY <2>2, <3>1 DEF S!Add, S!Contains, Contains, Stack
    <3> QED BY <2>3, <3>2 DEF S!Next
  <2>7. CASE a = "remove" /\ ~Idle
    <3>1. Contains(Chain, name(g)) /\ Chain' = RemoveFirst(Chain, name(g)) /\ Stack' = Stack
      BY <2>1, <2>5, <2>7 DEF Effect
    <3>2. S!TakeOut(name(g))
      BY <2>2, <3>1 DEF S!TakeOut, S!Contains, Contains, S!RemoveFirst, RemoveFirst, S!RemoveAt, RemoveAt,
                        S!SelectInSeq, SelectInSeq, S!Min, Min, Stack
    <3> QED BY <2>3, <3>2 DEF S!Next
  <2>8. CASE a = "front"
    <3>1. Chain' = <<name(g)>> \o Chain /\ Stack' = Stack
      BY <2>1, <2>5, <2>8 DEF Effect
    <3>2. S!PutFirst(name(g))
      BY <2>2, <3>1 DEF S!PutFirst, Stack
    <3> QED BY <2>3, <3>2 DEF S!Next
  <2>9. CASE a = "reset"
    <3>1. Chain' = <<>> /\ Stack' = Stack
      BY <2>1, <2>5, <2>9 DEF Effect
    <3> QED BY <2>2, <3>1 DEF S!Next, S!Reset, Stack
  <2>10. CASE a = "push"
    <3>1. Chain' = Chain /\ Stack' = <<Chain>> \o Stack
      BY <1>1, <2>1, <2>10, PushedSlices DEF Effect
    <3> QED BY <2>2, <3>1 DEF S!Next, S!Push, Stack
  <2>11. CASE a = "pop" /\ ~Idle
    <3>1. Stack # <<>> /\ Chain' = Head(Stack) /\ Stack' = Tail(Stack)
      BY <1>1, <2>1, <2>11, PoppedSlices DEF Effect
    <3> QED BY <2>2, <3>1 DEF S!Next, S!Pop, Stack
  <2> QED BY <2>2, <2>4, <2>6, <2>7, <2>8, <2>9, <2>10, <2>11
<1> QED BY <1>1, <1>2, <1>3, StepsAre

(* The slices of shared arrays, changed in place and copied, do for the    *)
(* chain and its stack what sequences would, and every lookup goes through *)
(* the names of one chain: uc_add never writes a name that a pushed slice  *)
(* still shows, and the locks keep a change out of a lookup.               *)
THEOREM SlicesAreSequences == Spec => ChainSpec
<1>1. Good /\ [Next]_vars => [S!Next]_(S!chains)
  <2> SUFFICES ASSUME Good, [Next]_vars PROVE S!Next \/ UNCHANGED S!chains
    OBVIOUS
  <2>1. CASE UNCHANGED vars
    <3>1. Chain' = Chain /\ Stack' = Stack /\ found' = found
      BY <2>1, SameSlices DEF Good, Same, vars
    <3> QED BY <3>1 DEF S!chains, Stack
  <2>2. CASE Next
    <3>1. S!Next \/ (Chain' = Chain /\ Stack' = Stack /\ found' = found)
      BY <2>2, StepChains DEF Next
    <3> QED BY <3>1 DEF S!chains, Stack
  <2> QED BY <2>1, <2>2
<1> QED BY <1>1, AllGood, InitChains, PTL DEF Spec, ChainSpec, S!Spec
=============================================================================

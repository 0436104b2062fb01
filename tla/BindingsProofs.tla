--------------------------- MODULE BindingsProofs ---------------------------
(***************************************************************************)
(* The bindings, for any names, tasks and texts.  Slots are never shared   *)
(* and never move; and in programs without try blocks, reaching variables  *)
(* by slot is the same as by name (Scopes).                                *)
(***************************************************************************)
EXTENDS Bindings, FiniteSetTheorems, SequenceTheorems, WellFoundedInduction, TLAPS

Kept == {"main", "mod", "fun", "try"}

(* A binding table: finite, and a slot for each name. *)
Table(m) ==
  /\ DOMAIN m \subseteq Names
  /\ m = [n \in DOMAIN m |-> m[n]]
  /\ IsFiniteSet(DOMAIN m)
  /\ Used(m) \subseteq Nat

OneToOne(m) == \A x, y \in DOMAIN m : m[x] = m[y] => x = y

(* Every name of m has the same slot in k. *)
Within(m, k) == \A n \in DOMAIN m : n \in DOMAIN k /\ k[n] = m[n]

-----------------------------------------------------------------------------
(* bind_int *)

LEMMA LeastOf ==
  ASSUME NEW T, T \subseteq Nat, T # {}
  PROVE  \E x \in T : \A y \in T : x <= y
<1> DEFINE D == {0..x : x \in T}
<1>1. D \subseteq FiniteSubsetsOf(Nat) /\ D # {}
  <2>1. \A x \in T : 0..x \in SUBSET Nat /\ IsFiniteSet(0..x)
    BY FS_Interval
  <2> QED BY <2>1 DEF FiniteSubsetsOf
<1>2. PICK d \in D : \A e \in D : ~(<<e, d>> \in StrictSubsetOrdering(Nat))
  BY <1>1, FS_StrictSubsetOrderingWellFounded, WFMin
<1>3. PICK x \in T : d = 0..x
  OBVIOUS
<1>4. \A y \in T : y < x => 0..y \subseteq 0..x /\ 0..y # 0..x
  OBVIOUS
<1>5. ASSUME NEW y \in T, y < x PROVE FALSE
  <2>1. 0..y \in D /\ 0..y \in SUBSET Nat /\ 0..x \in SUBSET Nat
    BY <1>5
  <2>2. <<0..y, 0..x>> \in StrictSubsetOrdering(Nat)
    BY <1>4, <1>5, <2>1 DEF StrictSubsetOrdering
  <2> QED BY <1>2, <1>3, <2>1, <2>2
<1> QED BY <1>5

LEMMA UsedFinite ==
  ASSUME NEW m, Table(m)
  PROVE  IsFiniteSet(Used(m)) /\ Cardinality(Used(m)) <= Cardinality(DOMAIN m)
<1> DEFINE f == [n \in DOMAIN m |-> m[n]]
<1>1. f \in Surjection(DOMAIN m, Used(m))
  BY DEF Surjection, Used
<1> QED BY <1>1, FS_Surjection DEF Table

(* The search ends: n names leave one of n + 1 numbers free. *)
LEMMA FreshIsFree ==
  ASSUME NEW m, Table(m)
  PROVE  Fresh(m) \in Nat /\ Fresh(m) \notin Used(m)
<1> DEFINE c == Cardinality(DOMAIN m)
           T == {i \in c..2 * c : i \notin Used(m)}
<1>1. c \in Nat
  BY FS_CardinalityType DEF Table
<1>2. IsFiniteSet(c..2 * c) /\ Cardinality(c..2 * c) = c + 1
  BY <1>1, FS_Interval
<1>3. T # {}
  <2> SUFFICES ASSUME T = {} PROVE FALSE
    OBVIOUS
  <2>1. (c..2 * c) \in SUBSET Used(m)
    OBVIOUS
  <2>2. Cardinality(c..2 * c) <= Cardinality(Used(m)) /\ Cardinality(Used(m)) \in Nat
    BY <2>1, UsedFinite, FS_Subset, FS_CardinalityType
  <2> HIDE DEF c
  <2> QED BY <2>2, <1>1, <1>2, UsedFinite DEF c
<1>4. PICK x \in T : \A y \in T : x <= y
  <2>1. T \subseteq Nat
    BY <1>1
  <2> HIDE DEF T
  <2> QED BY <1>3, <2>1, LeastOf
<1>5. \A j \in c..(x - 1) : j \in Used(m)
  BY <1>1, <1>4
<1>6. \E i \in c..2 * c : i \notin Used(m) /\ \A j \in c..(i - 1) : j \in Used(m)
  BY <1>4, <1>5
<1>7. Fresh(m) \in c..2 * c /\ Fresh(m) \notin Used(m)
  BY <1>6 DEF Fresh
<1> QED BY <1>1, <1>7

(* A name that is inserted gets a slot of its own, and moves no other. *)
LEMMA BoundKeeps ==
  ASSUME NEW m, Table(m), OneToOne(m), NEW n \in Names
  PROVE  /\ Table(Bound(m, n)) /\ OneToOne(Bound(m, n))
         /\ Within(m, Bound(m, n)) /\ n \in DOMAIN Bound(m, n)
<1>1. CASE n \in DOMAIN m
  BY <1>1 DEF Bound, Within
<1>2. CASE n \notin DOMAIN m
  <2>1. Bound(m, n) = [x \in {n} \cup DOMAIN m |-> IF x = n THEN Fresh(m) ELSE m[x]]
    BY <1>2 DEF Bound, Put
  <2>2. IsFiniteSet(DOMAIN m \cup {n})
    BY FS_AddElement DEF Table
  <2> DEFINE b == Bound(m, n)
  <2>3. DOMAIN b = DOMAIN m \cup {n} /\ b[n] = Fresh(m) /\ \A x \in DOMAIN m : b[x] = m[x]
    BY <2>1, <1>2
  <2>4. b = [x \in DOMAIN b |-> b[x]]
    BY <2>1
  <2> HIDE DEF b
  <2>5. Used(b) \subseteq Nat
    BY <2>3, FreshIsFree DEF Used, Table
  <2>6. OneToOne(b)
    BY <2>3, FreshIsFree DEF OneToOne, Used
  <2>7. Within(m, b)
    BY <2>3 DEF Within
  <2>8. Table(b)
    BY <2>2, <2>3, <2>4, <2>5 DEF Table
  <2> QED BY <2>3, <2>6, <2>7, <2>8 DEF b
<1> QED BY <1>1, <1>2

(* A token takes the slot that its name has in k. *)
LEMMA PutKeeps ==
  ASSUME NEW m, Table(m), NEW k, Table(k), OneToOne(k), Within(m, k), NEW n \in DOMAIN k
  PROVE  /\ Table(Put(m, n, k[n])) /\ OneToOne(Put(m, n, k[n]))
         /\ Within(Put(m, n, k[n]), k)
         /\ DOMAIN Put(m, n, k[n]) = DOMAIN m \cup {n}
<1> DEFINE p == Put(m, n, k[n])
<1>1. p = [x \in {n} \cup DOMAIN m |-> IF x = n THEN k[n] ELSE m[x]]
  BY DEF Put
<1>2. DOMAIN p = DOMAIN m \cup {n} /\ \A x \in DOMAIN p : x \in DOMAIN k /\ p[x] = k[x]
  BY <1>1 DEF Within
<1>3. p = [x \in DOMAIN p |-> p[x]]
  BY <1>1
<1>4. IsFiniteSet(DOMAIN m \cup {n})
  BY FS_AddElement DEF Table
<1> HIDE DEF p
<1>5. OneToOne(p) /\ Within(p, k)
  BY <1>2 DEF OneToOne, Within
<1>6. Table(p)
  BY <1>2, <1>3, <1>4 DEF Table, Used
<1> QED BY <1>2, <1>5, <1>6 DEF p

LEMMA WithinTransitive ==
  ASSUME NEW m, NEW k, NEW l, Within(m, k), Within(k, l)
  PROVE  Within(m, l)
  BY DEF Within

LEMMA EmptyTable == Table(Empty) /\ OneToOne(Empty) /\ \A k : Within(Empty, k)
  BY FS_EmptySet DEF Table, OneToOne, Within, Empty, Used

-----------------------------------------------------------------------------
(* The invariant *)

Good(m) == Table(m) /\ OneToOne(m)

(* The file that the try block of the text is in, and the space that the  *)
(* tokens of a phrase are bound in.                                       *)
TryFile == IF TryAt(text.main) # {} \/ ~text.module THEN "main" ELSE "mod"
Home(k) == IF k = "try" THEN TryFile ELSE k

Items ==
  {w \in [st : Simple \union Blocks, space : {"main", "mod", "fun"}, kept : Kept] :
     w.space = Home(w.kept)}

AllGood ==
  /\ DOMAIN bindings = Spaces /\ \A sp \in Spaces : Good(bindings[sp])
  /\ DOMAIN tok = Kept /\ \A k \in Kept : Good(tok[k])

(* While the lexer reads, nothing runs, and the tokens have the slots of  *)
(* the names they were bound to.                                          *)
Reading ==
  /\ unread \in Seq(Items)
  /\ unread # <<>> =>
       /\ \A g \in Callers : at[g] = 0
       /\ bindings["try"] = Empty
       /\ \A k \in Kept : Within(tok[k], bindings[Home(k)])

(* A space that was called has the slots of its tokens. *)
Copies ==
  /\ Within(tok["main"], bindings["main"])
  /\ \A g \in Tasks : IF at[g] = 0 THEN bindings[g] = Empty ELSE Within(tok["fun"], bindings[g])
  /\ bindings["try"] = Empty \/ Within(tok["try"], bindings["try"])
  /\ \A g \in Callers : InTry(g) => Within(tok["try"], bindings["try"])

(* Between the two locks of bind_int a goroutine is at a statement, and   *)
(* binds in its own space or that of the main program.                    *)
AtStatement(g) ==
  Open(g) /\ IF InTry(g) THEN within[g] \in DOMAIN Outer(g).body ELSE ~IsTry(Outer(g))

MissedAt == \A g \in Callers :
  missed[g] # None => AtStatement(g) /\ missed[g] \in {Fs(g), "main"}

IInv == /\ TypeOK /\ DOMAIN table = Callers
        /\ AllGood /\ Reading /\ Copies /\ MissedAt

-----------------------------------------------------------------------------
(* Texts *)

LEMMA BodyType ==
  ASSUME text \in Texts, NEW g \in Callers
  PROVE  Body(g) \in Seq(Simple \union Blocks)
  BY TextsAssumption DEF Scripts, Body

LEMMA StatementType ==
  ASSUME text \in Texts, NEW g \in Callers, Open(g)
  PROVE  /\ Outer(g) \in Simple \union Blocks
         /\ IsTry(Outer(g)) => Outer(g).body \in Seq(Simple)
         /\ ~IsTry(Outer(g)) => Outer(g) \in Simple
<1>1. Outer(g) \in Simple \union Blocks
  BY BodyType DEF Open, Outer
<1> QED BY <1>1 DEF Simple, Blocks, IsTry

LEMMA StatementAt ==
  ASSUME text \in Texts, NEW g \in Callers, AtStatement(g), TypeOK
  PROVE  St(g) \in Simple /\ St(g).n \in Names /\ at[g] # 0
<1>1. St(g) \in Simple
  BY StatementType DEF AtStatement, St, TypeOK
<1>2. at[g] # 0
  BY BodyType DEF AtStatement, Open
<1> QED BY <1>1, <1>2 DEF Simple

LEMMA WordsType ==
  ASSUME NEW sts, NEW Kinds, sts \in Seq(Kinds), Kinds \subseteq Simple \union Blocks,
         NEW k \in Kept
  PROVE  Words(sts, Home(k), k) \in Seq(Items)
<1>1. DOMAIN sts = 1..Len(sts) /\ Len(sts) \in Nat
  OBVIOUS
<1>2. \A i \in 1..Len(sts) : [st |-> sts[i], space |-> Home(k), kept |-> k] \in Items
  BY DEF Items, Home, TryFile, Kept
<1> QED BY <1>1, <1>2, IsASeq DEF Words

LEMMA FileWordsType ==
  ASSUME NEW sts, sts \in Seq(Simple \union Blocks), NEW file \in {"main", "mod"},
         \A i, j \in TryAt(sts) : i = j,
         TryAt(sts) # {} => TryFile = file
  PROVE  FileWords(sts, file) \in Seq(Items)
<1>1. CASE TryAt(sts) = {}
  BY <1>1, WordsType DEF FileWords, Home, Kept
<1>2. CASE TryAt(sts) # {}
  <2> DEFINE i == CHOOSE j \in TryAt(sts) : TRUE
  <2>1. i \in TryAt(sts) /\ i \in DOMAIN sts /\ sts[i].op = "try"
    BY <1>2 DEF TryAt
  <2>2. sts[i].body \in Seq(Simple)
    <3>1. sts[i] \in Simple \union Blocks
      BY <2>1
    <3> HIDE DEF i
    <3> QED BY <2>1, <3>1 DEF Simple, Blocks
  <2>3. /\ SubSeq(sts, 1, i - 1) \in Seq(Simple \union Blocks)
        /\ SubSeq(sts, i + 1, Len(sts)) \in Seq(Simple \union Blocks)
    BY <2>1, SubSeqProperties
  <2> HIDE DEF i
  <2>4. /\ Words(SubSeq(sts, 1, i - 1), file, file) \in Seq(Items)
        /\ Words(sts[i].body, file, "try") \in Seq(Items)
        /\ Words(SubSeq(sts, i + 1, Len(sts)), file, file) \in Seq(Items)
    BY <1>2, <2>2, <2>3, WordsType DEF Home, Kept
  <2>5. FileWords(sts, file) =
          Words(SubSeq(sts, 1, i - 1), file, file) \o Words(sts[i].body, file, "try")
          \o Words(SubSeq(sts, i + 1, Len(sts)), file, file)
    BY <1>2 DEF FileWords, i
  <2> QED BY <2>4, <2>5
<1> QED BY <1>1, <1>2

LEMMA LexedType == text \in Texts => Lexed(text) \in Seq(Items)
<1> SUFFICES ASSUME text \in Texts PROVE Lexed(text) \in Seq(Items)
  OBVIOUS
<1> DEFINE file == IF text.module THEN "mod" ELSE "main"
<1>1. text.main \in Seq(Simple \union Blocks) /\ text.fun \in Seq(Simple \union Blocks)
  BY TextsAssumption DEF Scripts
<1>2. FileWords(text.fun, file) \in Seq(Items)
  BY <1>1, FileWordsType, TextsAssumption DEF TryFile
<1>3. FileWords(text.main, "main") \in Seq(Items)
  BY <1>1, FileWordsType, TextsAssumption DEF TryFile
<1>4. Words(text.fun, "fun", "fun") \in Seq(Items)
  BY <1>1, WordsType DEF Home, Kept
<1> QED BY <1>2, <1>3, <1>4 DEF Lexed

-----------------------------------------------------------------------------
(* The steps *)

LEMMA InitIInv == Init => IInv
<1> SUFFICES ASSUME Init PROVE IInv
  OBVIOUS
<1>1. TypeOK /\ DOMAIN table = Callers
  BY DEF Init, TypeOK, Empty, Used, InTry
<1>2. AllGood
  BY EmptyTable DEF Init, AllGood, Good, Kept
<1>3. Reading
  BY EmptyTable, LexedType DEF Init, Reading, Kept, Spaces, Home, TryFile
<1>4. Copies
  BY EmptyTable DEF Init, Copies, Spaces, InTry, Kept
<1>5. MissedAt
  BY DEF Init, MissedAt
<1> QED BY <1>1, <1>2, <1>3, <1>4, <1>5 DEF IInv

(* Reading a word binds it, and gives its token that slot. *)
LEMMA ReadWordIInv == IInv /\ ReadWord => IInv'
<1> SUFFICES ASSUME IInv, ReadWord PROVE IInv'
  OBVIOUS
<1> DEFINE w == Head(unread)
           m == Bound(bindings[w.space], w.st.n)
<1>1. unread # <<>> /\ unread \in Seq(Items)
  BY DEF ReadWord, IInv, Reading
<1>2. w \in Items /\ Tail(unread) \in Seq(Items)
  BY <1>1
<1>3. w.space \in Spaces /\ w.kept \in Kept /\ w.space = Home(w.kept)
  BY <1>2 DEF Items, Spaces
<1>4. UNCHANGED <<text, table, at, within, missed, last>> /\ unread' = Tail(unread)
  BY DEF ReadWord
<1>5. MissedAt'
  BY <1>4 DEF IInv, MissedAt, AtStatement, Fs, Open, InTry, Outer, Body, IsTry
<1>6. CASE ~HasToken(w.st)
  <2>1. UNCHANGED <<bindings, tok>>
    BY <1>6 DEF ReadWord
  <2>2. TypeOK' /\ AllGood' /\ Copies'
    BY <2>1, <1>4 DEF IInv, TypeOK, AllGood, Copies, InTry, Open, Outer, Body, IsTry
  <2>3. Reading'
    BY <2>1, <1>2, <1>4, <1>1 DEF IInv, Reading, Home, TryFile, Items
  <2> QED BY <1>4, <1>5, <2>2, <2>3 DEF IInv
<1>7. CASE HasToken(w.st)
  <2>1. /\ bindings' = [bindings EXCEPT ![w.space] = m]
        /\ tok' = [tok EXCEPT ![w.kept] = Put(@, w.st.n, m[w.st.n])]
    BY <1>7 DEF ReadWord
  <2>2. w.st.n \in Names
    BY <1>2, <1>7 DEF Items, Simple, Blocks, HasToken
  <2>3. Good(bindings[w.space]) /\ Good(tok[w.kept]) /\ Within(tok[w.kept], bindings[w.space])
    BY <1>1, <1>3 DEF IInv, AllGood, Reading
  <2>4. Good(m) /\ Within(bindings[w.space], m) /\ w.st.n \in DOMAIN m
    BY <2>2, <2>3, BoundKeeps DEF Good
  <2>5. Within(tok[w.kept], m)
    BY <2>3, <2>4, WithinTransitive
  <2> HIDE DEF m
  <2>6. Good(Put(tok[w.kept], w.st.n, m[w.st.n])) /\ Within(Put(tok[w.kept], w.st.n, m[w.st.n]), m)
    BY <2>3, <2>4, <2>5, PutKeeps DEF Good
  <2>7. AllGood'
    BY <1>3, <2>1, <2>4, <2>6 DEF IInv, AllGood
  <2>8. TypeOK'
    BY <1>4, <2>7 DEF IInv, TypeOK, AllGood, Good, Table, InTry, Open, Outer, Body, IsTry
  <2>9. \A k \in Kept : Within(tok'[k], bindings'[Home(k)])
    <3> SUFFICES ASSUME NEW k \in Kept PROVE Within(tok'[k], bindings'[Home(k)])
      OBVIOUS
    <3>1. Home(k) \in Spaces /\ Within(tok[k], bindings[Home(k)])
      BY <1>1 DEF IInv, Reading, Home, TryFile, Kept, Spaces
    <3>2. Within(tok[k], bindings'[Home(k)])
      BY <3>1, <2>1, <2>4, <1>3, WithinTransitive DEF IInv, AllGood
    <3>3. CASE k = w.kept
      BY <3>3, <1>3, <2>1, <2>6 DEF IInv, AllGood
    <3>4. CASE k # w.kept
      BY <3>2, <3>4, <2>1 DEF IInv, AllGood
    <3> QED BY <3>3, <3>4
  <2>10. \A sp \in {"try"} \union Tasks : bindings'[sp] = bindings[sp]
    BY <1>2, <2>1, CallersAssumption DEF Items, IInv, AllGood, Spaces
  <2>11. Reading'
    BY <1>1, <1>2, <1>4, <2>9, <2>10 DEF IInv, Reading, Home, TryFile, Items
  <2>12. Copies'
    <3>1. \A g \in Callers : at[g] = 0 /\ ~InTry(g)
      <4> SUFFICES ASSUME NEW g \in Callers, InTry(g) PROVE at[g] # 0
        BY <1>1 DEF IInv, Reading
      <4> QED BY BodyType DEF IInv, TypeOK, Open
    <3>2. Within(tok'["main"], bindings'["main"])
      BY <2>9 DEF Kept, Home
    <3>3. bindings["try"] = Empty
      BY <1>1 DEF IInv, Reading
    <3>4. \A g \in Tasks : bindings[g] = Empty
      BY <3>1 DEF IInv, Copies, Callers
    <3> QED BY <1>4, <2>10, <3>1, <3>2, <3>3, <3>4 DEF Copies, InTry, Callers
  <2> QED BY <1>4, <1>5, <2>7, <2>8, <2>11, <2>12 DEF IInv
<1> QED BY <1>6, <1>7

(* What a step of a running program leaves alone. *)
LEMMA NothingToRead ==
  ASSUME IInv, NEW g \in Callers, at[g] # 0
  PROVE  unread = <<>>
  BY DEF IInv, Reading

(* A call starts with the slots of its tokens. *)
LEMMA BeginIInv == ASSUME IInv, NEW g \in Callers, Begin(g) PROVE IInv'
<1> DEFINE sp == IF g = Main THEN "main" ELSE g
           k  == IF g = Main THEN "main" ELSE "fun"
<1>1. sp \in Spaces /\ k \in Kept /\ sp # "try"
  BY CallersAssumption DEF Callers, Spaces, Kept
<1>2. /\ bindings' = [bindings EXCEPT ![sp] = tok[k]]
      /\ at' = [at EXCEPT ![g] = 1] /\ at[g] = 0 /\ unread = <<>>
      /\ UNCHANGED <<text, unread, tok, table, within, missed, last>>
  BY DEF Begin
<1>3. ~InTry(g) /\ missed[g] = None
  BY <1>2, BodyType DEF IInv, TypeOK, Open, MissedAt, AtStatement
<1>4. AllGood'
  BY <1>1, <1>2 DEF IInv, AllGood
<1>5. TypeOK'
  BY <1>2, <1>3, <1>4 DEF IInv, TypeOK, AllGood, Good, Table, InTry, Open, Outer, Body, IsTry
<1>6. Reading'
  BY <1>2 DEF IInv, Reading, Items, Home, TryFile
<1>7. Within(tok[k], tok[k])
  BY DEF Within
<1>8. Copies'
  BY <1>1, <1>2, <1>3, <1>7, CallersAssumption DEF IInv, Copies, TypeOK, AllGood, InTry, Callers, Spaces
<1>9. MissedAt'
  BY <1>2, <1>3 DEF IInv, MissedAt, AtStatement, Fs, Open, InTry, Outer, Body, IsTry, TypeOK
<1> QED BY <1>2, <1>4, <1>5, <1>6, <1>8, <1>9 DEF IInv

LEMMA MissIInv == ASSUME IInv, NEW g \in Callers, Miss(g) PROVE IInv'
<1>1. UNCHANGED <<text, unread, tok, bindings, table, at, within, last>> /\ Ready(g)
  BY DEF Miss
<1>2. PICK sp \in Wanted(g) : missed' = [missed EXCEPT ![g] = sp]
  BY DEF Miss
<1>3. Fs(g) \in Spaces /\ sp \in {Fs(g), "main"}
  BY <1>1, <1>2, StatementAt DEF Fs, Wanted, Spaces, Callers, Ready, AtStatement, IInv, TypeOK, Simple
<1>4. sp \in Spaces
  BY <1>3 DEF Spaces
<1>5. TypeOK'
  BY <1>1, <1>2, <1>4 DEF IInv, TypeOK, InTry, Open, Outer, Body, IsTry
<1>6. AllGood' /\ Reading' /\ Copies'
  BY <1>1 DEF IInv, AllGood, Reading, Copies, InTry, Items, Home, TryFile
<1>7. MissedAt'
  BY <1>1, <1>2, <1>3 DEF IInv, MissedAt, AtStatement, Fs, Ready, Open, InTry, Outer, Body, IsTry, TypeOK
<1> QED BY <1>1, <1>5, <1>6, <1>7 DEF IInv

(* What was bound meanwhile is kept. *)
LEMMA InsertIInv == ASSUME IInv, NEW g \in Callers, Insert(g) PROVE IInv'
<1> DEFINE sp == missed[g]
           m  == Bound(bindings[sp], St(g).n)
<1>1. /\ bindings' = [bindings EXCEPT ![sp] = m] /\ missed' = [missed EXCEPT ![g] = None]
      /\ UNCHANGED <<text, unread, tok, table, at, within, last>> /\ sp # None
  BY DEF Insert
<1>2. sp \in Spaces /\ AtStatement(g)
  BY <1>1 DEF IInv, TypeOK, MissedAt
<1>3. St(g).n \in Names /\ at[g] # 0
  BY <1>2, StatementAt DEF IInv, TypeOK
<1>4. Good(m) /\ Within(bindings[sp], m)
  BY <1>2, <1>3, BoundKeeps DEF IInv, AllGood, Good
<1> HIDE DEF m
<1>5. AllGood'
  BY <1>1, <1>2, <1>4 DEF IInv, AllGood
<1>6. \A s \in Spaces : Within(bindings[s], bindings'[s])
  BY <1>1, <1>2, <1>4 DEF IInv, AllGood, Within
<1>7. TypeOK'
  BY <1>1, <1>5 DEF IInv, TypeOK, AllGood, Good, Table, InTry, Open, Outer, Body, IsTry
<1>8. Reading'
  BY <1>1, <1>3, NothingToRead DEF IInv, Reading, Items, Home, TryFile
<1>9. MissedAt'
  BY <1>1 DEF IInv, MissedAt, AtStatement, Fs, Open, InTry, Outer, Body, IsTry, TypeOK
<1>10. Copies'
  <2>1. Within(tok'["main"], bindings'["main"])
    BY <1>1, <1>6, WithinTransitive DEF IInv, Copies, Spaces
  <2>2. ASSUME NEW h \in Tasks
        PROVE  IF at'[h] = 0 THEN bindings'[h] = Empty ELSE Within(tok'["fun"], bindings'[h])
    <3>1. h # "main" /\ h # "try" /\ h \in Spaces /\ h \in Callers
      BY CallersAssumption DEF Spaces, Callers
    <3>2. CASE at[h] = 0
      <4>1. sp # h
        BY <1>1, <1>3, <3>1, <3>2 DEF IInv, MissedAt, Fs
      <4> QED BY <1>1, <3>1, <3>2, <4>1 DEF IInv, Copies, AllGood
    <3>3. CASE at[h] # 0
      BY <1>1, <1>6, <3>1, <3>3, WithinTransitive DEF IInv, Copies
    <3> QED BY <3>2, <3>3
  <2>3. \A h \in Callers : InTry(h)' => Within(tok'["try"], bindings'["try"])
    BY <1>1, <1>6, WithinTransitive DEF IInv, Copies, InTry, Spaces
  <2>4. bindings'["try"] = Empty \/ Within(tok'["try"], bindings'["try"])
    <3>1. CASE sp = "try"
      <4>1. InTry(g)
        BY <1>1, <3>1, CallersAssumption DEF IInv, MissedAt, Fs, Callers
      <4> QED BY <1>1, <4>1, <2>3 DEF InTry
    <3>2. CASE sp # "try"
      BY <1>1, <3>2 DEF IInv, Copies, AllGood, Spaces
    <3> QED BY <3>1, <3>2
  <2> QED BY <1>1, <2>1, <2>2, <2>3, <2>4 DEF Copies, InTry
<1> QED BY <1>1, <1>5, <1>7, <1>8, <1>9, <1>10 DEF IInv

(* A statement changes one variable of its caller at most. *)
LEMMA StatementIInv ==
  ASSUME IInv, NEW g \in Callers, Set(g) \/ Key(g) \/ Get(g) \/ Vm(g) \/ Text(g)
  PROVE  IInv'
<1>1. PICK op \in {"set", "get", "vm", "text", "key"} : Do(g, op)
  BY DEF Set, Key, Get, Vm, Text
<1>2. Ready(g) /\ Advance(g) /\ UNCHANGED <<text, unread, tok, bindings, missed>>
  BY <1>1 DEF Do
<1>3. AtStatement(g) /\ missed[g] = None
  BY <1>2 DEF Ready, AtStatement
<1>4. St(g).n \in Names /\ at[g] # 0 /\ unread = <<>>
  BY <1>3, StatementAt, NothingToRead DEF IInv, TypeOK
<1>5. /\ DOMAIN table' = Callers
      /\ \A h \in Callers : \A slot \in DOMAIN table'[h] : table'[h][slot].name \in Names
  <2>1. CASE UNCHANGED table
    BY <2>1 DEF IInv, TypeOK
  <2>2. ASSUME NEW slot, NEW n \in Names, NEW v,
               table' = [table EXCEPT ![g] = Put(@, slot, [name |-> n, value |-> v])]
        PROVE  /\ DOMAIN table' = Callers
               /\ \A h \in Callers : \A s \in DOMAIN table'[h] : table'[h][s].name \in Names
    BY <2>2 DEF IInv, TypeOK, Put
  <2>3. CASE Set(g)
    <3> DEFINE n == IF Declared(g, Slot(g)) THEN table[g][Slot(g)].name ELSE St(g).n
    <3>1. n \in Names
      BY <1>4 DEF IInv, TypeOK, Declared
    <3>2. table' = [table EXCEPT ![g] = Put(@, Slot(g), [name |-> n, value |-> Mine(g)])]
      BY <2>3 DEF Set
    <3> HIDE DEF n
    <3> QED BY <2>2, <3>1, <3>2
  <2>4. CASE Key(g)
    <3>1. table' = [table EXCEPT ![g] =
                      Put(@, SlotIn(Fs(g), St(g).n), [name |-> St(g).n, value |-> Mine(g)])]
      BY <2>4 DEF Key
    <3> QED BY <1>4, <2>2, <3>1
  <2> QED BY <2>1, <2>3, <2>4 DEF Get, Vm, Text
<1>6. /\ at' \in [Callers -> Nat] /\ within' \in [Callers -> Nat]
      /\ at'[g] # 0
      /\ \A h \in Callers : h # g => at'[h] = at[h] /\ within'[h] = within[h]
      /\ \A h \in Callers : within'[h] > 0 <=> within[h] > 0
      /\ \A h \in Callers : within'[h] > 0 => at'[h] = at[h]
  <2>1. at \in [Callers -> Nat] /\ within \in [Callers -> Nat]
    BY DEF IInv, TypeOK
  <2>2. CASE InTry(g)
    BY <1>2, <1>4, <2>1, <2>2 DEF Advance, InTry
  <2>3. CASE ~InTry(g)
    BY <1>2, <1>4, <2>1, <2>3 DEF Advance, InTry
  <2> QED BY <2>2, <2>3
<1>7. TypeOK'
  BY <1>2, <1>5, <1>6 DEF IInv, TypeOK, InTry, Open, Outer, Body, IsTry
<1>8. AllGood' /\ Reading'
  BY <1>2, <1>4 DEF IInv, AllGood, Reading, Items, Home, TryFile
<1>9. Copies'
  BY <1>2, <1>4, <1>6 DEF IInv, Copies, InTry, Callers
<1>10. MissedAt'
  BY <1>2, <1>3, <1>6 DEF IInv, MissedAt, AtStatement, Fs, Open, InTry, Outer, Body, IsTry, TypeOK
<1> QED BY <1>5, <1>7, <1>8, <1>9, <1>10 DEF IInv

LEMMA EnterTryIInv == ASSUME IInv, NEW g \in Callers, EnterTry(g) PROVE IInv'
<1>1. /\ bindings' = [bindings EXCEPT !["try"] = tok["try"]]
      /\ within' = [within EXCEPT ![g] = 1]
      /\ UNCHANGED <<text, unread, tok, table, at, missed, last>>
      /\ Open(g) /\ IsTry(Outer(g)) /\ ~InTry(g)
  BY DEF EnterTry
<1>2. missed[g] = None /\ at[g] # 0 /\ unread = <<>>
  BY <1>1, BodyType, NothingToRead DEF IInv, MissedAt, AtStatement, Open, TypeOK
<1>3. AllGood'
  BY <1>1 DEF IInv, AllGood, Kept, Spaces
<1>4. TypeOK'
  BY <1>1, <1>3 DEF IInv, TypeOK, AllGood, Good, Table, InTry, Open, Outer, Body, IsTry
<1>5. Reading'
  BY <1>1, <1>2 DEF IInv, Reading, Items, Home, TryFile
<1>6. Within(tok["try"], tok["try"])
  BY DEF Within
<1>7. Copies'
  BY <1>1, <1>6, CallersAssumption DEF IInv, Copies, AllGood, Spaces, InTry
<1>8. MissedAt'
  BY <1>1, <1>2 DEF IInv, MissedAt, AtStatement, Fs, Open, InTry, Outer, Body, IsTry, TypeOK
<1> QED BY <1>1, <1>3, <1>4, <1>5, <1>7, <1>8 DEF IInv

LEMMA LeaveTryIInv == ASSUME IInv, NEW g \in Callers, LeaveTry(g) PROVE IInv'
<1>1. /\ within' = [within EXCEPT ![g] = 0]
      /\ at' = [at EXCEPT ![g] = @ + 1]
      /\ UNCHANGED <<text, unread, tok, bindings, table, missed, last>>
      /\ InTry(g) /\ within[g] > Len(Outer(g).body)
  BY DEF LeaveTry
<1>2. Open(g) /\ IsTry(Outer(g)) /\ at[g] # 0 /\ unread = <<>>
  BY <1>1, BodyType, NothingToRead DEF IInv, Open, TypeOK
<1>3. missed[g] = None
  BY <1>1, <1>2, StatementType DEF IInv, MissedAt, AtStatement, TypeOK
<1>4. TypeOK' /\ AllGood'
  BY <1>1 DEF IInv, TypeOK, AllGood, InTry, Open, Outer, Body, IsTry
<1>5. Reading'
  BY <1>1, <1>2 DEF IInv, Reading, Items, Home, TryFile
<1>6. Copies'
  BY <1>1, <1>2 DEF IInv, Copies, InTry, Callers, TypeOK
<1>7. MissedAt'
  BY <1>1, <1>3 DEF IInv, MissedAt, AtStatement, Fs, Open, InTry, Outer, Body, IsTry, TypeOK
<1> QED BY <1>1, <1>4, <1>5, <1>6, <1>7 DEF IInv

LEMMA NextIInv == IInv /\ [Next]_vars => IInv'
<1> SUFFICES ASSUME IInv, [Next]_vars PROVE IInv'
  OBVIOUS
<1>1. CASE ReadWord
  BY <1>1, ReadWordIInv
<1>2. ASSUME NEW g \in Callers, Step(g) PROVE IInv'
  BY <1>2, BeginIInv, MissIInv, InsertIInv, EnterTryIInv, LeaveTryIInv, StatementIInv DEF Step
<1>3. CASE UNCHANGED vars
  BY <1>3 DEF vars, IInv, TypeOK, AllGood, Reading, Copies, MissedAt, AtStatement, Fs,
              Open, InTry, Outer, Body, IsTry, Items, Home, TryFile
<1> QED BY <1>1, <1>2, <1>3 DEF Next, Ended

LEMMA Invariant == Spec => []IInv
<1> QED BY InitIInv, NextIInv, PTL DEF Spec

-----------------------------------------------------------------------------
(* Types are kept: names are bound to numbers, and only a statement that   *)
(* is a try block is entered (bind_int, storeLocal, C_Try).                *)
THEOREM TypesKept == Spec => []TypeOK
<1>1. IInv => TypeOK
  BY DEF IInv
<1> QED BY <1>1, Invariant, PTL

(* No two names of a space share a slot, whichever goroutines bind them    *)
(* and however the two critical sections of bind_int are mixed.            *)
THEOREM SlotsStayApart == Spec => []SlotsApart
<1>1. IInv => SlotsApart
  BY DEF IInv, AllGood, Good, OneToOne, SlotsApart
<1> QED BY <1>1, Invariant, PTL

(* A name keeps its slot: what bind_int returned stays right while others  *)
(* bind names, and a call that forgets the names of its space gives those  *)
(* it still has the slot they had.                                         *)
THEOREM NamesKeepTheirSlots == Spec => NamesStay
<1>1. ASSUME IInv, [Next]_vars, NEW sp \in Spaces, NEW n \in DOMAIN bindings[sp]
      PROVE  NameStays(sp, n)
  <2>1. ASSUME bindings'[sp] = bindings[sp] PROVE NameStays(sp, n)
    BY <1>1, <2>1 DEF NameStays
  <2>2. ASSUME Within(bindings[sp], bindings'[sp]) PROVE NameStays(sp, n)
    BY <1>1, <2>2 DEF NameStays, Within
  <2>3. CASE ReadWord
    <3>1. CASE bindings' = bindings
      BY <2>1, <3>1
    <3>2. CASE bindings' # bindings
      <4> DEFINE w == Head(unread)
      <4>1. w \in Items /\ HasToken(w.st)
        BY <2>3, <3>2, <1>1 DEF ReadWord, IInv, Reading
      <4>2. bindings' = [bindings EXCEPT ![w.space] = Bound(bindings[w.space], w.st.n)]
        BY <2>3, <4>1 DEF ReadWord
      <4>3. w.st.n \in Names /\ w.space \in Spaces
        BY <4>1 DEF Items, Simple, Blocks, HasToken, Spaces
      <4>4. Within(bindings[w.space], Bound(bindings[w.space], w.st.n))
        BY <1>1, <4>3, BoundKeeps DEF IInv, AllGood, Good
      <4>5. sp = w.space \/ bindings'[sp] = bindings[sp]
        BY <1>1, <4>2 DEF IInv, AllGood
      <4> QED BY <1>1, <2>1, <2>2, <4>2, <4>3, <4>4, <4>5 DEF IInv, AllGood
    <3> QED BY <3>1, <3>2
  <2>4. ASSUME NEW g \in Callers, Begin(g) PROVE NameStays(sp, n)
    <3> DEFINE own == IF g = Main THEN "main" ELSE g
               k   == IF g = Main THEN "main" ELSE "fun"
    <3>1. /\ bindings' = [bindings EXCEPT ![own] = tok[k]]
          /\ at' = [at EXCEPT ![g] = 1] /\ at[g] = 0
      BY <2>4 DEF Begin
    <3>2. at'[g] # at[g]
      BY <1>1, <3>1 DEF IInv, TypeOK
    <3>3. CASE sp # own
      BY <1>1, <2>1, <3>1, <3>3 DEF IInv, AllGood
    <3>4. CASE sp = own /\ g = Main
      BY <1>1, <3>1, <3>2, <3>4 DEF IInv, AllGood, Copies, Within, NameStays
    <3>5. CASE sp = own /\ g # Main
      BY <1>1, <2>4, <3>1, <3>5 DEF IInv, Copies, Empty, Callers
    <3> QED BY <3>3, <3>4, <3>5
  <2>5. ASSUME NEW g \in Callers, Insert(g) PROVE NameStays(sp, n)
    <3>1. /\ bindings' = [bindings EXCEPT ![missed[g]] = Bound(@, St(g).n)]
          /\ missed[g] # None
      BY <2>5 DEF Insert
    <3>2. missed[g] \in Spaces /\ St(g).n \in Names
      BY <1>1, <3>1, StatementAt DEF IInv, TypeOK, MissedAt
    <3>3. Within(bindings[missed[g]], Bound(bindings[missed[g]], St(g).n))
      BY <1>1, <3>2, BoundKeeps DEF IInv, AllGood, Good
    <3>4. sp = missed[g] \/ bindings'[sp] = bindings[sp]
      BY <1>1, <3>1 DEF IInv, AllGood
    <3> QED BY <1>1, <2>1, <2>2, <3>1, <3>2, <3>3, <3>4 DEF IInv, AllGood
  <2>6. ASSUME NEW g \in Callers, EnterTry(g) PROVE NameStays(sp, n)
    <3>1. /\ bindings' = [bindings EXCEPT !["try"] = tok["try"]]
          /\ within' = [within EXCEPT ![g] = 1] /\ ~InTry(g)
      BY <2>6 DEF EnterTry
    <3>2. within'[g] # within[g]
      BY <1>1, <3>1 DEF IInv, TypeOK, InTry
    <3>3. CASE sp # "try"
      BY <1>1, <2>1, <3>1, <3>3 DEF IInv, AllGood
    <3>4. CASE sp = "try"
      BY <1>1, <3>1, <3>2, <3>4 DEF IInv, AllGood, Copies, Within, NameStays, Empty
    <3> QED BY <3>3, <3>4
  <2>7. ASSUME NEW g \in Callers,
               Miss(g) \/ LeaveTry(g) \/ Set(g) \/ Key(g) \/ Get(g) \/ Vm(g) \/ Text(g)
        PROVE  NameStays(sp, n)
    BY <2>1, <2>7 DEF Miss, LeaveTry, Set, Key, Get, Vm, Text, Do
  <2>8. CASE UNCHANGED vars
    BY <2>1, <2>8 DEF vars
  <2> QED BY <1>1, <2>3, <2>4, <2>5, <2>6, <2>7, <2>8 DEF Next, Step, Ended
<1>2. IInv /\ [Next]_vars
      => [\A sp \in Spaces : \A n \in DOMAIN bindings[sp] : NameStays(sp, n)]_vars
  BY <1>1
<1> QED BY <1>2, Invariant, PTL DEF Spec, NamesStay

-----------------------------------------------------------------------------
(* Programs without try blocks: the slots implement a table by name. *)

NoTry == \A t \in Texts : TryAt(t.main) = {} /\ TryAt(t.fun) = {}

Own(g)    == IF g = Main THEN "main" ELSE g
Phrase(g) == IF g = Main THEN "main" ELSE "fun"

(* The name of a statement has a slot, or is still to be read. *)
TokensThere ==
  \A g \in Callers : \A i \in DOMAIN Body(g) :
    HasToken(Body(g)[i]) =>
      \/ Body(g)[i].n \in DOMAIN tok[Phrase(g)]
      \/ \E j \in DOMAIN unread : unread[j].st = Body(g)[i] /\ unread[j].kept = Phrase(g)

(* A variable is in the slot of its name, with a value assigned under it. *)
IsOwn(g, s) ==
  /\ table[g][s].name \in DOMAIN bindings[Own(g)]
  /\ bindings[Own(g)][table[g][s].name] = s
  /\ table[g][s].value \in Values
  /\ table[g][s].value.of = table[g][s].name

RecordsOwn == \A g \in Callers : \A s \in DOMAIN table[g] : IsOwn(g, s)

NothingYet == \A g \in Callers : at[g] = 0 => DOMAIN table[g] = {}

JInv == IInv /\ TokensThere /\ RecordsOwn /\ NothingYet

LEMMA NeverInTry ==
  ASSUME NoTry, IInv, NEW g \in Callers
  PROVE  /\ ~InTry(g)
         /\ Open(g) => ~IsTry(Outer(g)) /\ St(g) = Outer(g) /\ Fs(g) = Own(g)
<1>1. TryAt(Body(g)) = {}
  BY DEF NoTry, Body, IInv, TypeOK
<1>2. Open(g) => ~IsTry(Outer(g))
  BY <1>1 DEF Open, Outer, TryAt, IsTry
<1> QED BY <1>2 DEF IInv, TypeOK, St, Fs, Own

LEMMA OwnSpace == \A g \in Callers : Own(g) \in Spaces \ {"mod", "fun", "try"} /\ Phrase(g) \in Kept
  BY CallersAssumption DEF Own, Phrase, Callers, Spaces, Kept

(* A running caller's tokens have the slots of its own space. *)
LEMMA TokenSlot ==
  ASSUME NoTry, JInv, NEW g \in Callers, Open(g), HasToken(St(g))
  PROVE  /\ Slot(g) = tok[Phrase(g)][St(g).n]
         /\ St(g).n \in DOMAIN bindings[Own(g)]
         /\ Slot(g) = bindings[Own(g)][St(g).n]
<1>1. at[g] # 0 /\ unread = <<>>
  BY BodyType, NothingToRead DEF JInv, IInv, TypeOK, Open
<1>2. St(g).n \in DOMAIN tok[Phrase(g)]
  BY <1>1, NeverInTry DEF JInv, TokensThere, Open, Outer
<1>3. Within(tok[Phrase(g)], bindings[Own(g)])
  BY <1>1 DEF JInv, IInv, Copies, Phrase, Own, Callers
<1>4. Slot(g) = tok[Phrase(g)][St(g).n]
  BY NeverInTry DEF JInv, Slot, Phrase
<1> QED BY <1>2, <1>3, <1>4 DEF Within

(* In the slot of a name there is that name's variable or none. *)
LEMMA SlotOfName ==
  ASSUME JInv, NEW g \in Callers, NEW n \in DOMAIN bindings[Own(g)]
  PROVE  /\ Declared(g, bindings[Own(g)][n]) => Holds(g, bindings[Own(g)][n], n)
         /\ \A s \in DOMAIN table[g] : table[g][s].name = n => s = bindings[Own(g)][n]
<1>1. OneToOne(bindings[Own(g)])
  BY OwnSpace DEF JInv, IInv, AllGood, Good
<1> QED BY <1>1 DEF JInv, RecordsOwn, IsOwn, OneToOne, Declared, Holds

(* So the table by name is the variable in the slot of the name. *)
LEMMA ByNameIs ==
  ASSUME JInv, NEW g \in Callers, NEW n \in Names
  PROVE  /\ ByName(g, n) = IF n \in DOMAIN bindings[Own(g)]
                           THEN Named(g, bindings[Own(g)][n], n) ELSE None
         /\ ByName(g, n) \in Values \union {None}
<1> DEFINE slots == {s \in DOMAIN table[g] : table[g][s].name = n}
<1>1. CASE n \notin DOMAIN bindings[Own(g)]
  <2>1. slots = {}
    BY <1>1 DEF JInv, RecordsOwn, IsOwn
  <2> QED BY <1>1, <2>1 DEF ByName
<1>2. CASE n \in DOMAIN bindings[Own(g)]
  <2> DEFINE b == bindings[Own(g)][n]
  <2>1. slots = IF Holds(g, b, n) THEN {b} ELSE {}
    BY <1>2, SlotOfName DEF Holds, Declared
  <2>2. CASE Holds(g, b, n)
    <3>1. (CHOOSE s \in slots : TRUE) = b
      BY <2>1, <2>2
    <3>2. ByName(g, n) = table[g][b].value
      BY <2>1, <2>2, <3>1 DEF ByName
    <3>3. b \in DOMAIN table[g]
      BY <2>2 DEF Holds, Declared
    <3> QED BY <1>2, <2>2, <3>2, <3>3 DEF Named, JInv, RecordsOwn, IsOwn
  <2>3. CASE ~Holds(g, b, n)
    BY <1>2, <2>1, <2>3 DEF ByName, Named
  <2> QED BY <2>2, <2>3
<1> QED BY <1>1, <1>2

LEMMA OwnApart == \A g, h \in Callers : Own(g) = Own(h) => g = h
  BY CallersAssumption DEF Own, Callers

LEMMA InitTokensThere == NoTry /\ Init => TokensThere
<1> SUFFICES ASSUME NoTry, Init, NEW g \in Callers, NEW i \in DOMAIN Body(g)
             PROVE  \E j \in DOMAIN unread : unread[j].st = Body(g)[i] /\ unread[j].kept = Phrase(g)
  BY DEF TokensThere
<1> DEFINE file == IF text.module THEN "mod" ELSE "main"
           A == Words(text.fun, file, file)
           B == Words(text.main, "main", "main")
           C == Words(text.fun, "fun", "fun")
<1>1. unread = A \o B \o C
  BY DEF Init, Lexed, FileWords, NoTry
<1>2. text.main \in Seq(Simple \union Blocks) /\ text.fun \in Seq(Simple \union Blocks)
  BY TextsAssumption DEF Scripts, Init
<1>3. A \in Seq(Items) /\ B \in Seq(Items) /\ C \in Seq(Items)
  BY <1>2, WordsType DEF Home, Kept
<1>4. CASE g = Main
  <2>1. i \in DOMAIN B /\ B[i].st = Body(g)[i] /\ B[i].kept = Phrase(g)
    BY <1>4 DEF Words, Body, Phrase
  <2> HIDE DEF A, B, C
  <2>2. Len(A) + i \in DOMAIN (A \o B \o C) /\ (A \o B \o C)[Len(A) + i] = B[i]
    BY <1>3, <2>1
  <2> QED BY <1>1, <2>1, <2>2
<1>5. CASE g # Main
  <2>1. i \in DOMAIN C /\ C[i].st = Body(g)[i] /\ C[i].kept = Phrase(g)
    BY <1>5 DEF Words, Body, Phrase
  <2> HIDE DEF A, B, C
  <2>2. /\ Len(A) + Len(B) + i \in DOMAIN (A \o B \o C)
        /\ (A \o B \o C)[Len(A) + Len(B) + i] = C[i]
    BY <1>3, <2>1
  <2> QED BY <1>1, <2>1, <2>2
<1> QED BY <1>4, <1>5

LEMMA InitJInv == NoTry /\ Init => JInv
<1> SUFFICES ASSUME NoTry, Init PROVE JInv
  OBVIOUS
<1>1. IInv /\ TokensThere
  BY InitIInv, InitTokensThere
<1>2. RecordsOwn /\ NothingYet
  BY DEF Init, RecordsOwn, NothingYet, Empty
<1> QED BY <1>1, <1>2 DEF JInv

LEMMA ReadWordJInv == NoTry /\ JInv /\ ReadWord => JInv'
<1> SUFFICES ASSUME NoTry, JInv, ReadWord PROVE JInv'
  OBVIOUS
<1>1. IInv'
  BY ReadWordIInv DEF JInv
<1>2. unread # <<>> /\ unread \in Seq(Items) /\ UNCHANGED <<text, table, at>> /\ unread' = Tail(unread)
  BY DEF ReadWord, JInv, IInv, Reading
<1>3. \A g \in Callers : DOMAIN table[g] = {}
  BY <1>2 DEF JInv, IInv, Reading, NothingYet
<1>4. RecordsOwn' /\ NothingYet'
  BY <1>2, <1>3 DEF RecordsOwn, NothingYet
<1>5. TokensThere'
  <2> SUFFICES ASSUME NEW g \in Callers, NEW i \in DOMAIN Body(g), HasToken(Body(g)[i])
               PROVE  \/ Body(g)[i].n \in DOMAIN tok'[Phrase(g)]
                      \/ \E j \in DOMAIN unread' :
                           unread'[j].st = Body(g)[i] /\ unread'[j].kept = Phrase(g)
    BY <1>2 DEF TokensThere, Body
  <2>1. \A k \in Kept : DOMAIN tok[k] \subseteq DOMAIN tok'[k]
    BY DEF ReadWord, JInv, IInv, AllGood, Put
  <2>2. CASE Body(g)[i].n \in DOMAIN tok[Phrase(g)]
    BY <2>1, <2>2, OwnSpace
  <2>3. ASSUME NEW j \in DOMAIN unread, unread[j].st = Body(g)[i], unread[j].kept = Phrase(g)
        PROVE  \/ Body(g)[i].n \in DOMAIN tok'[Phrase(g)]
               \/ \E l \in DOMAIN unread' :
                    unread'[l].st = Body(g)[i] /\ unread'[l].kept = Phrase(g)
    <3>1. CASE j = 1
      <4>1. Head(unread).st = Body(g)[i] /\ Head(unread).kept = Phrase(g)
        BY <1>2, <2>3, <3>1
      <4>2. tok' = [tok EXCEPT ![Phrase(g)] = Put(@, Body(g)[i].n,
              Bound(bindings[Head(unread).space], Head(unread).st.n)[Head(unread).st.n])]
        BY <4>1 DEF ReadWord
      <4> QED BY <4>2, OwnSpace DEF Put, JInv, IInv, AllGood
    <3>2. CASE j # 1
      <4>1. j - 1 \in DOMAIN Tail(unread) /\ Tail(unread)[j - 1] = unread[j]
        BY <1>2, <2>3, <3>2
      <4> QED BY <1>2, <2>3, <4>1
    <3> QED BY <3>1, <3>2
  <2> QED BY <2>2, <2>3 DEF JInv, TokensThere
<1> QED BY <1>1, <1>4, <1>5 DEF JInv

LEMMA BeginJInv == ASSUME NoTry, JInv, NEW g \in Callers, Begin(g) PROVE JInv'
<1>1. IInv'
  BY BeginIInv DEF JInv
<1>2. /\ bindings' = [bindings EXCEPT ![Own(g)] = tok[Phrase(g)]]
      /\ at' = [at EXCEPT ![g] = 1] /\ at[g] = 0
      /\ UNCHANGED <<text, unread, tok, table>>
  BY DEF Begin, Own, Phrase
<1>3. TokensThere'
  BY <1>2 DEF JInv, TokensThere, Body
<1>4. \A h \in Callers : h # g => bindings'[Own(h)] = bindings[Own(h)]
  BY <1>2, OwnSpace, OwnApart DEF JInv, IInv, AllGood
<1>5. DOMAIN table[g] = {}
  BY <1>2 DEF JInv, NothingYet
<1>6. RecordsOwn'
  BY <1>2, <1>4, <1>5 DEF JInv, RecordsOwn, IsOwn
<1>7. NothingYet'
  BY <1>2, <1>5 DEF JInv, NothingYet, IInv, TypeOK
<1> QED BY <1>1, <1>3, <1>6, <1>7 DEF JInv

LEMMA InsertJInv == ASSUME NoTry, JInv, NEW g \in Callers, Insert(g) PROVE JInv'
<1>1. IInv'
  BY InsertIInv DEF JInv
<1>2. /\ bindings' = [bindings EXCEPT ![missed[g]] = Bound(@, St(g).n)] /\ missed[g] # None
      /\ UNCHANGED <<text, unread, tok, table, at>>
  BY DEF Insert
<1>3. missed[g] \in Spaces /\ St(g).n \in Names
  BY <1>2, StatementAt DEF JInv, IInv, TypeOK, MissedAt
<1>4. Within(bindings[missed[g]], Bound(bindings[missed[g]], St(g).n))
  BY <1>3, BoundKeeps DEF JInv, IInv, AllGood, Good
<1>5. \A s \in Spaces : Within(bindings[s], bindings'[s])
  BY <1>2, <1>3, <1>4 DEF JInv, IInv, AllGood, Within
<1>6. TokensThere' /\ NothingYet'
  BY <1>2 DEF JInv, TokensThere, NothingYet, Body
<1>7. RecordsOwn'
  BY <1>2, <1>5, OwnSpace DEF JInv, RecordsOwn, IsOwn, Within
<1> QED BY <1>1, <1>6, <1>7 DEF JInv

(* What an assignment does: the variable of the statement's name, in its   *)
(* slot, gets the value of the statement.                                  *)
Assigns(g) ==
  /\ St(g).n \in DOMAIN bindings[Own(g)]
  /\ table' = [table EXCEPT ![g] = Put(@, bindings[Own(g)][St(g).n],
                                      [name |-> St(g).n, value |-> Mine(g)])]

LEMMA Assignment ==
  ASSUME NoTry, JInv, NEW g \in Callers, Set(g) \/ Key(g)
  PROVE  Assigns(g)
<1>1. Open(g) /\ ~InTry(g) /\ Fs(g) = Own(g)
  BY NeverInTry DEF Set, Key, Do, Ready, JInv
<1>2. CASE Set(g)
  <2>1. HasToken(St(g))
    BY <1>2 DEF Set, Do, HasToken
  <2>2. Slot(g) = bindings[Own(g)][St(g).n] /\ St(g).n \in DOMAIN bindings[Own(g)]
    BY <1>1, <2>1, TokenSlot
  <2>3. Declared(g, Slot(g)) => table[g][Slot(g)].name = St(g).n
    BY <2>2, SlotOfName DEF Holds
  <2>4. table' = [table EXCEPT ![g] = Put(@, Slot(g),
          [name |-> IF Declared(g, Slot(g)) THEN table[g][Slot(g)].name ELSE St(g).n,
           value |-> Mine(g)])]
    BY <1>2 DEF Set
  <2> QED BY <2>2, <2>3, <2>4 DEF Assigns
<1>3. CASE Key(g)
  <2>1. Own(g) \in Wanted(g) /\ IsBound(Own(g), St(g).n)
    BY <1>1, <1>3 DEF Key, Do, Wanted
  <2> QED BY <1>1, <1>3, <2>1 DEF Key, Assigns, IsBound, SlotIn
<1> QED BY <1>2, <1>3

LEMMA MineType ==
  ASSUME NoTry, JInv, NEW g \in Callers, Ready(g)
  PROVE  St(g).n \in Names /\ Mine(g) \in Values /\ Mine(g).of = St(g).n
<1>1. AtStatement(g) /\ Open(g) /\ ~InTry(g)
  BY NeverInTry DEF Ready, AtStatement, JInv
<1>2. St(g).n \in Names
  BY <1>1, StatementAt DEF JInv, IInv, TypeOK
<1>3. at[g] \in 1..MaxLen
  BY <1>1, BodyType, TextsAssumption, CallersAssumption DEF Open, Body, JInv, IInv, TypeOK
<1>4. within[g] \in 0..MaxLen
  BY <1>1, CallersAssumption DEF InTry, JInv, IInv, TypeOK
<1> QED BY <1>2, <1>3, <1>4 DEF Mine, Values

LEMMA StatementJInv ==
  ASSUME NoTry, JInv, NEW g \in Callers, Set(g) \/ Key(g) \/ Get(g) \/ Vm(g) \/ Text(g)
  PROVE  JInv'
<1>1. IInv'
  BY StatementIInv DEF JInv
<1>2. /\ UNCHANGED <<text, unread, tok, bindings>> /\ Ready(g) /\ Advance(g)
  BY DEF Set, Key, Get, Vm, Text, Do
<1>3. TokensThere'
  BY <1>2 DEF JInv, TokensThere, Body
<1>4. Open(g) /\ ~InTry(g) /\ at[g] # 0
  BY <1>2, NeverInTry, BodyType DEF Ready, Open, JInv, IInv, TypeOK
<1>5. at'[g] # 0 /\ \A h \in Callers : h # g => at'[h] = at[h]
  BY <1>2, <1>4 DEF Advance, JInv, IInv, TypeOK
<1>6. CASE UNCHANGED table
  BY <1>1, <1>2, <1>3, <1>5, <1>6 DEF JInv, RecordsOwn, IsOwn, NothingYet
<1>7. CASE Set(g) \/ Key(g)
  <2>1. Assigns(g) /\ Mine(g) \in Values /\ Mine(g).of = St(g).n
    BY <1>2, <1>7, Assignment, MineType
  <2>2. NothingYet'
    BY <1>5, <2>1 DEF Assigns, JInv, NothingYet, IInv
  <2> DEFINE b == bindings[Own(g)][St(g).n]
             r == [name |-> St(g).n, value |-> Mine(g)]
  <2>3. table' = [table EXCEPT ![g] = Put(@, b, r)] /\ r.name = St(g).n /\ r.value = Mine(g)
    BY <2>1 DEF Assigns
  <2> HIDE DEF r
  <2>4. ASSUME NEW h \in Callers, NEW s \in DOMAIN table'[h] PROVE IsOwn(h, s)'
    <3>1. CASE h = g /\ s = b
      <4>1. table'[g][b] = r
        BY <2>3 DEF JInv, IInv, Put
      <4> QED BY <1>2, <2>1, <2>3, <3>1, <4>1 DEF IsOwn, Assigns, Own
    <3>2. CASE ~(h = g /\ s = b)
      <4>1. s \in DOMAIN table[h] /\ table'[h][s] = table[h][s]
        BY <2>3, <2>4, <3>2 DEF JInv, IInv, Put
      <4> QED BY <1>2, <4>1 DEF JInv, RecordsOwn, IsOwn, Own
    <3> QED BY <3>1, <3>2
  <2> QED BY <1>1, <1>3, <2>2, <2>4 DEF JInv, RecordsOwn
<1> QED BY <1>6, <1>7 DEF Get, Vm, Text

LEMMA NextJInv == NoTry /\ JInv /\ [Next]_vars => JInv'
<1> SUFFICES ASSUME NoTry, JInv, [Next]_vars PROVE JInv'
  OBVIOUS
<1>1. CASE ReadWord
  BY <1>1, ReadWordJInv
<1>2. ASSUME NEW g \in Callers, Step(g) PROVE JInv'
  <2>1. CASE Miss(g)
    <3>1. UNCHANGED <<text, unread, tok, bindings, table, at>> /\ IInv'
      BY <2>1, MissIInv DEF Miss, JInv
    <3>2. TokensThere' /\ NothingYet'
      BY <3>1 DEF JInv, TokensThere, NothingYet, Body
    <3>3. RecordsOwn'
      BY <3>1 DEF JInv, RecordsOwn, IsOwn
    <3> QED BY <3>1, <3>2, <3>3 DEF JInv
  <2>2. ~EnterTry(g) /\ ~LeaveTry(g)
    BY NeverInTry DEF JInv, EnterTry, LeaveTry
  <2> QED BY <1>2, <2>1, <2>2, BeginJInv, InsertJInv, StatementJInv DEF Step
<1>3. CASE UNCHANGED vars
  BY <1>3, NextIInv DEF vars, JInv, TokensThere, RecordsOwn, IsOwn, NothingYet, Body
<1> QED BY <1>1, <1>2, <1>3 DEF Next, Ended

(* Under the refinement mapping, an assignment is one by name ... *)
LEMMA AssignmentByName ==
  ASSUME NoTry, JInv, NEW g \in Callers, Set(g) \/ Key(g), NEW h \in Callers, NEW m \in Names
  PROVE  ByName(h, m)' = IF h = g /\ m = St(g).n THEN Mine(g) ELSE ByName(h, m)
<1> DEFINE b == bindings[Own(g)][St(g).n]
           r == [name |-> St(g).n, value |-> Mine(g)]
           old == {s \in DOMAIN table[h] : table[h][s].name = m}
           new == {s \in DOMAIN table'[h] : table'[h][s].name = m}
<1>1. St(g).n \in DOMAIN bindings[Own(g)] /\ table' = [table EXCEPT ![g] = Put(@, b, r)]
  BY Assignment DEF Assigns
<1>2. r.name = St(g).n /\ r.value = Mine(g)
  OBVIOUS
<1> HIDE DEF r
<1>3. CASE h # g
  BY <1>1, <1>3 DEF ByName, JInv, IInv
<1>4. CASE h = g /\ m = St(g).n
  <2>1. \A s \in DOMAIN table[g] : table[g][s].name = m => s = b
    BY <1>1, <1>4, SlotOfName
  <2>2. b \in DOMAIN table'[g] /\ table'[g][b] = r
    BY <1>1 DEF Put, JInv, IInv
  <2>3. new = {b}
    BY <1>1, <1>2, <1>4, <2>1, <2>2 DEF Put, JInv, IInv
  <2>4. (CHOOSE s \in new : TRUE) = b
    BY <2>3
  <2> QED BY <1>2, <1>4, <2>2, <2>3, <2>4 DEF ByName
<1>5. CASE h = g /\ m # St(g).n
  <2>1. Declared(g, b) => table[g][b].name = St(g).n
    BY <1>1, SlotOfName DEF Holds
  <2>2. new = old /\ b \notin new
    BY <1>1, <1>2, <1>5, <2>1 DEF Put, JInv, IInv, Declared
  <2>3. \A s \in new : table'[g][s] = table[g][s]
    BY <1>1, <1>5, <2>2 DEF Put, JInv, IInv
  <2>4. CASE new = {}
    BY <1>5, <2>2, <2>4 DEF ByName
  <2>5. CASE new # {}
    <3>1. (CHOOSE s \in new : TRUE) \in new /\ (CHOOSE s \in new : TRUE) = (CHOOSE s \in old : TRUE)
      BY <2>2, <2>5
    <3>2. ByName(h, m) = table[h][CHOOSE s \in old : TRUE].value
      BY <2>2, <2>5 DEF ByName
    <3>3. ByName(h, m)' = table'[h][CHOOSE s \in new : TRUE].value
      BY <2>5 DEF ByName
    <3> QED BY <1>5, <2>3, <3>1, <3>2, <3>3
  <2> QED BY <2>4, <2>5
<1> QED BY <1>3, <1>4, <1>5

(* ... and a reading gives what is visible by name. *)
LEMMA ReadingByName ==
  ASSUME NoTry, JInv, NEW g \in Callers, Get(g) \/ Vm(g) \/ Text(g)
  PROVE  /\ UNCHANGED table /\ St(g).n \in Names
         /\ last' = [by |-> g, does |-> IF Text(g) THEN "text" ELSE "read", name |-> St(g).n,
                     value |-> IF Text(g) \/ ByName(g, St(g).n) # None
                               THEN ByName(g, St(g).n) ELSE ByName(Main, St(g).n)]
<1> DEFINE n == St(g).n
<1>1. Ready(g) /\ Open(g) /\ ~InTry(g) /\ Fs(g) = Own(g) /\ UNCHANGED table
  BY NeverInTry DEF Get, Vm, Text, Do, Ready, JInv
<1>2. n \in Names
  BY <1>1, MineType
<1>3. Main \in Callers /\ Own(Main) = "main"
  BY DEF Callers, Own
<1>4. ASSUME NEW h \in Callers, n \in DOMAIN bindings[Own(h)]
      PROVE  /\ ByName(h, n) = Named(h, bindings[Own(h)][n], n)
             /\ ByName(h, n) = Value(h, bindings[Own(h)][n])
             /\ Holds(h, bindings[Own(h)][n], n) <=> ByName(h, n) # None
  <2>1. ByName(h, n) = Named(h, bindings[Own(h)][n], n)
    BY <1>2, <1>4, ByNameIs
  <2>2. Declared(h, bindings[Own(h)][n]) <=> Holds(h, bindings[Own(h)][n], n)
    BY <1>4, SlotOfName DEF Holds
  <2>3. Holds(h, bindings[Own(h)][n], n) => ByName(h, n) # None
    BY <2>1, CallersAssumption DEF Named, Holds, Declared, JInv, RecordsOwn, IsOwn
  <2> QED BY <2>1, <2>2, <2>3 DEF Named, Value
<1>5. CASE Text(g)
  <2>1. IsBound(Own(g), n)
    BY <1>1, <1>5 DEF Text, Do, Wanted
  <2>2. last' = [by |-> g, does |-> "text", name |-> n, value |-> Value(g, SlotIn(Own(g), n))]
    BY <1>1, <1>5 DEF Text, Note
  <2> QED BY <1>1, <1>2, <1>4, <1>5, <2>1, <2>2 DEF IsBound, SlotIn
<1>6. CASE Get(g)
  <2>1. ~Text(g) /\ HasToken(St(g))
    BY <1>6 DEF Get, Text, Do, HasToken
  <2>2. Slot(g) = bindings[Own(g)][n] /\ n \in DOMAIN bindings[Own(g)]
    BY <1>1, <2>1, TokenSlot
  <2>3. Declared(g, Slot(g)) <=> ByName(g, n) # None
    BY <1>4, <2>2, SlotOfName DEF Holds
  <2>4. ~Declared(g, Slot(g)) => IsBound("main", n)
    BY <1>6 DEF Get, Do, Wanted
  <2>5. last' = [by |-> g, does |-> "read", name |-> n,
                 value |-> IF Declared(g, Slot(g)) THEN Value(g, Slot(g))
                           ELSE Value(Main, SlotIn("main", n))]
    BY <1>1, <1>6 DEF Get, Note
  <2> QED BY <1>1, <1>2, <1>3, <1>4, <2>1, <2>2, <2>3, <2>4, <2>5 DEF IsBound, SlotIn
<1>7. CASE Vm(g)
  <2>1. ~Text(g) /\ HasToken(St(g)) /\ St(g).op = "vm"
    BY <1>7 DEF Vm, Text, Do, HasToken
  <2>2. Slot(g) = bindings[Own(g)][n] /\ n \in DOMAIN bindings[Own(g)]
    BY <1>1, <2>1, TokenSlot
  <2>3. Holds(g, Slot(g), n) <=> ByName(g, n) # None
    BY <1>4, <2>2
  <2>4. ~Holds(g, Slot(g), n) => IsBound("main", n)
    BY <1>1, <1>7, <2>1, <2>2 DEF Vm, Do, Wanted, IsBound, SlotIn
  <2>5. last' = [by |-> g, does |-> "read", name |-> n,
                 value |-> IF Holds(g, Slot(g), n) THEN Named(g, Slot(g), n)
                           ELSE IF Holds(g, SlotIn(Own(g), n), n) THEN Named(g, SlotIn(Own(g), n), n)
                           ELSE Named(Main, SlotIn("main", n), n)]
    BY <1>1, <1>7 DEF Vm, Note
  <2> QED BY <1>1, <1>2, <1>3, <1>4, <2>1, <2>2, <2>3, <2>4, <2>5 DEF IsBound, SlotIn
<1> QED BY <1>5, <1>6, <1>7

(* Without try blocks, the bindings implement a table of variables by name *)
(* for every caller: whatever slots names got, in whatever order callers   *)
(* bound them, an expression gives what was assigned last under its name.  *)
THEOREM SlotsImplementScopes == NoTry => (Spec => ScopesSpec)
<1> SUFFICES ASSUME NoTry PROVE Spec => ScopesSpec
  OBVIOUS
<1> DEFINE byname == [g \in Callers |-> [n \in Names |-> ByName(g, n)]]
<1>1. Init => S!Init
  <2> SUFFICES ASSUME Init PROVE S!Init
    OBVIOUS
  <2>1. \A g \in Callers, n \in Names : ByName(g, n) = None
    BY DEF Init, ByName, Empty
  <2> QED BY <2>1 DEF Init, S!Init
<1>2. JInv /\ JInv' /\ [Next]_vars => [S!Next]_(S!scopes)
  <2> SUFFICES ASSUME JInv, JInv', [Next]_vars PROVE [S!Next]_(S!scopes)
    OBVIOUS
  <2>1. ASSUME UNCHANGED <<table, last>> PROVE UNCHANGED S!scopes
    <3>1. \A g \in Callers, n \in Names : ByName(g, n)' = ByName(g, n)
      BY <2>1 DEF ByName
    <3> QED BY <2>1, <3>1 DEF S!scopes
  <2>2. ASSUME NEW g \in Callers, Set(g) \/ Key(g) PROVE S!Next
    <3>1. Ready(g) /\ last' = [by |-> g, does |-> "assign", name |-> St(g).n, value |-> Mine(g)]
      BY <2>2 DEF Set, Key, Do, Note
    <3>2. St(g).n \in Names /\ Mine(g) \in Values
      BY <3>1, MineType
    <3>3. byname' = [byname EXCEPT ![g][St(g).n] = Mine(g)]
      BY <2>2, <3>2, AssignmentByName
    <3>4. S!Assign(g, St(g).n)
      BY <3>1, <3>2, <3>3 DEF S!Assign
    <3> QED BY <3>2, <3>4 DEF S!Next
  <2>3. ASSUME NEW g \in Callers, Get(g) \/ Vm(g) \/ Text(g) PROVE S!Next
    <3> DEFINE n == St(g).n
               v == IF Text(g) \/ ByName(g, n) # None THEN ByName(g, n) ELSE ByName(Main, n)
    <3>1. /\ UNCHANGED table /\ n \in Names
          /\ last' = [by |-> g, does |-> IF Text(g) THEN "text" ELSE "read", name |-> n,
                      value |-> v]
      BY <2>3, ReadingByName
    <3>2. byname' = byname
      BY <3>1 DEF ByName
    <3>3. byname[g][n] = ByName(g, n) /\ byname[Main][n] = ByName(Main, n)
      BY <3>1 DEF Callers
    <3>4. CASE Text(g)
      BY <3>1, <3>2, <3>3, <3>4 DEF S!Next, S!ReadText
    <3>5. CASE ~Text(g)
      BY <3>1, <3>2, <3>3, <3>5 DEF S!Next, S!Read, S!Visible
    <3> QED BY <3>4, <3>5
  <2>4. ASSUME NEW g \in Callers, Begin(g) \/ Miss(g) \/ Insert(g) \/ EnterTry(g) \/ LeaveTry(g)
        PROVE  UNCHANGED <<table, last>>
    BY <2>4 DEF Begin, Miss, Insert, EnterTry, LeaveTry
  <2>5. CASE ReadWord \/ UNCHANGED vars
    BY <2>1, <2>5 DEF ReadWord, vars
  <2> QED BY <2>1, <2>2, <2>3, <2>4, <2>5 DEF Next, Step, Ended
<1>3. Spec => []JInv
  BY InitJInv, NextJInv, PTL DEF Spec
<1> QED BY <1>1, <1>2, <1>3, PTL DEF Spec, ScopesSpec, S!Spec

(* So without try blocks no name ever reads another name's variable. *)
THEOREM WithoutTryReadsOwn == NoTry => (Spec => []ReadsOwn)
<1> SUFFICES ASSUME NoTry PROVE Spec => []ReadsOwn
  OBVIOUS
<1>1. Init => ReadsOwn
  BY DEF Init, ReadsOwn
<1>2. JInv /\ ReadsOwn /\ [Next]_vars => ReadsOwn'
  <2> SUFFICES ASSUME JInv, ReadsOwn, [Next]_vars PROVE ReadsOwn'
    OBVIOUS
  <2>1. CASE UNCHANGED last
    BY <2>1 DEF ReadsOwn
  <2>2. ASSUME NEW g \in Callers, Set(g) \/ Key(g) PROVE ReadsOwn'
    <3>1. /\ Ready(g) /\ last'.name = St(g).n /\ last'.value = Mine(g)
      BY <2>2 DEF Set, Key, Do, Note
    <3> QED BY <3>1, MineType DEF ReadsOwn
  <2>3. ASSUME NEW g \in Callers, Get(g) \/ Vm(g) \/ Text(g) PROVE ReadsOwn'
    <3> DEFINE n == St(g).n
    <3>1. PICK h \in Callers : last'.name = n /\ last'.value = ByName(h, n) /\ n \in Names
      BY <2>3, ReadingByName DEF Callers
    <3>2. ByName(h, n) # None => ByName(h, n).of = n
      <4> DEFINE b == bindings[Own(h)][n]
      <4>1. ByName(h, n) = IF n \in DOMAIN bindings[Own(h)] THEN Named(h, b, n) ELSE None
        BY <3>1, ByNameIs
      <4> QED BY <4>1 DEF Named, Holds, Declared, JInv, RecordsOwn, IsOwn
    <3> QED BY <3>1, <3>2 DEF ReadsOwn
  <2>4. ASSUME NEW g \in Callers, Begin(g) \/ Miss(g) \/ Insert(g) \/ EnterTry(g) \/ LeaveTry(g)
        PROVE  UNCHANGED last
    BY <2>4 DEF Begin, Miss, Insert, EnterTry, LeaveTry
  <2>5. CASE ReadWord \/ UNCHANGED vars
    BY <2>1, <2>5 DEF ReadWord, vars
  <2> QED BY <2>1, <2>2, <2>3, <2>4, <2>5 DEF Next, Step, Ended
<1>3. Spec => []JInv
  BY InitJInv, NextJInv, PTL DEF Spec
<1> QED BY <1>1, <1>2, <1>3, PTL DEF Spec

=============================================================================

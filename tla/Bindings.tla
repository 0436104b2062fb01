------------------------------ MODULE Bindings ------------------------------
(***************************************************************************)
(* Names and slots.  A name is bound to a slot of a function space the     *)
(* first time the lexer or the interpreter meets it there (bind_int of     *)
(* phraser.go), tokens carry the slot they were bound to, and variables    *)
(* are read and written by slot, most of the time without a look at their  *)
(* name.                                                                   *)
(*                                                                         *)
(* A text has a main program and a function, which the tasks of the run    *)
(* call.  The spaces are those of the main program, of the file of the     *)
(* function when it is a module ("mod"), of the definition ("fun"), of one *)
(* try block ("try") and of each call.  Slots are numbers; a variable is a *)
(* record with the name it was last declared under and its value.          *)
(***************************************************************************)
EXTENDS Naturals, Sequences, FiniteSets

CONSTANTS Names, Tasks, Texts, Main, None,
          MaxLen  \* no list of statements is longer

Callers == {Main} \union Tasks
Spaces  == {"main", "mod", "fun", "try"} \union Tasks
Values  == [of : Names, by : Callers, at : (1..MaxLen) \X (0..MaxLen)]
Notes   == [by : Callers, does : {"assign", "read", "text"}, name : Names,
            value : Values \union {None}]

VARIABLES text,      \* the text that is run
          unread,    \* what the lexer has left to read, and DEFINE to define
          tok,       \* the slots that tokens carry, by where their phrase is kept
          bindings,  \* name to slot, for every space
          table,     \* the variables of the main program and of each task
          at,        \* the next statement of each caller
          within,    \* its statement in the try block, 0 outside
          missed,    \* the space whose lock bind_int is about to take again
          last       \* what was done last

Simple == [op : {"set", "get", "vm", "text", "key"}, n : Names]
Blocks == [op : {"try"}, body : Seq(Simple)]
Scripts == [main : Seq(Simple \union Blocks), fun : Seq(Simple \union Blocks), module : BOOLEAN]

TryAt(sts) == {i \in DOMAIN sts : sts[i].op = "try"}

(* A text has at most one try block. *)
ASSUME TextsAssumption ==
  \A t \in Texts :
    /\ t \in Scripts
    /\ Len(t.main) <= MaxLen /\ Len(t.fun) <= MaxLen
    /\ \A i, j \in TryAt(t.main) : i = j
    /\ \A i, j \in TryAt(t.fun) : i = j
    /\ TryAt(t.main) = {} \/ TryAt(t.fun) = {}
ASSUME CallersAssumption == /\ Main \notin Tasks
                            /\ Tasks \intersect {"main", "mod", "fun", "try"} = {}
                            /\ None \notin Spaces \union Values \union Notes
                            /\ MaxLen \in Nat

vars == <<text, unread, tok, bindings, table, at, within, missed, last>>

Empty == [n \in {} |-> 0]

-----------------------------------------------------------------------------
(* bind_int *)

Used(m) == {m[n] : n \in DOMAIN m}

(* A mutant of Fresh: the length, without the search.                      *)
FreshLen(m) == Cardinality(DOMAIN m)

(* The first number from the length of the map that no name has. *)
Fresh(m) ==
  CHOOSE i \in Cardinality(DOMAIN m)..2 * Cardinality(DOMAIN m) :
    /\ i \notin Used(m)
    /\ \A j \in Cardinality(DOMAIN m)..(i - 1) : j \in Used(m)

Put(m, n, slot) == [x \in {n} \union DOMAIN m |-> IF x = n THEN slot ELSE m[x]]

Bound(m, n) == IF n \in DOMAIN m THEN m ELSE Put(m, n, Fresh(m))

-----------------------------------------------------------------------------
(* Texts.  A statement is [op, n] with                                     *)
(*   "set"   an assignment, by the slot of its token;                      *)
(*   "get"   a name in an expression that is walked, by the slot of its    *)
(*           token, and by name in the main program;                       *)
(*   "vm"    a name in a compiled expression, whose record has to have it; *)
(*   "text"  a name in a text, which no token stands for: by name;         *)
(*   "key"   a variable that is made for a statement (key_x of FOREACH):   *)
(*           by name, and declared anew;                                   *)
(* or [op |-> "try", body |-> ...]: at most one of them in a text.         *)

IsTry(st)     == st.op = "try"
HasToken(st)  == st.op \in {"set", "get", "vm"}

(* A list of statements, each with the space its name is bound in and with *)
(* what its phrase is kept in.                                             *)
Words(sts, space, kept) ==
  [i \in DOMAIN sts |-> [st |-> sts[i], space |-> space, kept |-> kept]]

(* The content of a try block is bound in the space of its file, where it  *)
(* stands, and kept out of the phrases around it.  Its tokens get the same *)
(* slots when it is read again, with the bindings of the file.             *)
FileWords(sts, file) ==
  IF TryAt(sts) = {} THEN Words(sts, file, file)
  ELSE LET i == CHOOSE i \in TryAt(sts) : TRUE
       IN  Words(SubSeq(sts, 1, i - 1), file, file) \o Words(sts[i].body, file, "try")
           \o Words(SubSeq(sts, i + 1, Len(sts)), file, file)

(* The function is read first, and defined when its file is run.           *)
Lexed(t) ==
  FileWords(t.fun, IF t.module THEN "mod" ELSE "main") \o FileWords(t.main, "main")
  \o Words(t.fun, "fun", "fun")

Init ==
  /\ text \in Texts
  /\ unread = Lexed(text)
  /\ tok = [k \in {"main", "mod", "fun", "try"} |-> Empty]
  /\ bindings = [sp \in Spaces |-> Empty]
  /\ table = [g \in Callers |-> Empty]
  /\ at = [g \in Callers |-> 0]
  /\ within = [g \in Callers |-> 0]
  /\ missed = [g \in Callers |-> None]
  /\ last = None

(* nextToken binds a word of the file, and DEFINE those of its phrases     *)
(* again, in the space of the function.                                    *)
ReadWord ==
  /\ unread # <<>>
  /\ LET w == Head(unread)
         m == Bound(bindings[w.space], w.st.n)
     IN  IF HasToken(w.st)
         THEN /\ bindings' = [bindings EXCEPT ![w.space] = m]
              /\ tok' = [tok EXCEPT ![w.kept] = Put(@, w.st.n, m[w.st.n])]
         ELSE UNCHANGED <<bindings, tok>>
  /\ unread' = Tail(unread)
  /\ UNCHANGED <<text, table, at, within, missed, last>>

(* A mutant of Begin: the tokens are not asked for their bindings.         *)
BeginUnbound(g) ==
  /\ unread = <<>>
  /\ at[g] = 0
  /\ g = Main \/ at[Main] > 0
  /\ bindings' = [bindings EXCEPT ![IF g = Main THEN "main" ELSE g] = Empty]
  /\ at' = [at EXCEPT ![g] = 1]
  /\ UNCHANGED <<text, unread, tok, table, within, missed, last>>

(* Call forgets the bindings of its space and takes those of the tokens.   *)
Begin(g) ==
  /\ unread = <<>>
  /\ at[g] = 0
  /\ g = Main \/ at[Main] > 0
  /\ bindings' = IF g = Main THEN [bindings EXCEPT !["main"] = tok["main"]]
                 ELSE [bindings EXCEPT ![g] = tok["fun"]]
  /\ at' = [at EXCEPT ![g] = 1]
  /\ UNCHANGED <<text, unread, tok, table, within, missed, last>>

-----------------------------------------------------------------------------
(* Statements *)

Body(g) == IF g = Main THEN text.main ELSE text.fun
Open(g) == at[g] \in DOMAIN Body(g)
Outer(g) == Body(g)[at[g]]
InTry(g) == within[g] > 0
St(g) == IF InTry(g) THEN Outer(g).body[within[g]] ELSE Outer(g)

(* The space of the running Call and the slot of the statement's token.    *)
Fs(g)   == IF InTry(g) THEN "try" ELSE IF g = Main THEN "main" ELSE g
Slot(g) == tok[IF InTry(g) THEN "try" ELSE IF g = Main THEN "main" ELSE "fun"][St(g).n]

Declared(g, slot)    == slot \in DOMAIN table[g]
Holds(g, slot, n)    == Declared(g, slot) /\ table[g][slot].name = n
SlotIn(space, n)     == bindings[space][n]
IsBound(space, n)    == n \in DOMAIN bindings[space]

(* The space in which the statement has to bind its name next.             *)
Wanted(g) ==
  LET n == St(g).n
  IN  CASE St(g).op = "set" -> {}
        [] St(g).op \in {"text", "key"} -> {Fs(g)}
        [] St(g).op = "get" -> IF Declared(g, Slot(g)) THEN {} ELSE {"main"}
        [] St(g).op = "vm" ->
             IF Holds(g, Slot(g), n) THEN {}
             ELSE IF ~IsBound(Fs(g), n) THEN {Fs(g)}
             ELSE IF Holds(g, SlotIn(Fs(g), n), n) THEN {} ELSE {"main"}

Ready(g) ==
  /\ Open(g)
  /\ IF InTry(g) THEN within[g] \in DOMAIN Outer(g).body ELSE ~IsTry(Outer(g))
  /\ missed[g] = None

(* bind_int does not find the name under the read lock, ...                *)
Miss(g) ==
  /\ Ready(g)
  /\ \E sp \in Wanted(g) : ~IsBound(sp, St(g).n) /\ missed' = [missed EXCEPT ![g] = sp]
  /\ UNCHANGED <<text, unread, tok, bindings, table, at, within, last>>

(* A mutant of Insert: without the second look.                            *)
InsertUnseen(g) ==
  /\ missed[g] # None
  /\ bindings' = [bindings EXCEPT ![missed[g]] = Put(@, St(g).n, Fresh(@))]
  /\ missed' = [missed EXCEPT ![g] = None]
  /\ UNCHANGED <<text, unread, tok, table, at, within, last>>

(* ... takes the lock to write, looks again and inserts it.                *)
Insert(g) ==
  /\ missed[g] # None
  /\ bindings' = [bindings EXCEPT ![missed[g]] = Bound(@, St(g).n)]
  /\ missed' = [missed EXCEPT ![g] = None]
  /\ UNCHANGED <<text, unread, tok, table, at, within, last>>

Advance(g) ==
  IF InTry(g) THEN within' = [within EXCEPT ![g] = @ + 1] /\ UNCHANGED at
  ELSE at' = [at EXCEPT ![g] = @ + 1] /\ UNCHANGED within

Do(g, op) ==
  /\ Ready(g)
  /\ St(g).op = op
  /\ \A sp \in Wanted(g) : IsBound(sp, St(g).n)
  /\ Advance(g)
  /\ UNCHANGED <<text, unread, tok, bindings, missed>>

Note(g, does, v) ==
  last' = [by |-> g, does |-> does, name |-> St(g).n, value |-> v]

Mine(g) == [of |-> St(g).n, by |-> g, at |-> <<at[g], within[g]>>]

(* storeLocal: only an undeclared variable takes the name.                 *)
Set(g) ==
  /\ Do(g, "set")
  /\ LET name == IF Declared(g, Slot(g)) THEN table[g][Slot(g)].name ELSE St(g).n
     IN  table' = [table EXCEPT ![g] = Put(@, Slot(g), [name |-> name, value |-> Mine(g)])]
  /\ Note(g, "assign", Mine(g))

(* vset without a token: the variable is made anew.                        *)
Key(g) ==
  /\ Do(g, "key")
  /\ table' = [table EXCEPT ![g] = Put(@, SlotIn(Fs(g), St(g).n), [name |-> St(g).n, value |-> Mine(g)])]
  /\ Note(g, "assign", Mine(g))

Value(g, slot) == IF Declared(g, slot) THEN table[g][slot].value ELSE None
Named(g, slot, n) == IF Holds(g, slot, n) THEN table[g][slot].value ELSE None

(* identifier: the slot of the token, whoever it belongs to.               *)
Get(g) ==
  /\ Do(g, "get")
  /\ Note(g, "read", IF Declared(g, Slot(g)) THEN Value(g, Slot(g))
                     ELSE Value(Main, SlotIn("main", St(g).n)))
  /\ UNCHANGED table

(* OpLoadIdent and resolveIdent.                                           *)
Vm(g) ==
  /\ Do(g, "vm")
  /\ LET n == St(g).n
     IN  Note(g, "read", IF Holds(g, Slot(g), n) THEN Named(g, Slot(g), n)
                         ELSE IF Holds(g, SlotIn(Fs(g), n), n) THEN Named(g, SlotIn(Fs(g), n), n)
                         ELSE Named(Main, SlotIn("main", n), n))
  /\ UNCHANGED table

(* interpolate *)
Text(g) ==
  /\ Do(g, "text")
  /\ Note(g, "text", Value(g, SlotIn(Fs(g), St(g).n)))
  /\ UNCHANGED table

(* TRY calls the space of the block with the variables of its parent.      *)
EnterTry(g) ==
  /\ Open(g)
  /\ IsTry(Outer(g))
  /\ ~InTry(g)
  /\ bindings' = [bindings EXCEPT !["try"] = tok["try"]]
  /\ within' = [within EXCEPT ![g] = 1]
  /\ UNCHANGED <<text, unread, tok, table, at, missed, last>>

LeaveTry(g) ==
  /\ InTry(g)
  /\ within[g] > Len(Outer(g).body)
  /\ within' = [within EXCEPT ![g] = 0]
  /\ at' = [at EXCEPT ![g] = @ + 1]
  /\ UNCHANGED <<text, unread, tok, bindings, table, missed, last>>

Over == unread = <<>> /\ \A g \in Callers : at[g] > Len(Body(g))

Ended == Over /\ UNCHANGED vars

Step(g) ==
  \/ Begin(g) \/ Miss(g) \/ Insert(g) \/ EnterTry(g) \/ LeaveTry(g)
  \/ Set(g) \/ Key(g) \/ Get(g) \/ Vm(g) \/ Text(g)

Next == ReadWord \/ (\E g \in Callers : Step(g)) \/ Ended

Spec == Init /\ [][Next]_vars

-----------------------------------------------------------------------------
TypeOK ==
  /\ text \in Texts
  /\ \A sp \in Spaces : DOMAIN bindings[sp] \subseteq Names /\ Used(bindings[sp]) \subseteq Nat
  /\ \A g \in Callers : \A slot \in DOMAIN table[g] : table[g][slot].name \in Names
  /\ at \in [Callers -> Nat]
  /\ within \in [Callers -> Nat]
  /\ missed \in [Callers -> Spaces \union {None}]
  /\ \A g \in Callers : InTry(g) => Open(g) /\ IsTry(Outer(g))

(* No two names of a space have the same slot, whoever bound them and      *)
(* however the steps of bind_int were mixed.                               *)
SlotsApart ==
  \A sp \in Spaces : \A m, n \in DOMAIN bindings[sp] :
    bindings[sp][m] = bindings[sp][n] => m = n

(* A name keeps its slot as long as the space has it: what bind_int gave   *)
(* one goroutine stays right while others bind names.  Only a call of the  *)
(* space forgets names.                                                    *)
NameStays(sp, n) ==
  \/ n \in DOMAIN bindings'[sp] /\ bindings'[sp][n] = bindings[sp][n]
  \/ n \notin DOMAIN bindings'[sp] /\ \E g \in Callers : at'[g] # at[g] \/ within'[g] # within[g]

NamesStay == [][\A sp \in Spaces : \A n \in DOMAIN bindings[sp] : NameStays(sp, n)]_vars

(* Slots do for names what a table by name would: each assignment changes  *)
(* one variable, of the caller's own scope, and each reading gives what    *)
(* was assigned last under the name, there or in the main program.         *)
ByName(g, n) ==
  LET slots == {s \in DOMAIN table[g] : table[g][s].name = n}
  IN  IF slots = {} THEN None ELSE table[g][CHOOSE s \in slots : TRUE].value

S == INSTANCE Scopes WITH
       vars <- [g \in Callers |-> [n \in Names |-> ByName(g, n)]],
       last <- last

ScopesSpec == S!Spec

(* What is read under a name was assigned under that name.                *)
ReadsOwn == last # None => (last.value # None => last.value.of = last.name)
=============================================================================

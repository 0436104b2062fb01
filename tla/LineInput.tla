----------------------------- MODULE LineInput -----------------------------
(***************************************************************************)
(* The line editor of the console: getInput of console_common.go, which    *)
(* reads the lines of the interactive session and the answers of PROMPT    *)
(* and of input boxes.  A step is what one reading of the keyboard gives:  *)
(* a key, a paste, or two characters that came together.  Drawing is left  *)
(* out.  The line is a slice of runes, and so are the default answer, the  *)
(* line kept while history is shown, and the word under the cursor: they   *)
(* may be parts of one array.                                              *)
(***************************************************************************)
EXTENDS MultilineEditor

CONSTANTS Rune,        \* the characters there are
          Keys,        \* what the keyboard may give
          Defaults,    \* the default answers
          BoxOptions,  \* the options of an input box
          Options,     \* functions and keywords offered: [text, kind]
          Directories, \* the directories there are: the entries, [text, kind], by path
          MW,          \* the width of the screen
          MaxHistory,  \* MAX_HISTORY_ENTRIES, 255 in the code
          MaxTyped,    \* bound on the lengths of lines that are typed
          MaxLine,     \* bound on the lengths of lines
          MaxText,     \* bound on the length of the text in the editor
          MaxQuery,    \* bound on the lengths of what is searched
          Kept,        \* bound: the lines that ENTER is pressed on
          Drafts,      \* bound: the lines that the history is entered from
          Hinted,      \* bound: the histories that options are asked for and prompts come with
          Searched,    \* bound: the cursors that lines are searched from
          Opens        \* bound: the callers, lines, histories and displays that Ctrl-O comes in

Runes  == Seq(Rune)
Quotes == {"quote", "backquote"}
Option == [text : Runes, kind : STRING]

(* Pastes of more than two lines are not told apart from those of two. *)
ASSUME LineInputAssumption ==
  /\ {" ", "/", "nl", "n", "backslash", Junk} \subseteq Rune /\ Junk \notin Quotes
  /\ \A k \in Keys : k.op \in {"type", "fast"} => k.r \in Rune
  /\ \A k \in Keys : k.op = "paste" => k.lines \in Seq(Runes) /\ Len(k.lines) \in 1..2
  /\ Defaults \subseteq Runes /\ BoxOptions \subseteq Runes /\ Options \in Seq(Option)
  /\ \A path \in DOMAIN Directories : Directories[path] \in Seq(Option)
  /\ MW \in Nat

VARIABLES h,       \* the arrays of runes
          line,    \* s, orig_s, defaultString, wordUnderCursor, cpos
          mode,    \* "session", "prompt" or "box": who called getInput
          nav,     \* navHist and curHist
          hist,    \* the history of the process
          search,  \* the reverse search
          help,    \* completion: startedContextHelp, selectedStar, starMax
          ed,      \* the editor of several lines, over the line
          fate,    \* of the call
          key      \* the last key: no step reads it

vars == <<h, line, mode, nav, hist, search, help, ed, fate, key>>

NoSearch == [on |-> FALSE, buffer |-> <<>>, pick |-> 0]
NoHelp   == [on |-> FALSE, star |-> -1, max |-> 0]
NoNav    == [on |-> FALSE, cur |-> 0]

NoKey  == [op |-> "none"]
Empty  == Slice(1, 0, 0)

(* The state in which getInput waits for its first key. *)
Fresh(m, default) ==
  /\ h'    = <<<<>>, <<>>, Cap(default, Paired(Len(default))), <<>>>>
  /\ line' = [s |-> Empty, orig |-> Empty, default |-> Slice(3, 0, Len(default)), word |-> Empty, cpos |-> 0]
  /\ mode' = m /\ nav' = NoNav /\ search' = NoSearch /\ help' = NoHelp
  /\ ed' = Closed /\ fate' = "edits" /\ key' = NoKey

Init ==
  /\ h = <<<<>>, <<>>, <<>>, <<>>>>
  /\ line = [s |-> Empty, orig |-> Empty, default |-> Slice(3, 0, 0), word |-> Empty, cpos |-> 0]
  /\ mode = "session" /\ nav = NoNav /\ search = NoSearch /\ help = NoHelp
  /\ ed = Closed /\ fate = "edits" /\ key = NoKey /\ hist = <<>>

Text    == Cells(h, line.s)
HasHist == mode = "session"
Hints   == mode = "session"

-----------------------------------------------------------------------------
(* The options for a word: functions whose name it begins, up to its       *)
(* parenthesis, keywords, and the entries of the directory it names.  The  *)
(* name of an entry is a regular expression; of its signs only the opening *)
(* parenthesis is told apart, with which it is none and fits every entry.  *)
Begins(t, u) == Len(t) <= Len(u) /\ SubSeq(u, 1, Len(t)) = t
Within(t, u) == \E n \in 0..(Len(u) - Len(t)) : SubSeq(u, n + 1, n + Len(t)) = t

Dirents(path) == IF path \in DOMAIN Directories THEN Directories[path] ELSE <<>>

Entries(word) ==
  LET base == StartOf(word, Len(word), {"/"})
      name == SubSeq(word, base + 1, Len(word))
      all  == Dirents(SubSeq(word, 1, base))
  IN  Picked(all, {n \in DOMAIN all : name = <<>> \/ Contains(name, "(") \/ Within(name, all[n].text)})

Candidates(word) ==
  LET paren == Min({Len(word) + 1} \union {p \in DOMAIN word : word[p] = "("})
      Fits(o) == IF o.kind = "function" THEN Begins(SubSeq(word, 1, paren - 1), Front(o.text))
                 ELSE Begins(word, o.text)
  IN  Picked(Options, {n \in DOMAIN Options : Fits(Options[n])}) \o Entries(word)

Offered == Candidates(Cells(h, line.word))

(* When a key comes the entries of the directory are there twice. *)
AtKey == Offered \o Entries(Cells(h, line.word))

(* The results of the search, newest first. *)
Results(buffer) ==
  IF buffer = <<>> THEN <<>>
  ELSE Reverse(InOrder({n \in DOMAIN hist : Within(buffer, hist[n])}))

-----------------------------------------------------------------------------
(* How a key ends: with the arrays g and the line l, of which the arrays   *)
(* that nothing is part of are gone.  orig_s is set before it is read:     *)
(* out of the history and the search it is no different from the line.     *)
Held(l, e) == <<l.s, l.orig, l.default, l.word>> \o e.lines
Settled(l) == IF nav'.on \/ search'.on THEN l ELSE [l EXCEPT !.orig = l.s]

Ends(g, l, e) ==
  \E m \in {Settled(l)} : \E held \in {Held(m, e)} :
    LET R(s) == Renumbered(held, s)
    IN  /\ LenOf(l.s) <= MaxLine
        /\ Len(e.filter.query) <= MaxQuery
        /\ e.lines # <<>> => Len(Joined(Texts(g, e))) <= MaxText
        /\ h' = Reached(g, held)
        /\ line' = [m EXCEPT !.s = R(@), !.orig = R(@), !.default = R(@), !.word = R(@)]
        /\ ed' = [e EXCEPT !.lines = [n \in DOMAIN @ |-> R(@[n])]]

Keep(g, l) == Ends(g, l, Closed) /\ fate' = "edits"

(* The word is looked up again. *)
Look(g, l) == [l EXCEPT !.word = Word(g, l.s, l.cpos)]

Becomes(r, cpos) == Keep(r.h, Look(r.h, [line EXCEPT !.s = r.s, !.cpos = cpos]))
Moves(cpos)      == Keep(h, Look(h, [line EXCEPT !.cpos = cpos]))
Stays            == Keep(h, line)

Lost(how) == fate' = how /\ UNCHANGED <<h, line, ed>>

Panics == Lost("panicked")

PastEnd == line.cpos > LenOf(line.s)

(* The end of an iteration: if the options are shown, the list is made     *)
(* again; starMax keeps its value if nothing is offered.  Without the      *)
(* options the star is not read before TAB puts it at -1.                  *)
Shown(star) ==
  LET n == Len(Candidates(Cells(h', line'.word)))
  IN  help' = IF help.on THEN [on |-> TRUE, star |-> star, max |-> IF n = 0 THEN help.max ELSE n - 1]
              ELSE help

Off == help' = [help EXCEPT !.on = FALSE, !.star = -1]

-----------------------------------------------------------------------------
(* The keys that change the line. *)
Insert(cells) ==
  IF PastEnd THEN Panics /\ UNCHANGED help
  ELSE /\ LenOf(line.s) + Len(cells) <= MaxTyped
       /\ Becomes(Inserted(h, line.s, line.cpos, cells), line.cpos + Len(cells))
       /\ Shown(-1)

(* Two characters that came at once: the first is decoded, and inserted    *)
(* until nothing is left of them.                                          *)
Fast(k) ==
  /\ k.op = "fast"
  /\ LET once  == Inserted(h, line.s, line.cpos, <<k.r>>)
         twice == Inserted(once.h, once.s, line.cpos + 1, <<k.r>>)
     IN  IF PastEnd THEN Panics /\ UNCHANGED help
         ELSE LenOf(line.s) + 2 <= MaxTyped /\ Becomes(twice, line.cpos + 2) /\ Shown(-1)

Type(k) == k.op = "type" /\ k.r # " " /\ Insert(<<k.r>>)

Escape(k) == k.op = "esc" /\ Moves(line.cpos) /\ Shown(-1)

(* A byte that is no character is never taken from what was read. *)
Garbled(k) == k.op = "garbled" /\ Lost("hangs") /\ UNCHANGED help

(* The space, which takes the only option there is, and then comes too. *)
Space(k) ==
  /\ k.op = "type" /\ k.r = " "
  /\ LET word == Word(h, line.s, line.cpos)
         d    == DeletedWord(h, line.s, line.cpos)
         add  == (IF LenOf(d.s) > 0 THEN <<" ">> ELSE <<>>) \o AtKey[1].text \o <<" ">>
         done == Inserted(d.h, d.s, d.start, add)
         took == help.on /\ Len(AtKey) = 1 /\ ~Contains(Cells(h, word), "(")
         r    == IF took THEN done ELSE [h |-> h, s |-> line.s]
         at   == IF took THEN LenOf(done.s) - 1 ELSE line.cpos
     IN  IF at > LenOf(r.s) THEN Panics
         ELSE IF ~took /\ LenOf(line.s) >= MaxTyped THEN FALSE
         ELSE Becomes(Inserted(r.h, r.s, at, <<" ">>), at + 1)
  /\ Off

Backspace(k) ==
  /\ k.op = "bs"
  /\ IF line.cpos > 0 THEN Becomes(RemovedBefore(h, line.s, line.cpos), line.cpos - 1) ELSE Stays
  /\ Shown(help.star)

Delete(k) ==
  /\ k.op = "del"
  /\ LET none == FromText(h, <<>>)
     IN  IF line.cpos < LenOf(line.s)
         THEN Becomes(RemovedBefore(h, line.s, line.cpos + 1), line.cpos)
         ELSE IF LenOf(line.s) = 0 THEN Keep(none.h, [line EXCEPT !.default = none.s])
         ELSE Stays
  /\ Shown(help.star)

(* Ctrl-K, which may look at what is in the array after the line. *)
KillAfter(k) ==
  /\ k.op = "ctrl-k"
  /\ IF line.cpos > CapOf(h, line.s) THEN Panics /\ UNCHANGED help
     ELSE Becomes([h |-> h, s |-> Prefix(line.s, line.cpos)], line.cpos) /\ Shown(help.star)

KillBefore(k) ==
  /\ k.op = "ctrl-u"
  /\ Becomes([h |-> h, s |-> IF PastEnd THEN line.s ELSE Suffix(line.s, line.cpos)], 0)
  /\ Shown(help.star)

Home(k) == k.op = "ctrl-a" /\ Moves(0) /\ Shown(help.star)
End(k)  == k.op = "ctrl-e" /\ Moves(LenOf(line.s)) /\ Shown(help.star)

Left(k) ==
  /\ k.op = "left"
  /\ IF help.on THEN Stays /\ Shown(IF help.star > 0 THEN help.star - 1 ELSE help.star)
     ELSE Moves(IF line.cpos > 0 THEN line.cpos - 1 ELSE 0) /\ UNCHANGED help

Right(k) ==
  /\ k.op = "right"
  /\ IF help.on THEN Stays /\ Shown(IF help.star < help.max THEN help.star + 1 ELSE help.star)
     ELSE Moves(IF line.cpos < LenOf(line.s) THEN line.cpos + 1 ELSE line.cpos) /\ UNCHANGED help

(* A paste up to the end of its first line; a carriage return before a     *)
(* line feed is cut off first, and the line feed then is not there.        *)
Paste(k) ==
  /\ k.op = "paste"
  /\ IF Len(k.lines) > 1 /\ k.ends = "crlf" THEN Panics /\ UNCHANGED help
     ELSE Insert(k.lines[1])

-----------------------------------------------------------------------------
(* History. *)
(* A mutant of Draft: a line of the history is kept too.                   *)
DraftAgain(l) == [l EXCEPT !.orig = l.s]

(* The line that the history or a search is entered from. *)
Draft(l) == IF nav.on THEN l ELSE [l EXCEPT !.orig = l.s]

Recall(text, l) ==
  LET r == FromText(h, text)
  IN  Keep(r.h, Look(r.h, [l EXCEPT !.s = r.s, !.cpos = Len(text)])) /\ Shown(help.star)

Up(k) ==
  /\ k.op = "up"
  /\ hist # <<>> /\ ~nav.on => Text \in Drafts
  /\ LET cur == IF nav.on THEN nav.cur ELSE Len(hist) + 1
         l   == Draft(line)
     IN  IF LenOf(line.s) > MW /\ line.cpos > MW
         THEN UNCHANGED nav /\ Keep(h, [line EXCEPT !.cpos = @ - MW]) /\ Shown(help.star)
         ELSE IF ~HasHist \/ hist = <<>> THEN UNCHANGED nav /\ Stays /\ Shown(help.star)
         ELSE IF cur > 1 THEN nav' = [on |-> TRUE, cur |-> cur - 1] /\ Recall(hist[cur - 1], l)
         ELSE /\ nav' = [on |-> TRUE, cur |-> cur]
              /\ Keep(h, Look(h, [l EXCEPT !.cpos = LenOf(line.s)])) /\ Shown(help.star)

(* DOWN goes a row down in a line that wraps, wherever that line ends. *)
Down(k) ==
  /\ k.op = "down" /\ mode # "box"
  /\ IF LenOf(line.s) > MW /\ line.cpos < MW
     THEN UNCHANGED nav /\ Keep(h, [line EXCEPT !.cpos = @ + MW]) /\ Shown(help.star)
     ELSE IF ~HasHist \/ ~nav.on THEN UNCHANGED nav /\ Stays /\ Shown(help.star)
     ELSE IF nav.cur < Len(hist)
     THEN nav' = [nav EXCEPT !.cur = @ + 1] /\ Recall(hist[nav.cur + 1], line)
     ELSE /\ nav' = NoNav
          /\ Keep(h, Look(h, [line EXCEPT !.s = line.orig, !.cpos = LenOf(line.orig)]))
          /\ Shown(help.star)

(* DOWN in an input box: one of its options, or none. *)
Choose(k) ==
  /\ k.op = "down" /\ mode = "box" /\ UNCHANGED <<help, nav>>
  /\ \/ \E o \in BoxOptions :
          IF PastEnd THEN Panics
          ELSE Becomes(Inserted(h, line.s, line.cpos, o), line.cpos + Len(o))
     \/ Stays

-----------------------------------------------------------------------------
(* Completion. *)
Tab(k) ==
  /\ k.op = "tab" /\ (Hints => hist \in Hinted)
  /\ IF Hints
     THEN /\ Stays
          /\ IF help.on THEN Off
             ELSE help' = [help EXCEPT !.on = TRUE, !.max = IF Offered = <<>> THEN @ ELSE Len(Offered) - 1]
     ELSE /\ IF Begins(Text, Cells(h, line.default))
             THEN Keep(h, [line EXCEPT !.s = line.default, !.cpos = LenOf(line.default)])
             ELSE Stays
          /\ UNCHANGED help

Starred == AtKey # <<>> /\ help.star > -1

(* The option replaces the word; after a dot without its parenthesis. *)
Take(o) ==
  LET d    == DeletedWord(h, line.s, line.cpos)
      at   == IF d.start > 0 THEN d.start ELSE 1
      left == Cells(d.h, d.s)
      dot  == at <= Len(left) /\ left[at] = "."
      text == IF Contains(o.text, "(") /\ dot THEN Front(o.text) ELSE o.text
      r    == Inserted(d.h, d.s, d.start, text)
  IN  Keep(r.h, [line EXCEPT !.s = r.s, !.cpos = d.start + Len(text)])

(* ENTER on a directory goes into it. *)
IntoDirectory(k) ==
  /\ k.op = "enter" /\ help.on /\ Starred
  /\ help.star < Len(AtKey) /\ AtKey[help.star + 1].kind = "directory"
  /\ LET d == DeletedWord(h, line.s, line.cpos)
         r == Inserted(d.h, d.s, d.start, Append(AtKey[help.star + 1].text, "/"))
     IN  Becomes(r, LenOf(r.s))
  /\ Shown(-1)

TakeOption(k) ==
  /\ k.op = "enter" /\ help.on
  /\ Starred /\ help.star < Len(AtKey) => AtKey[help.star + 1].kind # "directory"
  /\ IF Offered = <<>> \/ (help.star = -1 /\ Len(Offered) > 1) THEN Stays
     ELSE IF help.star >= Len(Offered) THEN Panics
     ELSE Take(Offered[IF help.star > -1 THEN help.star + 1 ELSE 1])
  /\ Off

-----------------------------------------------------------------------------
(* The end of the call. *)
AddToHistory(entry) ==
  LET all == Append(hist, entry)
  IN  hist' = IF entry = <<>> \/ (hist # <<>> /\ Last(hist) = entry) THEN hist
              ELSE IF Len(all) > MaxHistory THEN Tail(all) ELSE all

Returns(how) ==
  /\ Ends(h, IF LenOf(line.s) = 0 THEN [line EXCEPT !.s = line.default] ELSE line, Closed)
  /\ fate' = how

Enter(k) ==
  /\ k.op = "enter" /\ ~help.on /\ Text \in Kept
  /\ AddToHistory(Text) /\ Returns("returned") /\ UNCHANGED help

Break(k) ==
  /\ k.op \in {"ctrl-c", "ctrl-d"}
  /\ Returns("returned") /\ UNCHANGED help

(* Ctrl-Z stops the process; when it goes on, so does the call. *)
Suspend(k) == k.op = "ctrl-z" /\ Stays /\ Shown(help.star)

-----------------------------------------------------------------------------
(* The reverse search. *)
BeginSearch(k) ==
  /\ k.op = "ctrl-r"
  /\ IF HasHist /\ hist # <<>> /\ LenOf(line.s) = 0
     THEN /\ search' = [NoSearch EXCEPT !.on = TRUE]
          /\ Keep(h, Draft(line))
     ELSE UNCHANGED search /\ Stays
  /\ Shown(help.star)

Found == Results(search.buffer)

SearchAccept(k) ==
  /\ k.op = "enter"
  /\ search' = NoSearch
  /\ LET r == FromText(h, hist[Found[search.pick + 1]])
     IN  IF Found = <<>> THEN Stays
         ELSE Keep(r.h, [line EXCEPT !.s = r.s, !.cpos = LenOf(r.s)])

SearchCancel(k) ==
  /\ k.op = "ctrl-r"
  /\ search' = NoSearch
  /\ Keep(h, [line EXCEPT !.s = line.orig, !.cpos = LenOf(line.orig)])

SearchType(k) ==
  /\ k.op = "type" /\ Len(search.buffer) < MaxQuery
  /\ search' = [search EXCEPT !.buffer = Append(@, k.r), !.pick = 0] /\ Stays

SearchBackspace(k) ==
  /\ k.op = "bs"
  /\ search' = IF search.buffer = <<>> THEN search
               ELSE [search EXCEPT !.buffer = Front(@), !.pick = 0]
  /\ Stays

SearchClear(k) ==
  /\ k.op = "ctrl-u"
  /\ search' = [NoSearch EXCEPT !.on = TRUE] /\ Stays

SearchStep(k) ==
  /\ k.op \in {"up", "down"}
  /\ LET n == Len(Found)
     IN  search' = IF n = 0 THEN search
                   ELSE [search EXCEPT !.pick = IF k.op = "up" THEN (@ + 1) % n ELSE (@ - 1 + n) % n]
  /\ Stays

(* A key the search does not know is never taken from what was read.       *)
SearchOther(k) ==
  /\ k.op \notin {"enter", "ctrl-r", "type", "bs", "ctrl-u", "up", "down", "ctrl-c", "ctrl-d", "ctrl-z", "paste"}
  /\ Lost("hangs") /\ UNCHANGED search

SearchKey(k) ==
  /\ UNCHANGED <<nav, hist>>
  /\ \/ SearchAccept(k) \/ SearchCancel(k) \/ SearchType(k) \/ SearchBackspace(k)
     \/ SearchClear(k) \/ SearchStep(k) \/ SearchOther(k)
  /\ Shown(help.star)

-----------------------------------------------------------------------------
(* The editor of several lines. *)
OpenEditor(k) ==
  /\ k.op = "ctrl-o" /\ <<mode, Text, hist, help>> \in Opens
  /\ LET o == Opened(h, Text)
     IN  Ends(o.h, line, o.e) /\ fate' = "edits"
  /\ UNCHANGED help

(* The quote that is open after so many runes; within quotes the ends of   *)
(* lines are escaped.                                                      *)
Escaped(text) ==
  LET open[n \in 0..Len(text)] ==
        IF n = 0 THEN Junk
        ELSE IF open[n - 1] = Junk THEN IF text[n] \in Quotes THEN text[n] ELSE Junk
        ELSE IF text[n] = open[n - 1] THEN Junk ELSE open[n - 1]
      InQuotes(n) == open[n - 1] # Junk /\ text[n] # open[n - 1]
  IN  FlattenSeq([n \in DOMAIN text |->
        IF InQuotes(n) /\ text[n] \in {"nl", "backslash"} THEN <<"backslash", IF text[n] = "nl" THEN "n" ELSE "backslash">>
        ELSE <<text[n]>>])

Accepted(text) ==
  LET r == FromText(h, text)
  IN  Keep(r.h, [line EXCEPT !.s = r.s, !.cpos = Len(text)]) /\ Shown(help.star)

CloseEditor(k) ==
  \/ k.op = "ctrl-d" /\ Accepted(Escaped(Joined(Texts(h, ed))))
  \/ k.op = "ctrl-r" /\ Accepted(Escaped(Texts(h, ed)[1]))
  \/ k.op = "esc" /\ Stays /\ Shown(help.star)

EditKey(k) ==
  /\ k.op \notin {"ctrl-d", "ctrl-r", "esc"}
  /\ k.op = "ctrl-f" => <<ed.i, ed.c>> \in Searched
  /\ LET r == EditorKey(h, ed, k)
     IN  IF Drawable(r.e) THEN Ends(r.h, line, r.e) /\ fate' = "edits" ELSE Panics
  /\ UNCHANGED help

FilterKey(k) ==
  /\ LET e == Filtered(h, ed, k)
     IN  IF Drawable(e) THEN Ends(h, line, e) /\ fate' = "edits" ELSE Panics
  /\ UNCHANGED help

InEditor(k) ==
  /\ UNCHANGED <<nav, hist, search>>
  /\ IF Filtering(ed) THEN FilterKey(k) ELSE EditKey(k) \/ CloseEditor(k)

-----------------------------------------------------------------------------
LineKey(k) ==
  /\ UNCHANGED <<nav, hist, search>>
  /\ \/ Type(k) \/ Fast(k) \/ Escape(k) \/ Garbled(k) \/ Space(k) \/ Backspace(k) \/ Delete(k)
     \/ KillAfter(k) \/ KillBefore(k) \/ Home(k) \/ End(k) \/ Left(k) \/ Right(k)
     \/ Tab(k) \/ IntoDirectory(k) \/ TakeOption(k) \/ OpenEditor(k)

Press(k) ==
  /\ fate = "edits" /\ key' = k /\ mode' = mode
  /\ IF ed # Closed THEN InEditor(k)
     ELSE \/ UNCHANGED <<nav, hist, search>> /\ (Paste(k) \/ Break(k) \/ Suspend(k))
          \/ search.on /\ SearchKey(k)
          \/ ~search.on /\ LineKey(k)
          \/ ~search.on /\ UNCHANGED <<nav, search>> /\ Enter(k)
          \/ ~search.on /\ UNCHANGED <<nav, hist>> /\ BeginSearch(k)
          \/ ~search.on /\ UNCHANGED <<hist, search>> /\ (Up(k) \/ Down(k) \/ Choose(k))

(* The next call of getInput. *)
Call ==
  /\ fate = "returned" /\ UNCHANGED hist
  /\ \/ Fresh("session", <<>>)
     \/ hist \in Hinted /\ \E d \in Defaults : Fresh("prompt", d) \/ Fresh("box", d)

Next == Call \/ \E k \in Keys : Press(k)

Spec == Init /\ [][Next]_vars

-----------------------------------------------------------------------------
(* What the keys mean for a line: a text, a cursor in it, and the draft    *)
(* that is kept while history is shown, of which at is the place.          *)
View == [text  |-> Text, cpos |-> line.cpos, at |-> IF nav.on THEN nav.cur ELSE Len(hist) + 1,
         draft |-> IF nav.on THEN Cells(h, line.orig) ELSE <<>>]

Shows(v, text, at, draft) == [text |-> text, cpos |-> Len(text), at |-> at, draft |-> draft]

Wraps(text) == Len(text) > MW

LineMeans(v, k) ==
  LET before == SubSeq(v.text, 1, v.cpos)
      after  == SubSeq(v.text, v.cpos + 1, Len(v.text))
      Put(u) == [v EXCEPT !.text = before \o u \o after, !.cpos = @ + Len(u)]
      now    == v.at > Len(hist)
      Row(o) == k.op = o /\ Wraps(v.text) /\ (IF o = "up" THEN v.cpos > MW ELSE v.cpos < MW)
      Turn(o) == k.op = o /\ ~Row(o)
  IN  CASE k.op = "type"  -> Put(<<k.r>>)
        [] k.op = "paste" -> Put(k.lines[1])
        [] k.op = "bs" /\ before # <<>> -> [v EXCEPT !.text = Front(before) \o after, !.cpos = @ - 1]
        [] k.op = "del" /\ after # <<>> -> [v EXCEPT !.text = before \o Tail(after)]
        [] k.op = "ctrl-k" -> [v EXCEPT !.text = before]
        [] k.op = "ctrl-u" -> [v EXCEPT !.text = after, !.cpos = 0]
        [] k.op = "ctrl-a" -> [v EXCEPT !.cpos = 0]
        [] k.op = "ctrl-e" -> [v EXCEPT !.cpos = Len(v.text)]
        [] k.op = "left" /\ before # <<>> -> [v EXCEPT !.cpos = @ - 1]
        [] k.op = "right" /\ after # <<>> -> [v EXCEPT !.cpos = @ + 1]
        [] Row("up")   -> [v EXCEPT !.cpos = @ - MW]
        [] Row("down") -> [v EXCEPT !.cpos = @ + MW]
        [] Turn("up") /\ HasHist /\ v.at > 1 ->
             Shows(v, hist[v.at - 1], v.at - 1, IF now THEN v.text ELSE v.draft)
        [] Turn("up") /\ HasHist /\ v.at = 1 /\ hist # <<>> -> [v EXCEPT !.cpos = Len(v.text)]
        [] Turn("down") /\ v.at < Len(hist) -> Shows(v, hist[v.at + 1], v.at + 1, v.draft)
        [] Turn("down") /\ v.at = Len(hist) -> Shows(v, v.draft, v.at + 1, <<>>)
        [] OTHER -> v

Plain == fate = "edits" /\ ed = Closed /\ ~search.on

Single(k) == k.op = "paste" => Len(k.lines) = 1

EditOps == {"type", "paste", "bs", "del", "ctrl-k", "ctrl-u", "ctrl-a", "ctrl-e", "left", "right",
            "up", "down", "esc"}

(* With the cursor in the line every key does to the text what it is for,  *)
(* the draft comes back as it was left, and nothing panics (insertAt,      *)
(* removeBefore, insertWord and the history keys).  The word, the default  *)
(* and a line the history has left may share the line's array; but not the *)
(* draft, which a search given up inside the history puts in the line.     *)
(* DOWN in the first row of a line whose second row is shorter leaves it.  *)
DraftApart == nav.on => line.s.array # line.orig.array
Leaves(op) == op = "down" /\ Wraps(Text) /\ line.cpos < MW /\ line.cpos + MW > Len(Text)

AsMeant ==
  [][Plain /\ ~help.on /\ ~PastEnd /\ DraftApart /\ mode # "box"
     /\ key'.op \in EditOps /\ Single(key') /\ ~Leaves(key'.op) =>
       fate' = "edits" /\ View' = LineMeans(View, key')]_vars

(* ENTER on a starred option puts that option where the word began, with   *)
(* what was before it unchanged, although the list was made for a word     *)
(* that is looked up by other separators and at another time.              *)
StarredTaken ==
  [][Plain /\ help.on /\ ~PastEnd /\ help.star + 1 \in DOMAIN Offered /\ key'.op = "enter" =>
       LET start == StartOf(Text, line.cpos, Separators)
           name  == Offered[help.star + 1].text
           old   == SubSeq(Text, 1, start)
       IN  /\ fate' = "edits"
           /\ \/ Begins(old \o name, Text')
              \/ Contains(name, "(") /\ Begins(old \o Front(name), Text')]_vars

(* In the editor of several lines every key does to the text what it is    *)
(* for and nothing panics, unless two lines are parts of one array (ENTER, *)
(* BACKSPACE, DEL and the arrows of multilineEditor).  A paste of several  *)
(* lines is left out: what followed the cursor stays in the upper line.    *)
(* So is DEL that takes away an empty line when all lines are drawn: the   *)
(* number of those is kept, and drawing the last of them panics.           *)
Apart(e) == \A m, n \in DOMAIN e.lines : m # n => e.lines[m].array # e.lines[n].array

TakesLine(op) == op = "del" /\ Width(ed) = 0 /\ Len(ed.lines) > 1 /\ ed.height = Len(ed.lines)

LinesAsMeant ==
  [][fate = "edits" /\ ed # Closed /\ ~Filtering(ed) /\ Apart(ed)
     /\ Single(key') /\ ~TakesLine(key'.op) /\ key'.op \notin {"ctrl-d", "ctrl-r", "esc"} =>
       fate' = "edits" /\ Lines(h', ed') = Means(Lines(h, ed), key')]_vars
=============================================================================

---------------------------- MODULE MCLineInput ----------------------------
(* A small console: one letter and the space, a screen of three columns. *)
EXTENDS LineInput

K(op) == [op |-> op]
T(r)  == [op |-> "type", r |-> r]
P(lines, ends) == [op |-> "paste", lines |-> lines, ends |-> ends]

MCKeys ==
  {K(op) : op \in {"bs", "del", "ctrl-k", "ctrl-u", "ctrl-a", "ctrl-e", "left", "right", "up", "down", "tab",
                   "enter", "esc", "ctrl-c", "ctrl-d", "ctrl-z", "ctrl-r", "ctrl-o", "ctrl-f", "garbled"}}
  \union {T("a"), T(" "), [op |-> "fast", r |-> "a"], P(<<<<"a", " ">>>>, "none")}
  \union {P(<<<<"a">>, <<" ">>>>, ends) : ends \in {"lf", "cr", "crlf"}}

MCRune == {"a", "b", "n", " ", "/", "(", "backslash", "nl", Junk}

MCKept == {<<>>, <<"a">>, <<" ">>}
MCDrafts == {<<"a">>}
MCHinted == {<<>>}
MCSearched == {<<1, 0>>}
MCOpens == {<<"session", <<"a">>, <<>>, NoHelp>>}

MCDefaults == {<<"a", "a", " ", "a">>}
MCBoxOptions == {<<"a">>}
MCOptions == <<[text |-> <<"b", "(">>, kind |-> "function"], [text |-> <<"a">>, kind |-> "keyword"]>>

MCDirectories ==
  [dir \in {<<>>, <<"b", "/">>} |->
     IF dir = <<>> THEN <<[text |-> <<"b">>, kind |-> "directory"]>>
     ELSE <<[text |-> <<"a">>, kind |-> "file"]>>]

(* What the steps read: not the last key, and of a call that ended only    *)
(* what it leaves.                                                         *)
Read == IF fate = "edits" THEN <<fate, h, line, mode, nav, hist, search, help, ed>> ELSE <<fate, hist>>
=============================================================================

----------------------------- MODULE LineEditor -----------------------------
(***************************************************************************)
(* The line editor of sdplane's shells: what each key does to the command  *)
(* line, to the terminal's current row and to the history.                 *)
(*                                                                         *)
(* A shell is a record s.  s.line is command_line[0 .. end-1], s.cursor    *)
(* the index of the cursor and s.size the allocated size.  The terminal    *)
(* is an independent party that sees characters, backspaces and line feeds *)
(* only: s.row is the text on its current row after the prompt, s.col the  *)
(* column of its cursor counted from the prompt's end, and s.shown is      *)
(* whether the row began with a prompt.                                    *)
(***************************************************************************)
EXTENDS Integers, Sequences, FiniteSets, SequencesExt

CONSTANTS
  Printable,     \* the keys that insert themselves
  Commands,      \* the command set: each command is a sequence of words
  InitialSize,   \* INITIAL_COMMAND_LINE_SIZE
  HistorySize,   \* HISTORY_SIZE
  Byte           \* the value of a key inside a telnet subnegotiation

ASSUME SizeAssumption == InitialSize \in Nat \ {0} /\ HistorySize \in Nat \ {0, 1}
ASSUME CommandAssumption == \A c \in Commands : c # <<>> /\ \A i \in DOMAIN c : c[i] # <<>>

Blank == " "
Junk == "junk"   \* memory behind a line that has no terminating NUL

Keep(t, n) == SubSeq(t, 1, n)
Drop(t, n) == SubSeq(t, n + 1, Len(t))
Blanks(n) == [i \in 1 .. n |-> Blank]
AtMost(a, b) == IF a < b THEN a ELSE b

-----------------------------------------------------------------------------
(* The terminal.                                                           *)

\* write of text at the terminal's cursor: cells are overwritten.
Write(s, text) ==
  LET n == Len(text)
      w == IF Len(s.row) > s.col + n THEN Len(s.row) ELSE s.col + n
  IN  [s EXCEPT !.row = [i \in 1 .. w |->
                           IF i \in s.col + 1 .. s.col + n THEN text[i - s.col]
                           ELSE IF i <= Len(s.row) THEN s.row[i] ELSE Blank],
                !.col = @ + n]

\* n times CONTROL ('H').
Backspaces(s, n) == IF n > 0 THEN [s EXCEPT !.col = @ - n] ELSE s

\* shell_linefeed: a new row, without a prompt.
Linefeed(s) == [s EXCEPT !.row = <<>>, !.col = 0, !.shown = FALSE]

\* shell_prompt: carriage return and prompt; the rest of the row stays.
Prompt(s) == [s EXCEPT !.col = 0, !.shown = TRUE]

\* The escape sequence that clears the screen, cursor to the top left.
ClearScreen(s) == Linefeed(s)

\* What strlen and write see from position a on: shell_terminate writes the
\* NUL only when it is within the allocated size.
Visible(s, a) ==
  Drop(s.line, a) \o (IF Len(s.line) < s.size THEN <<>> ELSE <<Junk>>)

-----------------------------------------------------------------------------
(* Editing primitives.                                                     *)

\* shell_clear.
Clear(s) == [s EXCEPT !.line = <<>>, !.cursor = 0]

\* shell_refresh.
Refresh(s) ==
  LET w == Write(Prompt(s), Visible(s, 0))
  IN  Backspaces(w, Len(s.line) - s.cursor)

\* shell_expand, until need bytes fit.
Expanded(size, need) ==
  CHOOSE n \in {size * 2^k : k \in 0 .. need} :
    n >= need /\ (n = size \/ n < 2 * need)

\* shell_insert: make room, insert at the cursor, redraw the rest of the
\* line and go back behind the inserted text.
Insert(s, text) ==
  LET e == [s EXCEPT !.size = Expanded(@, Len(s.line) + Len(text) + 1),
                     !.line = Keep(@, s.cursor) \o text \o Drop(@, s.cursor)]
      w == Write(e, Visible(e, s.cursor))
      c == s.cursor + Len(text)
  IN  Backspaces([w EXCEPT !.cursor = c], Len(e.line) - c)

\* Mutant: a deletion that redraws the line without blanking its old end.
DeleteStringRagged(s, a, b) ==
  LET w == Write(Backspaces(s, s.cursor - a), Drop(s.line, b))
  IN  Backspaces([w EXCEPT !.line = Keep(@, a) \o Drop(@, b), !.cursor = a],
                 Len(s.line) - b)

\* shell_delete_string: close the gap, blank the end, redraw.
DeleteString(s, a, b) ==
  LET moved == Drop(s.line, b) \o Blanks(b - a)
      w == Write(Backspaces(s, s.cursor - a),
                 moved \o Visible(s, Len(s.line)))
  IN  Backspaces([w EXCEPT !.line = Keep(@, a) \o Drop(@, b), !.cursor = a],
                 Len(s.line) - a)

\* shell_cut: the cut buffer is emptied even when there is nothing to cut.
Cut(s, a, b) ==
  IF a = b THEN [s EXCEPT !.cut = <<>>]
  ELSE DeleteString([s EXCEPT !.cut = SubSeq(s.line, a + 1, b)], a, b)

\* shell_forward: rewrites the characters it passes.
Forward(s, n) ==
  IF s.cursor + n > Len(s.line) THEN s
  ELSE [Write(s, SubSeq(s.line, s.cursor + 1, s.cursor + n))
          EXCEPT !.cursor = @ + n]

\* shell_backward.
Backward(s, n) ==
  IF s.cursor - n < 0 THEN s
  ELSE Backspaces([s EXCEPT !.cursor = @ - n], n)

\* shell_moveto.
MoveTo(s, p) ==
  IF s.cursor < p THEN Forward(s, p - s.cursor) ELSE Backward(s, s.cursor - p)

\* The characters shell_format keeps: no space at the beginning, and one of
\* each run of spaces.
Kept(t) == {i \in 1 .. Len(t) : t[i] # Blank \/ (i > 1 /\ t[i - 1] # Blank)}

\* The numbers of a set in increasing order.
InOrder(set) ==
  [k \in 1 .. Cardinality(set) |->
     CHOOSE i \in set : Cardinality({j \in set : j <= i}) = k]

Squeezed(t) == LET k == InOrder(Kept(t)) IN [i \in DOMAIN k |-> t[k[i]]]

\* shell_format: squeeze the line, the cursor staying on its character, and
\* redraw it in place.
Format(s) ==
  LET t == Squeezed(s.line)
      c == Cardinality({i \in Kept(s.line) : i <= s.cursor})
      w == Write(Backspaces(s, s.cursor), t \o Blanks(Len(s.line) - Len(t)))
  IN  Backspaces([w EXCEPT !.line = t, !.cursor = c], Len(s.line) - c)

\* shell_format2: the same without drawing, for a line about to be executed.
Format2(s) ==
  [s EXCEPT !.line = Squeezed(@),
            !.cursor = Cardinality({i \in Kept(s.line) : i <= s.cursor})]

-----------------------------------------------------------------------------
(* Words, as strsep cuts them: every delimiter ends one, some are empty.   *)

WordDelims == {Blank}           \* SHELL_WORD_DELIMITERS
SubwordDelims == {Blank, "/"}   \* SHELL_WORD_DELIMITERS_SUB

Heads(t, d) == {0} \cup {i \in 1 .. Len(t) : t[i] \in d}

Tail1(t, d, h) ==
  CHOOSE e \in h .. Len(t) :
    /\ e = Len(t) \/ t[e + 1] \in d
    /\ \A i \in h + 1 .. e : t[i] \notin d

\* Of a set of heads, the last one that begins a word of at least one
\* character, or 0.
LastWord(t, d, heads) ==
  LET w == {h \in heads : Tail1(t, d, h) > h}
  IN  IF w = {} THEN 0 ELSE CHOOSE h \in w : \A g \in w : g <= h

\* The word at or before point, which the searches below start from.
WordAt(t, d, point) == LastWord(t, d, {h \in Heads(t, d) : h <= point})

\* shell_word_head and shell_subword_head.
WordHead(t, d, point) ==
  LET w == WordAt(t, d, point)
  IN  IF Tail1(t, d, w) < point THEN point ELSE w

\* shell_word_end.
WordEnd(t, point) ==
  LET e == Tail1(t, WordDelims, WordAt(t, WordDelims, point))
  IN  IF e < point THEN point ELSE e

\* The strsep piece that point is in.
PieceOf(t, d, point) ==
  CHOOSE h \in Heads(t, d) : h <= point /\ point <= Tail1(t, d, h)

\* shell_word_next_head: the piece after it, if that is not empty.
NextHead(t, point) ==
  LET e == Tail1(t, WordDelims, PieceOf(t, WordDelims, point))
  IN  IF e < Len(t) /\ Tail1(t, WordDelims, e + 1) > e + 1 THEN e + 1
      ELSE Len(t)

\* shell_subword_prev_head.
PrevHead(t, d, point) ==
  LastWord(t, d, {h \in Heads(t, d) : h < PieceOf(t, d, point)})

\* Where shell_delete_word_backward and shell_move_word_backward go.
WordBack(s) ==
  LET h == WordHead(s.line, SubwordDelims, s.cursor)
  IN  IF h = s.cursor THEN PrevHead(s.line, SubwordDelims, s.cursor) ELSE h

DeleteWordBackward(s) == Cut(s, WordBack(s), s.cursor)
MoveWordBackward(s) == MoveTo(s, WordBack(s))
MoveWordForward(s) == MoveTo(s, NextHead(s.line, s.cursor))

-----------------------------------------------------------------------------
(* The command set: a tree whose nodes are the prefixes of Commands.       *)

NoNode == <<>>
NotFound == <<>>
Variable == <<"<V>">>   \* <0-300>, <WORD>, ...: accepts any word

Words(t) ==
  LET h == InOrder(Heads(t, WordDelims))
  IN  [i \in DOMAIN h |-> SubSeq(t, h[i] + 1, Tail1(t, WordDelims, h[i]))]

Children(parent) ==
  LET n == Len(parent)
  IN  {c[n + 1] : c \in {x \in Commands : Len(x) > n /\ Keep(x, n) = parent}}

\* command_match_unique_exact: the only match, a variable when nothing else
\* matches, or else the node spelt exactly like the word.
MatchUniqueExact(parent, word) ==
  LET v == Children(parent) \cap {Variable}
      r == {c \in Children(parent) : IsPrefix(word, c)}
  IN  IF r = {} /\ v # {} THEN Variable
      ELSE IF Cardinality(r) + Cardinality(v) = 1 THEN CHOOSE c \in r : TRUE
      ELSE IF word \in Children(parent) THEN word
      ELSE NoNode

\* One word of a walk down the tree: w.path is the node reached, w.word the
\* word that stopped the walk.
Descend(w, word) ==
  IF w.over THEN w
  ELSE LET c == MatchUniqueExact(w.path, word)
       IN  IF c = NoNode THEN [w EXCEPT !.over = TRUE, !.word = word, !.match = FALSE]
           ELSE [w EXCEPT !.path = Append(@, c), !.word = word, !.match = TRUE]

Walk(words) ==
  FoldLeft(Descend, [path |-> <<>>, word |-> <<>>, match |-> FALSE, over |-> FALSE],
           words)

\* command_execute: an empty word ends the command, a word without a match
\* makes it unknown, and so does a node without a function.
Lookup(t) ==
  LET ws == Words(t)
      empty == {i \in DOMAIN ws : ws[i] = <<>>}
      n == IF empty = {} THEN Len(ws)
           ELSE (CHOOSE i \in empty : \A j \in empty : i <= j) - 1
      w == Walk(Keep(ws, n))
  IN  IF w.match /\ w.path \in Commands THEN w.path ELSE NotFound

\* command_complete_common: what all matching words have in common.
Common(parent, word) ==
  LET m == {c \in Children(parent) \ {Variable} : IsPrefix(word, c)}
  IN  IF m = {} THEN <<>> ELSE Drop(LongestCommonPrefix(m), Len(word))

\* command_complete: of the whole line, wherever the cursor is.
Completion(t) ==
  LET w == Walk(Words(Squeezed(t)))
      last == w.path[Len(w.path)]
  IN  IF ~w.match THEN Common(w.path, w.word)
      ELSE IF last = Variable THEN <<>>
      ELSE Append(Drop(last, Len(w.word)), Blank)

-----------------------------------------------------------------------------
(* The history: a ring with an empty slot after the newest entry.          *)

NoEntry == <<Junk>>

HistoryNext(i) == (i + 1) % HistorySize
HistoryPrev(i) == (i + HistorySize - 1) % HistorySize

NoHistory == [array |-> [i \in 0 .. HistorySize - 1 |-> NoEntry],
              last |-> 0, current |-> 0]

\* shell->history is allocated with the first entry.
HistoryMade(h) == h.array[h.last] # NoEntry

\* Mutant: an addition that goes on from where the user has been browsing.
HistoryAddCurrent(h, t) ==
  IF h.array[h.last] = t THEN h
  ELSE [array |-> [h.array EXCEPT ![h.current] = t,
                                  ![HistoryNext(h.current)] = NoEntry],
        last |-> h.current, current |-> HistoryNext(h.current)]

\* command_history_add: a repeated command is not added again.
HistoryAdd(h, t) ==
  LET cur == IF HistoryMade(h) THEN HistoryNext(h.last) ELSE h.current
  IN  IF h.array[h.last] = t THEN [h EXCEPT !.current = cur]
      ELSE [array |-> [h.array EXCEPT ![cur] = t, ![HistoryNext(cur)] = NoEntry],
            last |-> cur, current |-> HistoryNext(cur)]

\* The line is replaced by entry i of the history.
Recall(s, i) ==
  [Insert(DeleteString(s, 0, Len(s.line)), s.hist.array[i])
     EXCEPT !.hist.current = i]

\* command_history_prev.
CommandHistoryPrev(s) ==
  LET p == HistoryPrev(s.hist.current)
  IN  IF ~HistoryMade(s.hist)
         \/ s.hist.current = HistoryNext(HistoryNext(s.hist.last))
         \/ s.hist.array[p] = NoEntry
      THEN s ELSE Recall(s, p)

\* command_history_next: below the newest entry is the empty line.
CommandHistoryNext(s) ==
  LET floor == HistoryNext(s.hist.last)
      n == HistoryNext(s.hist.current)
  IN  IF ~HistoryMade(s.hist) \/ s.hist.current = floor THEN s
      ELSE IF n = floor
      THEN [DeleteString(s, 0, Len(s.line)) EXCEPT !.hist.current = n]
      ELSE IF s.hist.array[n] = NoEntry THEN s ELSE Recall(s, n)

-----------------------------------------------------------------------------
(* The keys.                                                               *)

\* shell_keyfunc_delete_char and shell_keyfunc_backspace.
DeleteChar(s) ==
  IF s.cursor < Len(s.line) THEN DeleteString(s, s.cursor, s.cursor + 1) ELSE s

Backspace(s) ==
  IF s.cursor <= 0 THEN s
  ELSE LET b == Backward(s, 1) IN DeleteString(b, b.cursor, b.cursor + 1)

\* shell_keyfunc_delete_char_advanced: at the end of the line, backwards.
DeleteCharAdvanced(s) ==
  IF s.cursor < Len(s.line) \/ s.line = <<>> THEN DeleteChar(s)
  ELSE DeleteString(s, Len(s.line) - 1, Len(s.line))

\* shell_keyfunc_kill_all.
KillAll(s) == LET b == Backward(s, s.cursor) IN Cut(b, 0, Len(b.line))

\* command_shell_completion.
CommandShellCompletion(s) ==
  Insert(MoveTo(s, WordEnd(s.line, s.cursor)), Completion(s.line))

\* command_shell_ls_candidate: the candidates scroll by above a new row.
CommandShellLsCandidate(s) ==
  Refresh(Linefeed([s EXCEPT !.cursor = Len(s.line)]))

\* keymap_normal of a vty shell, but for the keys that execute the line.
KeymapNormal(s, k) ==
  CASE k = "^A" -> Backward(s, s.cursor)
    [] k = "^B" -> Backward(s, 1)
    [] k = "^D" -> DeleteChar(s)
    [] k = "^E" -> Forward(s, Len(s.line) - s.cursor)
    [] k = "^F" -> Forward(s, 1)
    [] k = "^H" -> Backspace(s)
    [] k = "^I" -> CommandShellCompletion(s)
    [] k = "^K" -> Cut(s, s.cursor, Len(s.line))
    [] k = "^L" -> Refresh(ClearScreen(s))
    [] k = "^N" -> CommandHistoryNext(s)
    [] k = "^P" -> CommandHistoryPrev(s)
    [] k = "^R" -> Refresh(Linefeed(Format(s)))
    [] k = "^U" -> KillAll(s)
    [] k = "^W" -> DeleteWordBackward(s)
    [] k = "^Y" -> Insert(s, s.cut)
    [] k = "DEL" -> DeleteCharAdvanced(s)
    [] k = "?" -> CommandShellLsCandidate(s)
    [] k = "ESC" -> [s EXCEPT !.keymap = "escape_1"]
    [] k = "IAC" -> [s EXCEPT !.keymap = "iac_1"]
    [] k \in Printable -> Insert(s, <<k>>)
    [] OTHER -> s

\* key_func_escape_1 and key_func_escape_2: every key leads back to normal.
KeymapEscape1(s, k) ==
  LET n == [s EXCEPT !.keymap = "normal"]
  IN  CASE k = "b" -> MoveWordBackward(n)
        [] k = "f" -> MoveWordForward(n)
        [] k \in {"^H", "DEL"} -> DeleteWordBackward(n)
        [] k = "[" -> [s EXCEPT !.keymap = "escape_2"]
        [] OTHER -> n

KeymapEscape2(s, k) ==
  LET n == [s EXCEPT !.keymap = "normal"]
  IN  CASE k = "A" -> CommandHistoryPrev(n)
        [] k = "B" -> CommandHistoryNext(n)
        [] k = "C" -> Forward(n, 1)
        [] k = "D" -> Backward(n, 1)
        [] OTHER -> n

-----------------------------------------------------------------------------
(* Telnet options.                                                         *)

\* A subnegotiated byte is a char, which is signed.
Signed(k) == IF Byte[k] >= 128 THEN Byte[k] - 256 ELSE Byte[k]

\* unsigned short: the high byte shifted by eight, plus the low one.
NawsValue(hi, lo) == (Signed(hi) * 256 + Signed(lo)) % 65536

\* vty_shell_keyfunc_telnet_opt: the option is reported on the terminal,
\* and the prompt is not printed again.
TelnetOpt(s) == Linefeed([s EXCEPT !.keymap = "normal"])

\* vty_shell_keyfunc_sb_end: a window size of five bytes is stored.
SbEnd(s) ==
  LET b == s.subnego
      naws == Len(b) = 5 /\ b[1] = "NAWS"
  IN  Refresh(Linefeed(
        [s EXCEPT !.keymap = "normal",
                  !.winsize = IF naws THEN [col |-> NawsValue(b[2], b[3]),
                                            row |-> NawsValue(b[4], b[5])]
                              ELSE @]))

\* key_func_iac_1, key_func_iac_2 and key_func_subnego.
KeymapIac1(s, k) ==
  CASE k = "SB" -> Linefeed([s EXCEPT !.keymap = "subnego", !.subnego = <<>>])
    [] k = "SE" -> SbEnd(s)
    [] k \in {"DO", "DONT", "WILL", "WONT"} -> [s EXCEPT !.keymap = "iac_2"]
    [] OTHER -> TelnetOpt(s)

KeymapSubnego(s, k) ==
  IF k = "IAC" THEN [s EXCEPT !.keymap = "iac_1"]
  ELSE [s EXCEPT !.subnego = Append(@, k)]

\* shell_input: the function of the key in the current keymap.
ShellInput(s, k) ==
  CASE s.keymap = "normal" -> KeymapNormal(s, k)
    [] s.keymap = "escape_1" -> KeymapEscape1(s, k)
    [] s.keymap = "escape_2" -> KeymapEscape2(s, k)
    [] s.keymap = "iac_1" -> KeymapIac1(s, k)
    [] s.keymap = "iac_2" -> TelnetOpt(s)
    [] s.keymap = "subnego" -> KeymapSubnego(s, k)

\* Whether the key runs command_shell_execute.
Executes(s, k) == s.keymap = "normal" /\ k \in {"^J", "^M"}

=============================================================================

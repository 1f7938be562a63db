------------------------------ MODULE LineEditor ------------------------------
(***************************************************************************)
(* The line editor of bvstk_line_editor.c that the UART, TCP and SSH       *)
(* consoles and the Neutrino shell share, as operators on its record, with *)
(* the user's terminal as one more field: the editor never reads the       *)
(* screen back, so what the user sees is only what its writes have left    *)
(* there.                                                                  *)
(*                                                                         *)
(* The terminal is the row of the prompt and a column, wide enough for the *)
(* line.  A character is a string of one letter, the prompt is one cell,   *)
(* and the beep shows nothing.                                             *)
(***************************************************************************)
EXTENDS Integers, Sequences, FiniteSets, SequencesExt

CONSTANTS
    LineMax,     \* BVSTK_LINE_EDITOR_LINE_MAX
    HistoryMax,  \* BVSTK_LINE_EDITOR_HISTORY_MAX
    ParMax,      \* bytes of escape_parameters
    Chars,       \* the printable characters, and the sign of the prompt
    Commands,    \* the words completed at the start of a line
    Listing      \* directory part of a token -> the set of names in that directory

Prompt == "$"
Blank == " "
Slash == "/"

ASSUME LineEditorAssumption ==
    /\ {LineMax, HistoryMax, ParMax} \subseteq Nat \ {0}
    /\ {Prompt, Blank, Slash} \subseteq Chars
    /\ Commands \subseteq Seq(Chars)
    /\ Listing \in [DOMAIN Listing -> SUBSET Seq(Chars)]

-----------------------------------------------------------------------------
(* The terminal (external): writing overwrites, as the code relies on.     *)

Fresh == [row |-> <<>>, col |-> 0]
Put(t, s) == [row |-> SubSeq(t.row, 1, t.col) \o s \o SubSeq(t.row, t.col + Len(s) + 1, Len(t.row)),
              col |-> t.col + Len(s)]
Left(t, n) == [t EXCEPT !.col = IF @ > n THEN @ - n ELSE 0]
Right(t, n) == [t EXCEPT !.col = @ + n]

-----------------------------------------------------------------------------
(* Plain state.                                                            *)

Before(e) == SubSeq(e.line, 1, e.cursor)
After(e) == SubSeq(e.line, e.cursor + 1, Len(e.line))

editor_reset_escape(e) == [e EXCEPT !.esc = "none", !.par = <<>>]

bvstk_line_editor_init ==
    [line |-> <<>>, cursor |-> 0, history |-> <<>>, position |-> -1, scratch |-> <<>>,
     cut |-> <<>>, esc |-> "none", par |-> <<>>, term |-> Fresh]

bvstk_line_editor_reset(e) ==
    editor_reset_escape([e EXCEPT !.line = <<>>, !.cursor = 0, !.position = -1])

bvstk_line_editor_set_state(e, line, cursor) == [e EXCEPT !.line = line, !.cursor = cursor]
edited_keeps_place(e) == e  \* A mistake: an edit does not leave the history
bvstk_line_editor_mark_edited(e) == [e EXCEPT !.position = -1]

(* editor_add_history: a line like the last one is not kept twice.         *)
editor_add_history(e) ==
    IF e.line = <<>> \/ (e.history # <<>> /\ Last(e.history) = e.line) THEN e
    ELSE [e EXCEPT !.history = Append(IF Len(@) = HistoryMax THEN Tail(@) ELSE @, e.line)]

ShowPrompt(e) == [e EXCEPT !.term = Put(@, <<Prompt>>)]
bvstk_line_editor_redraw(e) ==
    LET shown == Put(ShowPrompt([e EXCEPT !.term = Fresh]).term, e.line)
    IN  [e EXCEPT !.term = Left(shown, Len(e.line) - e.cursor)]

-----------------------------------------------------------------------------
(* Moving.                                                                 *)

IsBlank(e, i) == e.line[i] = Blank
(* The start of the word before the cursor, the blanks between skipped.    *)
WordStart(e) ==
    LET starts == {i \in 0..e.cursor - 1 : ~ IsBlank(e, i + 1) /\ (i = 0 \/ IsBlank(e, i))}
    IN  IF starts = {} THEN 0 ELSE CHOOSE i \in starts : \A j \in starts : j <= i
(* Ctrl-Right stops at the next word's start, Alt-D at the word's end.     *)
NextStart(e) ==
    LET starts == {i \in e.cursor + 1..Len(e.line) - 1 : IsBlank(e, i) /\ ~ IsBlank(e, i + 1)}
    IN  IF starts = {} THEN Len(e.line) ELSE CHOOSE i \in starts : \A j \in starts : i <= j
WordEnd(e) ==
    LET ends == {i \in e.cursor + 1..Len(e.line) - 1 : ~ IsBlank(e, i) /\ IsBlank(e, i + 1)}
    IN  IF ends = {} THEN Len(e.line) ELSE CHOOSE i \in ends : \A j \in ends : i <= j

editor_move_left(e, word) ==
    LET to == IF word THEN WordStart(e) ELSE e.cursor - 1
    IN  IF e.cursor = 0 THEN e ELSE [e EXCEPT !.cursor = to, !.term = Left(@, e.cursor - to)]

editor_move_right(e, word) ==
    LET to == IF word THEN NextStart(e) ELSE e.cursor + 1
    IN  IF e.cursor >= Len(e.line) THEN e ELSE [e EXCEPT !.cursor = to, !.term = Right(@, to - e.cursor)]

Home(e) == bvstk_line_editor_redraw([e EXCEPT !.cursor = 0])
End(e) == bvstk_line_editor_redraw([e EXCEPT !.cursor = Len(e.line)])

-----------------------------------------------------------------------------
(* History.                                                                *)

Recall(e, position, line) ==
    bvstk_line_editor_redraw(bvstk_line_editor_set_state([e EXCEPT !.position = position], line, Len(line)))

editor_history_up(e) ==
    IF e.history = <<>> \/ e.position = 0 THEN e
    ELSE IF e.position < 0
         THEN Recall([e EXCEPT !.scratch = e.line], Len(e.history) - 1, Last(e.history))
         ELSE Recall(e, e.position - 1, e.history[e.position])

editor_history_down(e) ==
    IF e.position < 0 THEN e
    ELSE IF e.position + 1 < Len(e.history) THEN Recall(e, e.position + 1, e.history[e.position + 2])
    ELSE Recall(e, -1, e.scratch)

-----------------------------------------------------------------------------
(* Editing.                                                                *)

Redone(e, line, cursor) ==
    bvstk_line_editor_redraw(bvstk_line_editor_mark_edited(bvstk_line_editor_set_state(e, line, cursor)))

insert_moves_less(e, c) ==  \* A mistake: the cursor is moved back one cell too few
    LET new == bvstk_line_editor_mark_edited(
                   bvstk_line_editor_set_state(e, Append(Before(e), c) \o After(e), e.cursor + 1))
        tail == Len(After(e))
    IN  IF Len(e.line) + 1 >= LineMax THEN e
        ELSE [new EXCEPT !.term = Left(Put(@, <<c>> \o After(e)), IF tail > 1 THEN tail - 1 ELSE tail)]

editor_insert(e, c) ==
    LET new == bvstk_line_editor_mark_edited(
                   bvstk_line_editor_set_state(e, Append(Before(e), c) \o After(e), e.cursor + 1))
    IN  IF Len(e.line) + 1 >= LineMax THEN e
        ELSE [new EXCEPT !.term = Left(Put(@, <<c>> \o After(e)), Len(After(e)))]

editor_backspace(e) ==
    IF e.cursor = 0 THEN e ELSE Redone(e, Front(Before(e)) \o After(e), e.cursor - 1)

editor_delete(e) ==
    IF After(e) = <<>> THEN e ELSE Redone(e, Before(e) \o Tail(After(e)), e.cursor)

editor_cut_range(e, start, end) ==
    IF start >= end THEN e
    ELSE Redone([e EXCEPT !.cut = SubSeq(e.line, start + 1, end)],
                SubSeq(e.line, 1, start) \o SubSeq(e.line, end + 1, Len(e.line)), start)

editor_delete_previous_word(e) == IF e.cursor = 0 THEN e ELSE editor_cut_range(e, WordStart(e), e.cursor)
editor_delete_next_word(e) == IF After(e) = <<>> THEN e ELSE editor_cut_range(e, e.cursor, WordEnd(e))

editor_paste_cut_buffer(e) ==
    IF e.cut = <<>> \/ Len(e.line) + Len(e.cut) >= LineMax THEN e
    ELSE Redone(e, Before(e) \o e.cut \o After(e), e.cursor + Len(e.cut))

bvstk_line_editor_replace(e, start, word, space) ==
    LET new == word \o (IF space /\ word # <<>> /\ Last(word) # Slash THEN <<Blank>> ELSE <<>>)
        line == SubSeq(e.line, 1, start) \o new \o After(e)
    IN  IF Len(line) >= LineMax THEN e ELSE Redone(e, line, start + Len(new))

-----------------------------------------------------------------------------
(* Completion.  The token before the cursor is completed from the commands *)
(* when it is the first, from the directory it names otherwise.  Each      *)
(* console returns the candidates in its own way (their order is only      *)
(* shown):                                                                 *)
(*   "bare"    UART and TCP: the names as the directory lists them         *)
(*   "whole"   Neutrino: with the directory part of the token              *)
(*   "suffix"  SSH: the names, appended behind what they have in common    *)

LastOf(s, c) == LET at == {i \in DOMAIN s : s[i] = c}
                IN  IF at = {} THEN 0 ELSE CHOOSE i \in at : \A j \in at : j <= i
TokenStart(e) == LastOf(Before(e), Blank)
Token(e) == SubSeq(e.line, TokenStart(e) + 1, e.cursor)
IsFirst(e) == \A i \in 1..TokenStart(e) : IsBlank(e, i)
DirPart(token) == SubSeq(token, 1, LastOf(token, Slash))
NamePart(token) == SubSeq(token, LastOf(token, Slash) + 1, Len(token))

Fits(prefix, words) == {w \in words : IsPrefix(prefix, w)}
(* bvstk_console_complete of the UART and TCP consoles. *)
bvstk_console_complete(e) ==
    IF IsFirst(e) THEN Fits(Token(e), Commands)
    ELSE IF DirPart(Token(e)) \in DOMAIN Listing THEN Fits(NamePart(Token(e)), Listing[DirPart(Token(e))])
    ELSE {}
(* complete_shell_line of the Neutrino shell. *)
complete_shell_line(e) ==
    IF IsFirst(e) THEN bvstk_console_complete(e)
    ELSE {DirPart(Token(e)) \o w : w \in bvstk_console_complete(e)}

common_prefix(words) ==
    LET first == CHOOSE w \in words : TRUE
        same == {n \in 0..Len(first) : \A w \in words : IsPrefix(SubSeq(first, 1, n), w)}
    IN  SubSeq(first, 1, CHOOSE n \in same : \A m \in same : m <= n)
Single(words) == \A v, w \in words : v = w

editor_complete(e, words) ==
    LET common == common_prefix(words)
    IN  IF words = {} THEN e
        ELSE IF Single(words) THEN bvstk_line_editor_replace(e, TokenStart(e), common, TRUE)
        ELSE bvstk_line_editor_redraw(
                 IF Len(common) > Len(Token(e))
                 THEN bvstk_line_editor_replace(e, TokenStart(e), common, FALSE) ELSE e)

(* ssh_apply_matches on the editor's state: only what is missing behind    *)
(* the name's prefix is inserted, a blank only at the end of the line.     *)
ssh_apply_matches(e, words) ==
    LET prefix == IF IsFirst(e) THEN Token(e) ELSE NamePart(Token(e))
        common == common_prefix(words)
        more == SubSeq(common, Len(prefix) + 1, Len(common))
        space == IF Single(words) /\ After(e) = <<>> /\ Last(common) # Slash THEN <<Blank>> ELSE <<>>
        line == Before(e) \o more \o After(e) \o space
    IN  IF words = {} \/ Len(line) >= LineMax THEN bvstk_line_editor_mark_edited(e)
        ELSE Redone(e, line, e.cursor + Len(more) + Len(space))

Complete(e, style) ==
    CASE style = "bare" -> editor_complete(e, bvstk_console_complete(e))
      [] style = "whole" -> editor_complete(e, complete_shell_line(e))
      [] style = "suffix" -> ssh_apply_matches(e, bvstk_console_complete(e))

-----------------------------------------------------------------------------
(* Bytes: control codes, and the escape sequences ESC x, ESC [ .. x and    *)
(* ESC O x.  A byte that means nothing only beeps.                         *)

Controls == {"^A", "^B", "^D", "^E", "^F", "^H", "^K", "^L", "^N", "^P", "^U", "^W", "^Y", "TAB", "ESC"}
Digits == [d \in {"1", "3", "4", "5"} |->
             CASE d = "1" -> 1 [] d = "3" -> 3 [] d = "4" -> 4 [] d = "5" -> 5]
EscapeBytes == DOMAIN Digits \cup {";", "[", "O", "A", "B", "C", "D", "F", "H", "b", "d", "f", "^H", "~"}

Control(e, b, style) ==
    CASE b = "ESC" -> [e EXCEPT !.esc = "started", !.par = <<>>]
      [] b = "^A" -> Home(e)
      [] b = "^B" -> editor_move_left(e, FALSE)
      [] b = "^D" -> editor_delete(e)
      [] b = "^E" -> End(e)
      [] b = "^F" -> editor_move_right(e, FALSE)
      [] b = "^H" -> editor_backspace(e)
      [] b = "^K" -> editor_cut_range(e, e.cursor, Len(e.line))
      [] b = "^L" -> bvstk_line_editor_redraw(e)
      [] b = "^N" -> editor_history_down(e)
      [] b = "^P" -> editor_history_up(e)
      [] b = "^U" -> editor_cut_range(e, 0, e.cursor)
      [] b = "^W" -> editor_delete_previous_word(e)
      [] b = "^Y" -> editor_paste_cut_buffer(e)
      [] b = "TAB" -> Complete(e, style)

(* parse_parameter: the index-th number, 0 when empty, -1 when absent.     *)
parse_parameter(par, index) ==
    LET ends == {i \in DOMAIN par : par[i] = ";"}
        mine == {i \in DOMAIN par \ ends : Cardinality({j \in ends : j < i}) = index}
        value == FoldLeft(LAMBDA n, i : IF i \in mine /\ n < 1000 THEN n * 10 + Digits[par[i]] ELSE n,
                          0, [i \in DOMAIN par |-> i])
    IN  IF mine # {} THEN value ELSE IF Cardinality(ends) > index THEN 0 ELSE -1

Arrow(e, b, word) ==
    CASE b = "A" -> editor_history_up(e)
      [] b = "B" -> editor_history_down(e)
      [] b = "C" -> editor_move_right(e, word)
      [] b = "D" -> editor_move_left(e, word)
      [] b = "H" -> Home(e)
      [] b = "F" -> End(e)
      [] OTHER -> e

editor_handle_csi_final(e, b) ==
    LET first == parse_parameter(e.par, 0)
        word == parse_parameter(e.par, 1) \in {3, 5} \/ first = 5
    IN  CASE b = "~" /\ first \in {1, 7} -> Home(e)
          [] b = "~" /\ first \in {4, 8} -> End(e)
          [] b = "~" /\ first = 3 -> editor_delete(e)
          [] OTHER -> Arrow(e, b, word)

(* ESC b, ESC f, ESC d and ESC DEL, in either case. *)
EscapedLetter(e, b) ==
    CASE b \in {"b", "B"} -> editor_move_left(e, TRUE)
      [] b \in {"f", "F"} -> editor_move_right(e, TRUE)
      [] b \in {"d", "D"} -> editor_delete_next_word(e)
      [] b = "^H" -> editor_delete_previous_word(e)
      [] OTHER -> e

editor_handle_escape_byte(e, b) ==
    LET parameter == b \in DOMAIN Digits \cup {";"} IN
    CASE e.esc = "started" /\ b = "[" -> [e EXCEPT !.esc = "csi", !.par = <<>>]
      [] e.esc = "started" /\ b = "O" -> [e EXCEPT !.esc = "ss3"]
      [] e.esc = "started" /\ b \notin {"[", "O"} -> editor_reset_escape(EscapedLetter(e, b))
      [] e.esc = "csi" /\ parameter ->
             [e EXCEPT !.par = IF Len(@) + 1 < ParMax THEN Append(@, b) ELSE @]
      [] e.esc = "csi" /\ ~parameter -> editor_reset_escape(editor_handle_csi_final(e, b))
      [] e.esc = "ss3" -> editor_reset_escape(Arrow(e, b, FALSE))
=============================================================================
